-------------------------- MODULE ClientViewsProofs --------------------------
(***************************************************************************)
(* Modules of MCClientViews for every value of their constants: presence,  *)
(* whatever the peers, the targets, the time to live and the cap; and one  *)
(* entry of the query cache, whatever its listeners and the journal keep.  *)
(***************************************************************************)
EXTENDS MCClientViews, Sequences, FiniteSetTheorems, WellFoundedInduction, TLAPS

-----------------------------------------------------------------------------
(* Presence: the inductive invariant *)

Scoped(es, x) == {k \in DOMAIN es : k[1] = x}
\* Entries of known targets and peers, received at some time.
EntriesOk(es) == \A k \in DOMAIN es : k \in PrTargets \X PrPeers /\ es[k].at \in Nat \ {0}
CapOk(es, x) == IsFiniteSet(Scoped(es, x)) /\ Cardinality(Scoped(es, x)) <= PrCap

\* What a peer has set on a target is pending or was posted.
SendsInv ==
  /\ DOMAIN last = PrPeers /\ DOMAIN pending = PrPeers /\ DOMAIN posted = PrPeers
  /\ \A p \in PrPeers : DOMAIN pending[p] \subseteq PrTargets
  /\ \A m \in posts : m.target \in PrTargets /\ m.peer \in PrPeers
  /\ Peers!LatestIsSent

\* The timer stands for the earliest expiry, no target is past its cap, and every
\* listener was told of the last change of its target.
StoreInv ==
  /\ now \in Nat \ {0} /\ closed \in BOOLEAN
  /\ EntriesOk(entries)
  /\ presenceTimer = Peers!ArmTimer(entries)
  /\ closed => DOMAIN entries = {}
  /\ \A x \in PrTargets :
       /\ CapOk(entries, x)
       /\ ~closed => presenceSeen[x] = Peers!ForEntity(entries, x)

PresenceInv == SendsInv /\ StoreInv

-----------------------------------------------------------------------------
(* The sender *)

\* What a step of one sender does to a variable of all of them.
Sets(f, g, p, v) == DOMAIN g = DOMAIN f /\ g[p] = v /\ \A q \in DOMAIN f \ {p} : g[q] = f[q]

LEMMA SenderKeeps ==
  ASSUME SendsInv, NEW p \in PrPeers, NEW lst, NEW pnd, NEW psd,
         Sets(last, last', p, lst), Sets(pending, pending', p, pnd), Sets(posted, posted', p, psd),
         DOMAIN pnd \subseteq PrTargets,
         \A m \in posts' : m \in posts \/ (m.target \in PrTargets /\ m.peer \in PrPeers),
         \A x \in DOMAIN lst : IF x \in DOMAIN pnd THEN pnd[x] = lst[x] ELSE x \in DOMAIN psd /\ psd[x] = lst[x]
  PROVE  SendsInv'
<1>1. /\ DOMAIN last' = PrPeers /\ DOMAIN pending' = PrPeers /\ DOMAIN posted' = PrPeers
      /\ last'[p] = lst /\ pending'[p] = pnd /\ posted'[p] = psd
      /\ \A q \in PrPeers \ {p} : last'[q] = last[q] /\ pending'[q] = pending[q] /\ posted'[q] = posted[q]
  BY DEF SendsInv, Sets
<1>2. \A q \in PrPeers : DOMAIN pending'[q] \subseteq PrTargets
  BY <1>1 DEF SendsInv
<1>3. \A m \in posts' : m.target \in PrTargets /\ m.peer \in PrPeers
  BY DEF SendsInv
<1>4. ASSUME NEW q \in PrPeers, NEW x \in DOMAIN last'[q]
      PROVE  IF x \in DOMAIN pending'[q] THEN pending'[q][x] = last'[q][x]
             ELSE x \in DOMAIN posted'[q] /\ posted'[q][x] = last'[q][x]
  <2>1. CASE q = p
    BY <1>1, <2>1
  <2>2. CASE q # p
    BY <1>1, <1>4, <2>2 DEF SendsInv, Peers!LatestIsSent
  <2> QED BY <2>1, <2>2
<1> QED BY <1>1, <1>2, <1>3, <1>4 DEF SendsInv, Peers!LatestIsSent

LEMMA SendKeeps ==
  ASSUME PresenceInv, NEW p \in PrPeers, NEW x \in PrTargets, Peers!Send(p, x)
  PROVE  SendsInv'
<1>1. PICK v : /\ pending' = [pending EXCEPT ![p] = Peers!Put(pending[p], x, v)]
               /\ last' = [last EXCEPT ![p] = Peers!Put(last[p], x, v)]
  BY DEF Peers!Send, Peers!Keyed
<1>2. PICK lst, pnd : lst = Peers!Put(last[p], x, v) /\ pnd = Peers!Put(pending[p], x, v)
  OBVIOUS
<1>3. DOMAIN lst = DOMAIN last[p] \cup {x} /\ lst[x] = v /\ \A y \in DOMAIN last[p] : y # x => lst[y] = last[p][y]
  BY <1>2 DEF Peers!Put
<1>4. /\ DOMAIN pnd = DOMAIN pending[p] \cup {x} /\ pnd[x] = v
      /\ \A y \in DOMAIN pending[p] : y # x => pnd[y] = pending[p][y]
  BY <1>2 DEF Peers!Put
<1>5. \A y \in DOMAIN lst : IF y \in DOMAIN pnd THEN pnd[y] = lst[y]
                            ELSE y \in DOMAIN posted[p] /\ posted[p][y] = lst[y]
  BY <1>3, <1>4 DEF PresenceInv, SendsInv, Peers!LatestIsSent
<1>6. DOMAIN pnd \subseteq PrTargets
  BY <1>4 DEF PresenceInv, SendsInv
<1>7. Sets(last, last', p, lst) /\ Sets(pending, pending', p, pnd)
  BY <1>1, <1>2 DEF Sets, PresenceInv, SendsInv
<1>8. Sets(posted, posted', p, posted[p]) /\ posts' = posts
  BY DEF Peers!Send, Sets
<1> QED BY <1>5, <1>6, <1>7, <1>8, SenderKeeps DEF PresenceInv

LEMMA FiresKeeps ==
  ASSUME PresenceInv, NEW p \in PrPeers, NEW x \in PrTargets, Peers!DebounceFires(p, x)
  PROVE  SendsInv'
<1>1. PICK psd, pnd : psd = Peers!Put(posted[p], x, pending[p][x]) /\ pnd = Peers!Without(pending[p], {x})
  OBVIOUS
<1>2. /\ DOMAIN psd = DOMAIN posted[p] \cup {x} /\ psd[x] = pending[p][x]
      /\ \A y \in DOMAIN posted[p] : y # x => psd[y] = posted[p][y]
  BY <1>1 DEF Peers!Put
<1>3. DOMAIN pnd = DOMAIN pending[p] \ {x} /\ \A y \in DOMAIN pnd : pnd[y] = pending[p][y]
  BY <1>1 DEF Peers!Without
<1>4. Sets(pending, pending', p, pnd) /\ Sets(posted, posted', p, psd) /\ Sets(last, last', p, last[p])
  BY <1>1 DEF Peers!DebounceFires, Sets, PresenceInv, SendsInv
<1>5. x \in DOMAIN pending[p] /\ \A m \in posts' : m \in posts \/ (m.target = x /\ m.peer = p)
  BY DEF Peers!DebounceFires, Peers!Post
<1>6. \A y \in DOMAIN last[p] : IF y \in DOMAIN pnd THEN pnd[y] = last[p][y]
                                ELSE y \in DOMAIN psd /\ psd[y] = last[p][y]
  BY <1>2, <1>3, <1>5 DEF PresenceInv, SendsInv, Peers!LatestIsSent
<1>7. DOMAIN pnd \subseteq PrTargets
  BY <1>3 DEF PresenceInv, SendsInv
<1> QED BY <1>4, <1>5, <1>6, <1>7, SenderKeeps DEF PresenceInv

LEMMA FlushKeeps ==
  ASSUME PresenceInv, NEW p \in PrPeers, Peers!Flush(p)
  PROVE  SendsInv'
<1>1. PICK psd : psd = Peers!Joined(pending[p], posted[p])
  OBVIOUS
<1>2. /\ DOMAIN psd = DOMAIN pending[p] \cup DOMAIN posted[p]
      /\ \A y \in DOMAIN psd : psd[y] = IF y \in DOMAIN pending[p] THEN pending[p][y] ELSE posted[p][y]
  BY <1>1 DEF Peers!Joined
<1>3. Sets(pending, pending', p, <<>>) /\ Sets(posted, posted', p, psd) /\ Sets(last, last', p, last[p])
  BY <1>1 DEF Peers!Flush, Sets, PresenceInv, SendsInv
<1>4. \A m \in posts' : m \in posts \/ (m.target \in PrTargets /\ m.peer \in PrPeers)
  BY DEF Peers!Flush, Peers!Post, PresenceInv, SendsInv
<1>5. DOMAIN <<>> = {}
  OBVIOUS
<1>6. \A y \in DOMAIN last[p] : y \in DOMAIN psd /\ psd[y] = last[p][y]
  BY <1>2 DEF PresenceInv, SendsInv, Peers!LatestIsSent
<1> QED BY <1>3, <1>4, <1>5, <1>6, SenderKeeps DEF PresenceInv

LEMMA CancelKeeps ==
  ASSUME PresenceInv, NEW p \in PrPeers, Peers!Cancel(p)
  PROVE  SendsInv'
<1>1. PICK lst, pnd : lst = Peers!Without(last[p], DOMAIN pending[p]) /\ pnd = <<>>
  OBVIOUS
<1>2. DOMAIN lst = DOMAIN last[p] \ DOMAIN pending[p] /\ \A y \in DOMAIN lst : lst[y] = last[p][y]
  BY <1>1 DEF Peers!Without
<1>3. Sets(pending, pending', p, pnd) /\ Sets(posted, posted', p, posted[p]) /\ Sets(last, last', p, lst)
  BY <1>1 DEF Peers!Cancel, Sets, PresenceInv, SendsInv
<1>4. DOMAIN pnd = {}
  BY <1>1
<1>5. \A y \in DOMAIN lst : y \in DOMAIN posted[p] /\ posted[p][y] = lst[y]
  BY <1>2 DEF PresenceInv, SendsInv, Peers!LatestIsSent
<1>6. \A y \in DOMAIN lst :
        IF y \in DOMAIN pnd THEN pnd[y] = lst[y] ELSE y \in DOMAIN posted[p] /\ posted[p][y] = lst[y]
  BY <1>4, <1>5
<1>7. DOMAIN pnd \subseteq PrTargets
  BY <1>4
<1>8. \A m \in posts' : m \in posts \/ (m.target \in PrTargets /\ m.peer \in PrPeers)
  BY DEF Peers!Cancel
<1>9. SendsInv
  BY DEF PresenceInv
<1> QED BY <1>3, <1>6, <1>7, <1>8, <1>9, SenderKeeps

-----------------------------------------------------------------------------
(* The receiver *)

\* FiniteSets reaches this module twice, by itself and with Presence.
LEMMA CardinalityIs == ASSUME NEW S PROVE Peers!Cardinality(S) = Cardinality(S)
BY DEF Peers!Cardinality, Cardinality

LEMMA LeastIs ==
  ASSUME NEW S \in SUBSET Nat, S # {}
  PROVE  /\ \E m \in S : \A n \in S : m <= n
         /\ Peers!Min(S) \in S /\ \A n \in S : Peers!Min(S) <= n
<1> DEFINE LT == {ss \in Nat \X Nat : ss[1] < ss[2]}
<1>1. OpToRel(<, Nat) = LT
  BY Zenon DEF OpToRel
<1>2. IsWellFoundedOn(LT, Nat)
  BY <1>1, NatLessThanWellFounded, Zenon
<1>3. PICK m \in S : \A y \in S : ~(<<y, m>> \in LT)
  <2> HIDE DEF LT
  <2> QED BY <1>2, WFMin
<1>4. ASSUME NEW n \in S, n < m PROVE FALSE
  <2>1. <<n, m>> \in Nat \X Nat /\ <<n, m>>[1] < <<n, m>>[2]
    BY <1>4
  <2>2. <<n, m>> \in LT
    BY <2>1
  <2> QED BY <1>3, <2>2, Zenon
<1>5. \E k \in S : \A n \in S : k <= n
  BY <1>4
<1> QED BY <1>5 DEF Peers!Min

LEMMA FewerOk ==
  ASSUME NEW es, NEW fs, EntriesOk(es), DOMAIN fs \subseteq DOMAIN es, \A k \in DOMAIN fs : fs[k] = es[k]
  PROVE  EntriesOk(fs) /\ \A x : CapOk(es, x) => CapOk(fs, x)
<1>1. EntriesOk(fs)
  BY DEF EntriesOk
<1>2. ASSUME NEW x, CapOk(es, x) PROVE CapOk(fs, x)
  <2>1. Scoped(fs, x) \subseteq Scoped(es, x)
    BY DEF Scoped
  <2>2. /\ IsFiniteSet(Scoped(fs, x)) /\ Cardinality(Scoped(fs, x)) <= Cardinality(Scoped(es, x))
        /\ Cardinality(Scoped(fs, x)) \in Nat /\ Cardinality(Scoped(es, x)) \in Nat
    BY <1>2, <2>1, FS_Subset, FS_CardinalityType DEF CapOk
  <2> QED BY <1>2, <2>2, ViewsAssumption DEF CapOk
<1> QED BY <1>1, <1>2

\* What a target shows depends on its own entries only.
LEMMA SameShown ==
  ASSUME NEW es, NEW fs, NEW x, EntriesOk(es), Scoped(es, x) = Scoped(fs, x),
         \A k \in Scoped(es, x) : es[k] = fs[k]
  PROVE  Peers!ForEntity(es, x) = Peers!ForEntity(fs, x)
<1>1. \A p \in {k[2] : k \in Scoped(es, x)} : <<x, p>> \in Scoped(es, x)
  BY DEF EntriesOk, Scoped
<1>2. /\ Peers!ForEntity(es, x) = [p \in {k[2] : k \in Scoped(es, x)} |-> es[<<x, p>>].value]
      /\ Peers!ForEntity(fs, x) = [p \in {k[2] : k \in Scoped(fs, x)} |-> fs[<<x, p>>].value]
  BY DEF Peers!ForEntity, Scoped
<1> QED BY <1>1, <1>2

\* A target shows at most as many peers as it has entries.
LEMMA ShownFew ==
  ASSUME NEW es, NEW x, CapOk(es, x)
  PROVE  Cardinality(DOMAIN Peers!ForEntity(es, x)) <= PrCap
<1> DEFINE S == Scoped(es, x)
           T == {k[2] : k \in S}
           f == [k \in S |-> k[2]]
<1>1. DOMAIN Peers!ForEntity(es, x) = T
  BY DEF Peers!ForEntity, Scoped
<1>2. f \in Surjection(S, T)
  BY DEF Surjection
<1>3. Cardinality(T) <= Cardinality(S) /\ IsFiniteSet(T)
  BY <1>2, FS_Surjection DEF CapOk
<1>4. Cardinality(T) \in Nat /\ Cardinality(S) \in Nat
  BY <1>3, FS_CardinalityType DEF CapOk
<1> HIDE DEF T, S, f
<1>5. Cardinality(S) <= PrCap
  BY DEF S, CapOk
<1> QED BY <1>1, <1>3, <1>4, <1>5, ViewsAssumption

LEMMA TimerIs ==
  ASSUME NEW es, EntriesOk(es)
  PROVE  \A k \in DOMAIN es : Peers!ArmTimer(es) # 0 /\ Peers!ArmTimer(es) <= es[k].at + PrTtl
<1> DEFINE D == {es[k].at + PrTtl : k \in DOMAIN es}
<1>1. D \in SUBSET Nat /\ 0 \notin D
  BY ViewsAssumption DEF EntriesOk
<1>2. CASE DOMAIN es = {}
  BY <1>2
<1>3. CASE DOMAIN es # {}
  <2>1. D # {}
    BY <1>3
  <2>2. Peers!Min(D) \in D /\ \A n \in D : Peers!Min(D) <= n
    BY <1>1, <2>1, LeastIs
  <2>3. Peers!ArmTimer(es) = Peers!Min(D)
    BY <1>3 DEF Peers!ArmTimer
  <2> QED BY <1>1, <2>2, <2>3
<1> QED BY <1>2, <1>3

\* A step that leaves fewer entries, and tells the targets that lost one.
LEMMA LossKeeps ==
  ASSUME StoreInv, NEW es, NEW xs, entries' = es, presenceTimer' = Peers!ArmTimer(es),
         DOMAIN es \subseteq DOMAIN entries, \A k \in DOMAIN es : es[k] = entries[k],
         UNCHANGED <<now, closed>>, presenceSeen' = Peers!Told(es, xs) \/ closed,
         \A k \in DOMAIN entries : k \in DOMAIN es \/ k[1] \in xs
  PROVE  StoreInv'
<1>1. EntriesOk(entries)
  BY DEF StoreInv
<1>2. EntriesOk(es) /\ \A x \in PrTargets : CapOk(es, x)
  BY <1>1, FewerOk DEF StoreInv
<1>3. closed => DOMAIN es = {}
  BY DEF StoreInv
<1>4. ASSUME ~closed, NEW x \in PrTargets PROVE presenceSeen'[x] = Peers!ForEntity(es, x)
  <2>1. presenceSeen'[x] = IF x \in xs THEN Peers!ForEntity(es, x) ELSE presenceSeen[x]
    BY <1>4 DEF Peers!Told
  <2>2. CASE x \notin xs
    <3>1. Scoped(entries, x) = Scoped(es, x) /\ \A k \in Scoped(entries, x) : entries[k] = es[k]
      BY <2>2 DEF Scoped
    <3>2. Peers!ForEntity(entries, x) = Peers!ForEntity(es, x)
      BY <1>1, <3>1, SameShown
    <3> QED BY <1>4, <2>1, <2>2, <3>2 DEF StoreInv
  <2> QED BY <2>1, <2>2
<1> QED BY <1>2, <1>3, <1>4 DEF StoreInv

\* A packet of one target: past the cap, the oldest of the others goes.
LEMMA OverIs ==
  ASSUME NEW es, NEW fs, NEW key, NEW x, EntriesOk(es), EntriesOk(fs), CapOk(es, x), key \in DOMAIN fs,
         key[1] = x, DOMAIN fs = DOMAIN es \cup {key}
  PROVE  /\ CapOk(Peers!Without(fs, Peers!Over(fs, key)), x)
         /\ \A k \in Peers!Over(fs, key) : k[1] = x
<1> DEFINE S == Scoped(fs, x)
           others == S \ {key}
           c == CHOOSE k \in others : \A j \in others : fs[k].at <= fs[j].at
<1>1. S = Scoped(es, x) \cup {key}
  BY DEF Scoped
<1>2. IsFiniteSet(S) /\ Cardinality(S) \in Nat /\ Cardinality(S) <= PrCap + 1
  <2>1. PICK T : T = Scoped(es, x)
    OBVIOUS
  <2>2. IsFiniteSet(T) /\ Cardinality(T) \in Nat /\ Cardinality(T) <= PrCap
    BY <2>1, FS_CardinalityType DEF CapOk
  <2>3. /\ IsFiniteSet(T \cup {key})
        /\ Cardinality(T \cup {key}) = Cardinality(T) \/ Cardinality(T \cup {key}) = Cardinality(T) + 1
    BY <2>2, FS_AddElement
  <2>4. S = T \cup {key}
    BY <1>1, <2>1
  <2> QED BY <2>2, <2>3, <2>4, ViewsAssumption
<1>3. Peers!Over(fs, key) = IF Cardinality(S) <= PrCap THEN {} ELSE {c}
  BY CardinalityIs DEF Peers!Over, Scoped
<1>4. CASE Cardinality(S) <= PrCap
  <2>1. Peers!Over(fs, key) = {}
    BY <1>3, <1>4
  <2>2. Scoped(Peers!Without(fs, {}), x) = S
    BY DEF Peers!Without, Scoped
  <2> QED BY <1>2, <1>4, <2>1, <2>2 DEF CapOk
<1>5. CASE ~(Cardinality(S) <= PrCap)
  <2>1. others # {}
    <3>1. SUFFICES ASSUME others = {} PROVE FALSE
      OBVIOUS
    <3>2. S = {key}
      BY <1>1, <3>1
    <3>3. Cardinality(S) = 1
      BY <3>2, FS_Singleton
    <3> QED BY <1>5, <3>3, ViewsAssumption
  <2>2. c \in others
    <3> DEFINE D == {fs[k].at : k \in others}
    <3>1. D \in SUBSET Nat /\ D # {}
      BY <2>1 DEF EntriesOk, Scoped
    <3>2. \E m \in D : \A n \in D : m <= n
      BY <3>1, LeastIs
    <3>3. \E k \in others : \A j \in others : fs[k].at <= fs[j].at
      BY <3>2
    <3> QED BY <3>3
  <2> HIDE DEF c
  <2>3. Scoped(Peers!Without(fs, {c}), x) = S \ {c}
    BY DEF Peers!Without, Scoped
  <2>4. IsFiniteSet(S \ {c}) /\ Cardinality(S \ {c}) = Cardinality(S) - 1
    BY <1>2, <2>2, FS_RemoveElement
  <2>5. Cardinality(S \ {c}) <= PrCap
    BY <1>2, <2>4, ViewsAssumption
  <2>6. Peers!Over(fs, key) = {c} /\ c[1] = x
    BY <1>3, <1>5, <2>2 DEF Scoped
  <2> QED BY <2>3, <2>4, <2>5, <2>6 DEF CapOk
<1> QED BY <1>4, <1>5

LEMMA IngestKeeps ==
  ASSUME StoreInv, NEW m, m.target \in PrTargets, m.peer \in PrPeers, Peers!Ingest(m)
  PROVE  StoreInv'
<1> DEFINE x == m.target
           key == <<m.target, m.peer>>
<1>1. PICK gone, live, put, next :
        /\ gone = Peers!Expired(entries, now) /\ live = Peers!Without(entries, gone)
        /\ put = Peers!Put(live, key, [value |-> m.value, at |-> now])
        /\ next = IF m.value = Peers!Cleared THEN Peers!Without(live, {key})
                  ELSE Peers!Without(put, Peers!Over(put, key))
        /\ ~closed /\ entries' = next /\ presenceTimer' = Peers!ArmTimer(next)
        /\ presenceSeen' = Peers!Told(next, Peers!Changed(live, gone, x))
        /\ now' = now /\ closed' = closed
  BY DEF Peers!Ingest
<1>2. EntriesOk(entries) /\ \A y \in PrTargets : CapOk(entries, y)
  BY DEF StoreInv
<1>3. DOMAIN live = DOMAIN entries \ gone /\ \A k \in DOMAIN live : live[k] = entries[k]
  BY <1>1 DEF Peers!Without
<1>4. EntriesOk(live) /\ \A y \in PrTargets : CapOk(live, y)
  BY <1>2, <1>3, FewerOk
<1>5. /\ DOMAIN put = DOMAIN live \cup {key} /\ put[key].at = now
      /\ \A k \in DOMAIN live : k # key => put[k] = live[k]
  BY <1>1 DEF Peers!Put
<1>6. key \in PrTargets \X PrPeers /\ key[1] = x
  OBVIOUS
<1>7. EntriesOk(put)
  BY <1>4, <1>5, <1>6 DEF EntriesOk, StoreInv
<1>8. /\ CapOk(Peers!Without(put, Peers!Over(put, key)), x)
      /\ \A k \in Peers!Over(put, key) : k[1] = x
  BY <1>4, <1>5, <1>6, <1>7, OverIs
\* Of the other targets, the entries that have not expired stay.
<1>9. /\ EntriesOk(next) /\ CapOk(next, x)
      /\ \A y \in PrTargets \ {x} : Scoped(next, y) = Scoped(live, y)
      /\ \A k \in DOMAIN next : k[1] # x => next[k] = live[k]
  <2>1. CASE m.value = Peers!Cleared
    <3>1. next = Peers!Without(live, {key})
      BY <1>1, <2>1
    <3>2. DOMAIN next = DOMAIN live \ {key} /\ \A k \in DOMAIN next : next[k] = live[k]
      BY <3>1 DEF Peers!Without
    <3>3. EntriesOk(next) /\ CapOk(next, x)
      BY <1>4, <3>2, FewerOk
    <3>4. \A y \in PrTargets \ {x} : Scoped(next, y) = Scoped(live, y)
      BY <1>6, <3>2 DEF Scoped
    <3> QED BY <3>2, <3>3, <3>4
  <2>2. CASE m.value # Peers!Cleared
    <3>1. next = Peers!Without(put, Peers!Over(put, key))
      BY <1>1, <2>2
    <3>2. DOMAIN next = DOMAIN put \ Peers!Over(put, key) /\ \A k \in DOMAIN next : next[k] = put[k]
      BY <3>1 DEF Peers!Without
    <3>3. EntriesOk(next)
      BY <1>7, <3>2, FewerOk
    <3>4. CapOk(next, x)
      BY <1>8, <3>1
    <3>5. \A y \in PrTargets \ {x} : Scoped(next, y) = Scoped(live, y)
      BY <1>5, <1>6, <1>8, <3>2 DEF Scoped
    <3>6. \A k \in DOMAIN next : k[1] # x => next[k] = live[k]
      BY <1>5, <1>6, <3>2
    <3> QED BY <3>3, <3>4, <3>5, <3>6
  <2> QED BY <2>1, <2>2
<1>10. \A y \in PrTargets : CapOk(next, y)
  <2>1. ASSUME NEW y \in PrTargets \ {x} PROVE CapOk(next, y)
    BY <1>4, <1>9 DEF CapOk
  <2> QED BY <1>9, <2>1
<1>11. ASSUME NEW y \in PrTargets PROVE presenceSeen'[y] = Peers!ForEntity(next, y)
  <2>1. presenceSeen'[y] =
          IF y \in Peers!Changed(live, gone, x) THEN Peers!ForEntity(next, y) ELSE presenceSeen[y]
    BY <1>1 DEF Peers!Told
  <2>2. CASE y \notin Peers!Changed(live, gone, x)
    <3>1. y # x /\ \A k \in gone : k[1] # y
      BY <2>2 DEF Peers!Changed
    <3>2. Scoped(entries, y) = Scoped(next, y)
      BY <1>3, <1>9, <3>1 DEF Scoped
    <3>3. \A k \in Scoped(entries, y) : entries[k] = next[k]
      BY <1>3, <1>9, <3>1, <3>2 DEF Scoped
    <3>4. Peers!ForEntity(entries, y) = Peers!ForEntity(next, y)
      BY <1>2, <3>2, <3>3, SameShown
    <3> QED BY <1>1, <2>1, <2>2, <3>4 DEF StoreInv
  <2> QED BY <2>1, <2>2
<1>12. /\ now' \in Nat \ {0} /\ closed' = FALSE /\ entries' = next
       /\ presenceTimer' = Peers!ArmTimer(next)
  BY <1>1 DEF StoreInv
<1> HIDE DEF x, key
<1> QED BY <1>9, <1>10, <1>11, <1>12 DEF StoreInv

-----------------------------------------------------------------------------
(* Presence: every step *)

LEMMA NoneOk ==
  ASSUME NEW es, DOMAIN es = {}
  PROVE  EntriesOk(es) /\ (\A x : CapOk(es, x) /\ Scoped(es, x) = {}) /\ Peers!ArmTimer(es) = 0
<1>1. \A x : Scoped(es, x) = {}
  BY DEF Scoped
<1>2. IsFiniteSet({}) /\ Cardinality({}) = 0
  BY FS_EmptySet
<1>3. ASSUME NEW x PROVE CapOk(es, x)
  <2>1. Scoped(es, x) = {} /\ 0 <= PrCap
    BY <1>1, ViewsAssumption
  <2> QED BY <1>2, <2>1 DEF CapOk
<1> QED BY <1>1, <1>3 DEF EntriesOk, Peers!ArmTimer

LEMMA PresenceStarts == Peers!PrInit => PresenceInv
<1> SUFFICES ASSUME Peers!PrInit PROVE PresenceInv
  OBVIOUS
<1>1. DOMAIN <<>> = {}
  OBVIOUS
<1>2. SendsInv
  BY <1>1 DEF Peers!PrInit, SendsInv, Peers!LatestIsSent
<1>3. EntriesOk(entries) /\ (\A x : CapOk(entries, x)) /\ presenceTimer = Peers!ArmTimer(entries)
  BY <1>1, NoneOk DEF Peers!PrInit
<1>4. \A x \in PrTargets : presenceSeen[x] = Peers!ForEntity(entries, x)
  BY <1>1 DEF Peers!PrInit, Peers!ForEntity
<1>5. now \in Nat \ {0} /\ closed \in BOOLEAN /\ DOMAIN entries = {}
  <2>1. now = 1 /\ closed = FALSE /\ entries = <<>>
    BY DEF Peers!PrInit
  <2>2. now \in Nat \ {0}
    BY <2>1
  <2>4. closed \in BOOLEAN
    BY <2>1, Zenon
  <2>3. DOMAIN entries = {}
    BY <1>1, <2>1, Zenon
  <2> QED BY <2>2, <2>3, <2>4
<1>6. StoreInv
  BY <1>3, <1>4, <1>5 DEF StoreInv
<1> QED BY <1>2, <1>6 DEF PresenceInv

LEMMA PresenceStep == PresenceInv /\ [Peers!PrNext]_(Peers!prVars) => PresenceInv'
<1> SUFFICES ASSUME PresenceInv, [Peers!PrNext]_(Peers!prVars) PROVE PresenceInv'
  OBVIOUS
<1>1. ASSUME UNCHANGED Peers!receiver PROVE StoreInv'
  BY <1>1 DEF Peers!receiver, PresenceInv, StoreInv, EntriesOk, CapOk, Scoped, Peers!ArmTimer, Peers!ForEntity
<1>2. ASSUME UNCHANGED <<last, pending, posted>>, posts' \subseteq posts PROVE SendsInv'
  BY <1>2 DEF PresenceInv, SendsInv, Peers!LatestIsSent
<1>3. CASE UNCHANGED Peers!prVars
  BY <1>1, <1>2, <1>3 DEF Peers!prVars, Peers!receiver, PresenceInv
<1>4. ASSUME NEW p \in PrPeers, NEW x \in PrTargets, Peers!Send(p, x) \/ Peers!DebounceFires(p, x)
      PROVE  PresenceInv'
  <2>1. UNCHANGED Peers!receiver
    BY <1>4 DEF Peers!Send, Peers!DebounceFires
  <2> QED BY <1>1, <1>4, <2>1, SendKeeps, FiresKeeps DEF PresenceInv
<1>5. ASSUME NEW p \in PrPeers, Peers!Flush(p) \/ Peers!Cancel(p) PROVE PresenceInv'
  <2>1. UNCHANGED Peers!receiver
    BY <1>5 DEF Peers!Flush, Peers!Cancel
  <2> QED BY <1>1, <1>5, <2>1, FlushKeeps, CancelKeeps DEF PresenceInv
<1>6. ASSUME NEW m \in posts, Peers!Arrives(m) \/ Peers!Lost(m) PROVE PresenceInv'
  <2>1. SendsInv'
    BY <1>2, <1>6 DEF Peers!Arrives, Peers!Lost
  <2>2. m.target \in PrTargets /\ m.peer \in PrPeers
    BY DEF PresenceInv, SendsInv
  <2>3. CASE Peers!Arrives(m)
    BY <2>1, <2>2, <2>3, IngestKeeps DEF Peers!Arrives, PresenceInv
  <2>4. CASE Peers!Lost(m)
    BY <1>1, <2>1, <2>4 DEF Peers!Lost, PresenceInv
  <2> QED BY <1>6, <2>3, <2>4
<1>7. CASE Peers!Sweep
  <2>1. SendsInv'
    BY <1>2, <1>7 DEF Peers!Sweep, Peers!senders
  <2>2. PICK gone, es : /\ gone = Peers!Expired(entries, now) /\ es = Peers!Without(entries, gone)
                        /\ entries' = es /\ presenceTimer' = Peers!ArmTimer(es)
                        /\ presenceSeen' = Peers!Told(es, {k[1] : k \in gone})
                        /\ UNCHANGED <<now, closed>>
    BY <1>7 DEF Peers!Sweep
  <2>3. DOMAIN es = DOMAIN entries \ gone /\ \A k \in DOMAIN es : es[k] = entries[k]
    BY <2>2 DEF Peers!Without
  <2>4. \A k \in DOMAIN entries : k \in DOMAIN es \/ k[1] \in {j[1] : j \in gone}
    BY <2>3
  <2> QED BY <2>1, <2>2, <2>3, <2>4, LossKeeps DEF PresenceInv
<1>8. CASE Peers!Reset \/ Peers!Close
  <2>1. SendsInv'
    BY <1>2, <1>8 DEF Peers!Reset, Peers!Close, Peers!senders
  <2>2. /\ entries' = <<>> /\ presenceTimer' = 0 /\ now' = now /\ closed' \in BOOLEAN
        /\ ~closed' => ~closed
    BY <1>8 DEF Peers!Reset, Peers!Close, PresenceInv, StoreInv
  <2>9. ~closed' => presenceSeen' = Peers!Told(<<>>, {k[1] : k \in DOMAIN entries})
    BY <1>8 DEF Peers!Reset, Peers!Close
  <2>3. PICK es : es = <<>> /\ DOMAIN es = {}
    OBVIOUS
  <2>10. EntriesOk(es) /\ (\A x : CapOk(es, x) /\ Scoped(es, x) = {}) /\ Peers!ArmTimer(es) = 0
    BY <2>3, NoneOk
  <2>4. ASSUME ~closed', NEW x \in PrTargets PROVE presenceSeen'[x] = Peers!ForEntity(es, x)
    <3>1. presenceSeen'[x] =
            IF x \in {k[1] : k \in DOMAIN entries} THEN Peers!ForEntity(es, x) ELSE presenceSeen[x]
      BY <2>3, <2>4, <2>9 DEF Peers!Told
    <3>2. CASE x \notin {k[1] : k \in DOMAIN entries}
      <4>1. Scoped(entries, x) = {} /\ Scoped(es, x) = {}
        BY <2>10, <3>2 DEF Scoped
      <4>2. Peers!ForEntity(entries, x) = Peers!ForEntity(es, x)
        BY <4>1, SameShown DEF PresenceInv, StoreInv
      <4> QED BY <2>2, <2>4, <3>1, <3>2, <4>2 DEF PresenceInv, StoreInv
    <3> QED BY <3>1, <3>2
  <2>6. now \in Nat \ {0}
    BY DEF PresenceInv, StoreInv
  <2>7. StoreInv'
    BY <2>2, <2>3, <2>4, <2>6, <2>10 DEF StoreInv
  <2> QED BY <2>1, <2>7 DEF PresenceInv
<1>9. CASE Peers!Tick
  <2>1. SendsInv'
    BY <1>2, <1>9 DEF Peers!Tick, Peers!senders
  <2>2. now' = now + 1 /\ UNCHANGED <<entries, presenceTimer, closed, presenceSeen>>
    BY <1>9 DEF Peers!Tick
  <2>3. StoreInv'
    BY <2>2 DEF PresenceInv, StoreInv, EntriesOk, CapOk, Scoped, Peers!ArmTimer, Peers!ForEntity
  <2> QED BY <2>1, <2>3 DEF PresenceInv
<1> QED BY <1>3, <1>4, <1>5, <1>6, <1>7, <1>8, <1>9 DEF Peers!PrNext

LEMMA PresenceClaims == PresenceInv => Peers!PeersAreCurrent /\ Peers!LatestIsSent
<1> SUFFICES ASSUME PresenceInv PROVE Peers!PeersAreCurrent
  BY DEF PresenceInv, SendsInv
<1>1. \A k \in DOMAIN entries : presenceTimer # 0 /\ presenceTimer <= entries[k].at + PrTtl
  BY TimerIs DEF PresenceInv, StoreInv
<1>2. \A x \in PrTargets : Peers!Cardinality(DOMAIN Peers!ForEntity(entries, x)) <= PrCap
  BY ShownFew, CardinalityIs DEF PresenceInv, StoreInv
<1> QED BY <1>1, <1>2 DEF Peers!PeersAreCurrent, PresenceInv, StoreInv

\* store.ts and transport.ts: for any peers, targets, time to live and cap, whatever order
\* packets, expiries and resets come in, a listener has what a read would give it, no
\* target shows more peers than its cap, and each target's newest value was sent or waits.
THEOREM PresenceHolds == SumSpec => []PresenceIsCurrent
<1> DEFINE Inv == part = "presence" => PresenceInv
<1>1. SumInit => Inv
  BY PresenceStarts DEF SumInit
<1>2. Inv /\ [SumNext]_allVars => Inv'
  <2> SUFFICES ASSUME Inv, [SumNext]_allVars, part' = "presence" PROVE PresenceInv'
    OBVIOUS
  <2>1. part = "presence"
    BY DEF SumNext, allVars
  <2>2. [Peers!PrNext]_(Peers!prVars)
    BY <2>1 DEF SumNext, allVars, presenceVars, Peers!prVars
  <2> QED BY <2>1, <2>2, PresenceStep
<1>3. Inv => PresenceIsCurrent
  BY PresenceClaims DEF PresenceIsCurrent
<1> QED BY <1>1, <1>2, <1>3, PTL DEF SumSpec

-----------------------------------------------------------------------------
(* The query cache: the inductive invariant *)

Undefined == -1
DataType == {-1, 0, 1}
Statuses == {"unloaded", "stale", "current", "failed"}
SnapType == [data : DataType, status : Statuses]
RunType ==
  [revision : Nat, hadData : BOOLEAN, hadError : BOOLEAN, startedStale : BOOLEAN,
   publishedStale : BOOLEAN, microtask : BOOLEAN, rows : DataType]
ListenerType == [on : BOOLEAN, initial : BOOLEAN, revision : Nat]
EntryType ==
  [data : DataType, error : BOOLEAN, revision : Nat \cup {-1}, snapshot : SnapType,
   running : {"no", "ready", "run"}, run : RunType, listeners : [CqListeners -> ListenerType],
   evictTimer : BOOLEAN]

\* Since a revision, no change touched what the query reads.
Untouched(cs, from) == \A r \in from + 1..Len(cs) : ~cs[r]

\* The data is what the query gave at its revision, and so are the rows of a run.
DataOk(e, cs, res) ==
  /\ e \in EntryType /\ (e.data = Undefined <=> e.revision = Undefined)
  /\ e.data # Undefined => e.revision <= Len(cs) /\ (Untouched(cs, e.revision) => e.data = res)

RunOk(e, cs, res) ==
  e.running = "run" =>
    /\ e.run.revision <= Len(cs) /\ (e.run.hadData <=> e.data # Undefined) /\ (e.run.hadError <=> e.error)
    /\ e.run.rows # Undefined /\ Untouched(cs, e.run.revision) => e.run.rows = res

\* The snapshot shows the entry.
ShowsOk(e, cs) ==
  /\ e.snapshot.data = e.data /\ (e.snapshot.status = "failed" <=> e.error)
  /\ e.running = "no" /\ e.data # Undefined /\ ~e.error /\ e.revision = Len(cs) => e.snapshot.status = "current"

EntryOk(e, cs, res) == DataOk(e, cs, res) /\ RunOk(e, cs, res) /\ ShowsOk(e, cs)

\* With a listener, an entry at rest is of the replica's revision.
RestOk(e, cs) ==
  Cache!Refs(e) > 0 /\ e.running = "no" /\ e.data # Undefined /\ ~e.error => e.revision = Len(cs)

Primed(e) == {l \in CqListeners : e.listeners[l].on /\ e.listeners[l].initial}
Heard(l, e) == cacheSeen[l].data = e.data /\ (cacheSeen[l].status = "failed" <=> e.error)

CacheType ==
  /\ result \in {0, 1} /\ changes \in Seq(BOOLEAN) /\ sync \in BOOLEAN /\ isReady \in BOOLEAN
  /\ made \in Seq(EntryType) /\ mapped \in {0} \cup DOMAIN made

\* A listener listens to one entry at a time.
OneStore ==
  \A j, k \in DOMAIN made : j # k => Cache!Subscribed(made[j]) \cap Cache!Subscribed(made[k]) = {}

\* Every entry is in order and heard, in the map or out of it; the one of the map rests at
\* the replica's revision.
CacheInv ==
  /\ CacheType /\ OneStore
  /\ \A k \in DOMAIN made :
       /\ EntryOk(made[k], changes, result) /\ (k = mapped => RestOk(made[k], changes))
       /\ \A l \in Primed(made[k]) : Heard(l, made[k])

-----------------------------------------------------------------------------
(* The entry's own functions *)

\* A settled outcome: its entry is in order, and who is not told has nothing to hear.
Sound(o, e, cs, res) ==
  /\ EntryOk(o.e, cs, res) /\ RestOk(o.e, cs) /\ o.e.listeners = e.listeners
  /\ o.who \subseteq Cache!Subscribed(e)
  /\ \A l \in Primed(e) : l \in o.who \/ (o.e.data = e.data /\ (o.e.error <=> e.error))

LEMMA RefsIs ==
  ASSUME NEW e
  PROVE  Cache!Refs(e) \in Nat /\ (Cache!Refs(e) = 0 <=> Cache!Subscribed(e) = {})
<1>1. \A S : Cache!Cardinality(S) = Cardinality(S)
  BY DEF Cache!Cardinality, Cardinality
<1>2. PICK T : T = Cache!Subscribed(e)
  OBVIOUS
<1>3. IsFiniteSet(T)
  BY <1>2, FS_Subset, ViewsAssumption DEF Cache!Subscribed
<1>4. Cardinality(T) \in Nat /\ (Cardinality(T) = 0 <=> T = {})
  BY <1>3, FS_CardinalityType, FS_EmptySet
<1> QED BY <1>1, <1>2, <1>4 DEF Cache!Refs

LEMMA RefreshIs ==
  ASSUME NEW cs \in Seq(BOOLEAN), NEW res, NEW e, DataOk(e, cs, res), RunOk(e, cs, res),
         NEW f, f = Cache!Refresh(e, Len(cs))
  PROVE  /\ EntryOk(f, cs, res) /\ f.data = e.data /\ f.error = e.error /\ f.revision = e.revision
         /\ f.running = e.running /\ f.run = e.run /\ f.listeners = e.listeners
<1>1. PICK s : s = Cache!StatusOf(e, Len(cs))
  OBVIOUS
<1>2. /\ s \in Statuses /\ (s = "failed" <=> e.error)
      /\ e.data # Undefined /\ ~e.error /\ e.revision = Len(cs) => s = "current"
  BY <1>1 DEF Cache!StatusOf, Statuses, Undefined, Cache!Undefined, DataOk, EntryType
<1>3. f = [e EXCEPT !.snapshot = [data |-> e.data, status |-> s]]
  BY <1>1 DEF Cache!Refresh, Cache!Snapshot
<1>4. /\ f \in EntryType /\ f.data = e.data /\ f.error = e.error /\ f.revision = e.revision
      /\ f.running = e.running /\ f.run = e.run /\ f.listeners = e.listeners
      /\ f.snapshot = [data |-> e.data, status |-> s]
  BY <1>2, <1>3 DEF DataOk, EntryType, SnapType
<1>5. f.snapshot.data = e.data /\ f.snapshot.status = s
  BY <1>4
<1>6. DataOk(f, cs, res) /\ RunOk(f, cs, res)
  BY <1>4 DEF DataOk, RunOk
<1>7. ShowsOk(f, cs)
  BY <1>2, <1>4, <1>5 DEF ShowsOk
<1> QED BY <1>4, <1>6, <1>7 DEF EntryOk

LEMMA BegunIs ==
  ASSUME NEW cs \in Seq(BOOLEAN), NEW res, NEW e, DataOk(e, cs, res), NEW f, f = Cache!Begun(e, Len(cs)),
         sync \in BOOLEAN
  PROVE  /\ EntryOk(f, cs, res) /\ f.data = e.data /\ f.error = e.error /\ f.revision = e.revision
         /\ f.running = "run" /\ f.run.revision = Len(cs) /\ f.listeners = e.listeners
<1>1. PICK h \in BOOLEAN, q \in BOOLEAN, m \in BOOLEAN :
        h = (e.data # Undefined) /\ q = (e.snapshot.status = "stale") /\ m = ~sync
  BY Zenon
<1>2. PICK r : r = [Cache!NoRun EXCEPT !.revision = Len(cs), !.hadData = h, !.hadError = e.error,
                                       !.microtask = m, !.startedStale = q]
  OBVIOUS
<1>3. e \in EntryType /\ e.error \in BOOLEAN /\ Len(cs) \in Nat
  BY DEF DataOk, EntryType
<1>4. r = [revision |-> Len(cs), hadData |-> h, hadError |-> e.error, startedStale |-> q,
           publishedStale |-> FALSE, microtask |-> m, rows |-> -1]
  BY <1>2 DEF Cache!NoRun, Cache!Undefined
<1>5. r \in RunType /\ r.revision = Len(cs) /\ r.hadData = h /\ r.hadError = e.error /\ r.rows = Undefined
  BY <1>3, <1>4 DEF RunType, DataType, Undefined
<1>6. PICK g : g = [e EXCEPT !.running = "run", !.run = r]
  OBVIOUS
<1>7. f = Cache!Refresh(g, Len(cs))
  BY <1>1, <1>2, <1>6 DEF Cache!Begun, Cache!Undefined, Undefined
<1>8. /\ g \in EntryType /\ g.data = e.data /\ g.error = e.error /\ g.revision = e.revision
      /\ g.running = "run" /\ g.run = r /\ g.listeners = e.listeners
  BY <1>3, <1>5, <1>6 DEF EntryType
<1>9. DataOk(g, cs, res)
  BY <1>8 DEF DataOk
<1>10. RunOk(g, cs, res)
  <2>1. g.run.revision = Len(cs) /\ g.run.rows = Undefined
    BY <1>5, <1>8
  <2>2. g.run.hadData <=> g.data # Undefined
    BY <1>1, <1>5, <1>8, Zenon
  <2>3. g.run.hadError <=> g.error
    BY <1>5, <1>8, Zenon
  <2> QED BY <1>3, <2>1, <2>2, <2>3 DEF RunOk
<1> QED BY <1>5, <1>7, <1>8, <1>9, <1>10, RefreshIs

LEMMA SettledIs ==
  ASSUME NEW cs \in Seq(BOOLEAN), NEW res, NEW e, DataOk(e, cs, res), RunOk(e, cs, res), e.running = "run",
         NEW got \in {0, 1}, Untouched(cs, e.run.revision) => got = res, NEW ok \in BOOLEAN,
         NEW o, o = Cache!Settled(e, got, ok, cs)
  PROVE  /\ EntryOk(o.e, cs, res) /\ o.e.running = "no"
         /\ ~o.e.error => o.e.revision = e.run.revision
         /\ o.e.listeners = e.listeners /\ o.who \subseteq Cache!Subscribed(e)
         /\ \A l \in Primed(e) : l \in o.who \/ (o.e.data = e.data /\ (o.e.error <=> e.error))
<1>1. PICK g : g = [e EXCEPT !.running = "no", !.run = Cache!NoRun, !.data = IF ok THEN got ELSE e.data,
                             !.error = ~ok, !.revision = IF ok THEN e.run.revision ELSE e.revision]
  OBVIOUS
<1>2. Cache!NoRun \in RunType
  BY DEF Cache!NoRun, RunType, DataType, Cache!Undefined
<1>3. e \in EntryType /\ e.run \in RunType /\ e.run.revision \in Nat /\ e.run.revision <= Len(cs)
  BY DEF DataOk, RunOk, EntryType, RunType
<1>4. PICK b \in BOOLEAN : b <=> ~ok
  OBVIOUS
<1>5. /\ g \in EntryType /\ g.running = "no" /\ (g.error <=> ~ok) /\ g.listeners = e.listeners
      /\ ok => g.data = got /\ g.revision = e.run.revision
      /\ ~ok => g.data = e.data /\ g.revision = e.revision
  BY <1>1, <1>2, <1>3 DEF EntryType, DataType
<1>6. DataOk(g, cs, res)
  BY <1>3, <1>5 DEF DataOk, Undefined
<1>7. RunOk(g, cs, res)
  BY <1>5 DEF RunOk
<1>8. PICK next : next = Cache!Refresh(g, Len(cs))
  OBVIOUS
<1>9. /\ EntryOk(next, cs, res) /\ next.data = g.data /\ next.error = g.error
      /\ next.revision = g.revision /\ next.running = g.running /\ next.listeners = g.listeners
  BY <1>6, <1>7, <1>8, RefreshIs
<1>10. o.e = next
  BY <1>1, <1>8 DEF Cache!Settled, Cache!Outcome
<1>11. /\ Primed(e) \subseteq Cache!Subscribed(e) /\ \A l \in Primed(e) : l \in Cache!InitialListeners(e, cs)
  BY DEF Primed, Cache!Subscribed, Cache!InitialListeners
<1>12. ASSUME NEW l \in Primed(e), l \notin o.who PROVE next.data = e.data /\ (next.error <=> e.error)
  <2>1. CASE ok
    <3>1. e.run.hadData /\ e.data = got /\ ~e.run.hadError
      BY <1>11, <1>12, <2>1 DEF Cache!Settled, Cache!Outcome, Cache!WorthTelling
    <3> QED BY <1>5, <1>9, <2>1, <3>1 DEF RunOk
  <2>2. CASE ~ok
    <3>1. e.error
      BY <1>11, <1>12, <2>2 DEF Cache!Settled, Cache!Outcome
    <3> QED BY <1>5, <1>9, <2>2, <3>1
  <2> QED BY <2>1, <2>2
<1>13. o.who \subseteq Cache!Subscribed(e)
  BY DEF Cache!Settled, Cache!Outcome, Cache!InitialListeners
<1> QED BY <1>5, <1>9, <1>10, <1>12, <1>13

LEMMA ExecuteIs ==
  ASSUME NEW cs \in Seq(BOOLEAN), NEW res \in {0, 1}, NEW e, DataOk(e, cs, res), sync \in BOOLEAN,
         NEW ok \in BOOLEAN, NEW o, o = Cache!Execute(e, cs, res, ok)
  PROVE  Sound(o, e, cs, res)
<1>1. PICK b : b = Cache!Begun(e, Len(cs))
  OBVIOUS
<1>2. /\ EntryOk(b, cs, res) /\ b.data = e.data /\ b.error = e.error /\ b.running = "run"
      /\ b.run.revision = Len(cs) /\ b.listeners = e.listeners
  BY <1>1, BegunIs
<1>3. CASE sync
  <2>1. o = Cache!Settled(b, res, ok, cs)
    BY <1>1, <1>3 DEF Cache!Execute
  <2>2. /\ EntryOk(o.e, cs, res) /\ o.e.running = "no" /\ (~o.e.error => o.e.revision = Len(cs))
        /\ o.e.listeners = b.listeners /\ o.who \subseteq Cache!Subscribed(b)
        /\ \A l \in Primed(b) : l \in o.who \/ (o.e.data = b.data /\ (o.e.error <=> b.error))
    BY <1>2, <2>1, SettledIs DEF EntryOk
  <2>3. Primed(b) = Primed(e) /\ Cache!Subscribed(b) = Cache!Subscribed(e)
    BY <1>2 DEF Primed, Cache!Subscribed
  <2> QED BY <1>2, <2>2, <2>3 DEF Sound, RestOk
<1>4. CASE ~sync
  <2>1. o.e = b /\ o.who = {}
    BY <1>1, <1>4 DEF Cache!Execute, Cache!Outcome
  <2> QED BY <1>2, <2>1 DEF Sound, RestOk
<1> QED BY <1>3, <1>4

LEMMA HydrateIs ==
  ASSUME NEW cs \in Seq(BOOLEAN), NEW res \in {0, 1}, NEW e, EntryOk(e, cs, res), sync \in BOOLEAN,
         NEW ok \in BOOLEAN, NEW o, o = Cache!Hydrate(e, cs, res, ok)
  PROVE  Sound(o, e, cs, res)
<1>1. CASE isReady
  BY <1>1, ExecuteIs DEF Cache!Hydrate, EntryOk
<1>2. CASE ~isReady
  <2>1. o.e = [e EXCEPT !.running = "ready"] /\ o.who = {}
    BY <1>2 DEF Cache!Hydrate, Cache!Outcome
  <2>2. /\ o.e \in EntryType /\ o.e.data = e.data /\ o.e.error = e.error /\ o.e.revision = e.revision
        /\ o.e.running = "ready" /\ o.e.snapshot = e.snapshot /\ o.e.listeners = e.listeners
    BY <2>1 DEF EntryOk, DataOk, EntryType
  <2>3. DataOk(o.e, cs, res)
    BY <2>2 DEF EntryOk, DataOk
  <2>4. RunOk(o.e, cs, res)
    BY <2>2 DEF RunOk
  <2>5. ShowsOk(o.e, cs)
    BY <2>2 DEF EntryOk, ShowsOk
  <2>6. RestOk(o.e, cs)
    BY <2>2 DEF RestOk
  <2> QED BY <2>1, <2>2, <2>3, <2>4, <2>5, <2>6 DEF Sound, EntryOk
<1> QED BY <1>1, <1>2

\* What the journal does not report as relevant has left the query alone.
LEMMA IrrelevantIs ==
  ASSUME NEW cs \in Seq(BOOLEAN), NEW from \in Nat, from <= Len(cs), ~Cache!IsRelevant(cs, from)
  PROVE  Untouched(cs, from)
BY ViewsAssumption DEF Cache!IsRelevant, Untouched

LEMMA ReconcileIs ==
  ASSUME NEW cs \in Seq(BOOLEAN), NEW res \in {0, 1}, NEW e, EntryOk(e, cs, res), sync \in BOOLEAN,
         NEW ok \in BOOLEAN, NEW o, o = Cache!Reconcile(e, cs, res, ok)
  PROVE  Sound(o, e, cs, res)
<1> DEFINE still == Cache!Outcome(e, {})
<1>1. /\ still.e = e /\ still.who = {}
      /\ e.running # "no" \/ e.data = Undefined \/ e.revision = Len(cs) => Sound(still, e, cs, res)
  BY DEF Cache!Outcome, Sound, RestOk
<1>2. CASE e.running # "no"
  BY <1>1, <1>2 DEF Cache!Reconcile
<1>3. CASE e.running = "no" /\ e.data = Undefined
  <2>1. o = still \/ o = Cache!Hydrate(e, cs, res, ok)
    BY <1>3 DEF Cache!Reconcile, Undefined, Cache!Undefined
  <2> QED BY <1>1, <1>3, <2>1, HydrateIs
<1>4. CASE e.running = "no" /\ e.data # Undefined
  <2>1. o = IF e.revision = Len(cs) THEN still
            ELSE IF Cache!Refs(e) = 0 THEN Cache!Outcome(Cache!Refresh(e, Len(cs)), {})
            ELSE IF ~Cache!IsRelevant(cs, e.revision)
            THEN Cache!Outcome(Cache!Refresh([e EXCEPT !.revision = Len(cs)], Len(cs)), {})
            ELSE Cache!Execute(e, cs, res, ok)
    BY <1>4 DEF Cache!Reconcile, Undefined, Cache!Undefined
  <2>2. CASE e.revision = Len(cs)
    BY <1>1, <2>1, <2>2
  <2>3. CASE e.revision # Len(cs) /\ Cache!Refs(e) = 0
    <3>1. o.e = Cache!Refresh(e, Len(cs)) /\ o.who = {}
      BY <2>1, <2>3 DEF Cache!Outcome
    <3>2. /\ EntryOk(o.e, cs, res) /\ o.e.data = e.data /\ o.e.error = e.error
          /\ o.e.listeners = e.listeners
      BY <3>1, RefreshIs DEF EntryOk
    <3>3. Cache!Refs(o.e) = 0
      BY <2>3, <3>2 DEF Cache!Refs, Cache!Subscribed
    <3> QED BY <3>1, <3>2, <3>3 DEF Sound, RestOk
  <2>4. CASE e.revision # Len(cs) /\ Cache!Refs(e) # 0 /\ ~Cache!IsRelevant(cs, e.revision)
    <3>1. PICK g : g = [e EXCEPT !.revision = Len(cs)]
      OBVIOUS
    <3>2. /\ e \in EntryType /\ e.revision \in Nat /\ e.revision <= Len(cs) /\ Len(cs) \in Nat
          /\ Len(cs) # Undefined
      BY <1>4 DEF EntryOk, DataOk, EntryType, Undefined
    <3>3. e.data = res
      BY <1>4, <2>4, <3>2, IrrelevantIs DEF EntryOk, DataOk
    <3>4. /\ g \in EntryType /\ g.data = e.data /\ g.error = e.error /\ g.revision = Len(cs)
          /\ g.running = "no" /\ g.listeners = e.listeners
      BY <1>4, <3>1, <3>2 DEF EntryType
    <3>5. DataOk(g, cs, res) /\ RunOk(g, cs, res)
      BY <1>4, <3>2, <3>3, <3>4 DEF DataOk, RunOk
    <3>6. o.e = Cache!Refresh(g, Len(cs)) /\ o.who = {}
      BY <2>1, <2>4, <3>1 DEF Cache!Outcome
    <3>7. /\ EntryOk(o.e, cs, res) /\ o.e.data = e.data /\ o.e.error = e.error /\ o.e.revision = Len(cs)
          /\ o.e.listeners = e.listeners
      BY <3>4, <3>5, <3>6, RefreshIs
    <3> QED BY <3>6, <3>7 DEF Sound, RestOk
  <2>5. CASE e.revision # Len(cs) /\ Cache!Refs(e) # 0 /\ Cache!IsRelevant(cs, e.revision)
    BY <2>1, <2>5, ExecuteIs DEF EntryOk
  <2> QED BY <2>2, <2>3, <2>4, <2>5
<1> QED BY <1>2, <1>3, <1>4

-----------------------------------------------------------------------------
(* The query cache: every step *)

LEMMA MadeIs ==
  ASSUME CacheInv, NEW k \in DOMAIN made
  PROVE  /\ EntryOk(made[k], changes, result) /\ made[k] \in EntryType /\ OneStore
         /\ k = mapped => RestOk(made[k], changes)
         /\ \A l \in Primed(made[k]) : Heard(l, made[k])
         /\ changes \in Seq(BOOLEAN) /\ result \in {0, 1} /\ sync \in BOOLEAN /\ isReady \in BOOLEAN
BY DEF CacheInv, CacheType, EntryOk, DataOk

\* An entry is replaced: the others keep what they have, if their listeners do.
LEMMA EntryKeeps ==
  ASSUME CacheInv, NEW k \in DOMAIN made, NEW f, made' = [made EXCEPT ![k] = f],
         changes' \in Seq(BOOLEAN), result' \in {0, 1}, sync' \in BOOLEAN, isReady' \in BOOLEAN,
         mapped' \in {0, mapped},
         EntryOk(f, changes', result'), k = mapped' => RestOk(f, changes'),
         \A l \in Cache!Subscribed(f) : \A j \in DOMAIN made \ {k} : l \notin Cache!Subscribed(made[j]),
         \A l \in Primed(f) : cacheSeen'[l].data = f.data /\ (cacheSeen'[l].status = "failed" <=> f.error),
         \A j \in DOMAIN made \ {k} :
           /\ EntryOk(made[j], changes', result') /\ (j = mapped' => RestOk(made[j], changes'))
           /\ \A l \in Cache!Subscribed(made[j]) : cacheSeen'[l] = cacheSeen[l]
  PROVE  CacheInv'
<1>1. made \in Seq(EntryType) /\ f \in EntryType /\ mapped \in {0} \cup DOMAIN made
  BY DEF CacheInv, CacheType, EntryOk, DataOk
<1>2. made' \in Seq(EntryType) /\ DOMAIN made' = DOMAIN made
  BY <1>1
<1>3. made'[k] = f /\ \A j \in DOMAIN made \ {k} : made'[j] = made[j]
  OBVIOUS
<1>4. CacheType'
  BY <1>1, <1>2 DEF CacheType
<1>5. OneStore'
  <2> SUFFICES ASSUME NEW i \in DOMAIN made, NEW j \in DOMAIN made, i # j, NEW l \in Cache!Subscribed(made'[i]),
                      l \in Cache!Subscribed(made'[j])
               PROVE  FALSE
    BY <1>2 DEF OneStore, Cache!Subscribed
  <2>1. CASE i = k \/ j = k
    BY <1>3, <2>1
  <2>2. CASE i # k /\ j # k
    BY <1>3, <2>2 DEF CacheInv, OneStore
  <2> QED BY <2>1, <2>2
<1>6. ASSUME NEW j \in DOMAIN made
      PROVE  /\ EntryOk(made'[j], changes', result') /\ (j = mapped' => RestOk(made'[j], changes'))
             /\ \A l \in Primed(made'[j]) : /\ cacheSeen'[l].data = made'[j].data
                                            /\ cacheSeen'[l].status = "failed" <=> made'[j].error
  <2>1. CASE j = k
    BY <1>3, <2>1
  <2>2. CASE j # k
    <3>1. made'[j] = made[j]
      BY <1>3, <2>2
    <3>2. ASSUME NEW l \in Primed(made[j])
          PROVE  cacheSeen'[l].data = made[j].data /\ (cacheSeen'[l].status = "failed" <=> made[j].error)
      <4>1. l \in Cache!Subscribed(made[j])
        BY DEF Primed, Cache!Subscribed
      <4>2. cacheSeen'[l] = cacheSeen[l]
        BY <2>2, <4>1
      <4>3. cacheSeen[l].data = made[j].data /\ (cacheSeen[l].status = "failed" <=> made[j].error)
        BY MadeIs DEF Heard
      <4> QED BY <4>2, <4>3
    <3> QED BY <2>2, <3>1, <3>2
  <2> QED BY <2>1, <2>2
<1>7. \A j \in DOMAIN made' :
        /\ EntryOk(made[j], changes, result)' /\ (j = mapped => RestOk(made[j], changes))'
        /\ \A l \in Primed(made'[j]) : Heard(l, made[j])'
  <2> SUFFICES ASSUME NEW j \in DOMAIN made
               PROVE  /\ EntryOk(made[j], changes, result)' /\ (j = mapped => RestOk(made[j], changes))'
                      /\ \A l \in Primed(made'[j]) : Heard(l, made[j])'
    BY <1>2
  <2>1. EntryOk(made[j], changes, result)'
    BY <1>6 DEF EntryOk, DataOk, RunOk, ShowsOk, Untouched
  <2>2. (j = mapped => RestOk(made[j], changes))'
    BY <1>6 DEF RestOk, Cache!Refs, Cache!Subscribed
  <2>3. \A l \in Primed(made'[j]) : Heard(l, made[j])'
    BY <1>6 DEF Heard
  <2> QED BY <2>1, <2>2, <2>3
<1> QED BY <1>4, <1>5, <1>7 DEF CacheInv, Primed

\* An outcome is published: the invariant holds of what it leaves.
LEMMA PublishKeeps ==
  ASSUME CacheInv, NEW k \in DOMAIN made, NEW o, Sound(o, made[k], changes', result'), Cache!Publish(k, o),
         changes' \in Seq(BOOLEAN), result' \in {0, 1}, isReady' \in BOOLEAN, UNCHANGED <<sync, mapped>>,
         \A j \in DOMAIN made \ {k} : /\ EntryOk(made[j], changes', result')
                                      /\ j = mapped => RestOk(made[j], changes')
  PROVE  CacheInv'
<1>1. /\ made' = [made EXCEPT ![k] = o.e]
      /\ cacheSeen' = [l \in CqListeners |-> IF l \in o.who THEN o.e.snapshot ELSE cacheSeen[l]]
  BY DEF Cache!Publish
<1>2. Primed(o.e) = Primed(made[k]) /\ Cache!Subscribed(o.e) = Cache!Subscribed(made[k])
  BY DEF Sound, Primed, Cache!Subscribed
<1>3. \A j \in DOMAIN made \ {k} : Cache!Subscribed(made[k]) \cap Cache!Subscribed(made[j]) = {}
  BY DEF CacheInv, OneStore
<1>4. o.e.snapshot.data = o.e.data /\ (o.e.snapshot.status = "failed" <=> o.e.error)
  BY DEF Sound, EntryOk, ShowsOk
<1>5. ASSUME NEW l \in Primed(o.e)
      PROVE  cacheSeen'[l].data = o.e.data /\ (cacheSeen'[l].status = "failed" <=> o.e.error)
  <2>1. l \in CqListeners /\ l \in Primed(made[k])
    BY <1>2 DEF Primed
  <2>2. CASE l \in o.who
    BY <1>1, <1>4, <2>1, <2>2
  <2>3. CASE l \notin o.who
    <3>1. cacheSeen'[l] = cacheSeen[l]
      BY <1>1, <2>1, <2>3
    <3>2. o.e.data = made[k].data /\ (o.e.error <=> made[k].error)
      BY <2>1, <2>3 DEF Sound
    <3>3. cacheSeen[l].data = made[k].data /\ (cacheSeen[l].status = "failed" <=> made[k].error)
      BY <2>1, MadeIs DEF Heard
    <3> QED BY <3>1, <3>2, <3>3
  <2> QED BY <2>2, <2>3
<1>6. ASSUME NEW j \in DOMAIN made \ {k}, NEW l \in Cache!Subscribed(made[j])
      PROVE  cacheSeen'[l] = cacheSeen[l]
  BY <1>1, <1>3 DEF Sound, Cache!Subscribed
<1>7. EntryOk(o.e, changes', result') /\ RestOk(o.e, changes') /\ sync' \in BOOLEAN
  BY DEF Sound, CacheInv, CacheType
<1> QED BY <1>1, <1>2, <1>3, <1>5, <1>6, <1>7, EntryKeeps

\* The others are in order when the replica does not move.
LEMMA OthersStay ==
  ASSUME CacheInv, UNCHANGED <<changes, result>>
  PROVE  \A j \in DOMAIN made : EntryOk(made[j], changes', result') /\ (j = mapped => RestOk(made[j], changes'))
BY MadeIs

\* An entry whose run is of an older revision than the replica's is still in order.
LEMMA MovesOn ==
  ASSUME NEW cs \in Seq(BOOLEAN), NEW res, NEW relevant \in BOOLEAN, NEW v, v # res => relevant,
         NEW e, EntryOk(e, cs, res), NEW ds, ds = Append(cs, relevant)
  PROVE  ds \in Seq(BOOLEAN) /\ EntryOk(e, ds, v)
<1>1. /\ ds \in Seq(BOOLEAN) /\ Len(ds) = Len(cs) + 1 /\ ds[Len(ds)] = relevant
      /\ Len(cs) \in Nat /\ \A r \in 1..Len(cs) : ds[r] = cs[r]
  OBVIOUS
<1>2. ASSUME NEW from \in Nat, from <= Len(cs), Untouched(ds, from)
      PROVE  Untouched(cs, from) /\ v = res
  <2>1. \A r \in from + 1..Len(cs) : ~cs[r]
    BY <1>1, <1>2 DEF Untouched
  <2>2. ~ds[Len(ds)]
    BY <1>1, <1>2 DEF Untouched
  <2> QED BY <1>1, <2>1, <2>2 DEF Untouched
<1>3. DataOk(e, ds, v)
  <2>1. e.data # Undefined => e.revision \in Nat
    BY DEF EntryOk, DataOk, EntryType, Undefined
  <2> QED BY <1>1, <1>2, <2>1 DEF EntryOk, DataOk
<1>4. RunOk(e, ds, v)
  <2>1. e.run.revision \in Nat
    BY DEF EntryOk, DataOk, EntryType, RunType
  <2> QED BY <1>1, <1>2, <2>1 DEF EntryOk, RunOk
<1>5. ShowsOk(e, ds)
  <2>1. e.data # Undefined => e.revision <= Len(cs) /\ e.revision \in Nat
    BY DEF EntryOk, DataOk, EntryType, Undefined
  <2> QED BY <1>1, <2>1 DEF EntryOk, ShowsOk
<1> QED BY <1>1, <1>3, <1>4, <1>5 DEF EntryOk

LEMMA ChangeKeeps ==
  ASSUME CacheInv, NEW relevant \in BOOLEAN, NEW v \in {0, 1}, NEW ok \in BOOLEAN, Cache!Change(relevant, v, ok)
  PROVE  CacheInv'
<1>1. PICK cs : /\ cs = Append(changes, relevant) /\ (v # result => relevant) /\ changes' = cs /\ result' = v
                /\ IF mapped = 0 THEN UNCHANGED <<made, cacheSeen>>
                   ELSE Cache!Publish(mapped, Cache!Reconcile(made[mapped], cs, v, ok))
                /\ UNCHANGED <<sync, isReady, mapped>>
  BY DEF Cache!Change
<1>2. changes \in Seq(BOOLEAN) /\ cs \in Seq(BOOLEAN) /\ sync \in BOOLEAN /\ isReady \in BOOLEAN
      /\ made \in Seq(EntryType) /\ mapped \in {0} \cup DOMAIN made
  BY <1>1 DEF CacheInv, CacheType
<1>3. \A j \in DOMAIN made : EntryOk(made[j], cs, v)
  BY <1>1, <1>2, MadeIs, MovesOn
<1>4. CASE mapped = 0
  <2>1. UNCHANGED <<made, cacheSeen, mapped>>
    BY <1>1, <1>4
  <2>2. CacheType' /\ OneStore'
    BY <1>1, <1>2, <2>1 DEF CacheInv, CacheType, OneStore, Cache!Subscribed
  <2>3. \A j \in DOMAIN made' : EntryOk(made[j], changes, result)' /\ j # mapped'
    <3>1. \A j \in DOMAIN made : j # 0
      BY <1>2
    <3>2. \A j \in DOMAIN made : EntryOk(made[j], changes', result')
      BY <1>1, <1>3
    <3> QED BY <1>4, <2>1, <3>1, <3>2 DEF EntryOk, DataOk, RunOk, ShowsOk, Untouched
  <2>4. \A j \in DOMAIN made' : \A l \in Primed(made'[j]) : Heard(l, made[j])'
    BY <2>1, MadeIs DEF Heard
  <2> QED BY <2>2, <2>3, <2>4 DEF CacheInv, Primed
<1>5. CASE mapped # 0
  <2>1. PICK k \in DOMAIN made : k = mapped
    BY <1>2, <1>5
  <2>2. PICK o : o = Cache!Reconcile(made[k], cs, v, ok)
    OBVIOUS
  <2>3. Sound(o, made[k], cs, v)
    BY <1>2, <1>3, <2>2, ReconcileIs
  <2>4. Cache!Publish(k, o)
    BY <1>1, <1>5, <2>1, <2>2
  <2> QED BY <1>1, <1>2, <1>3, <2>1, <2>3, <2>4, PublishKeeps
<1> QED BY <1>4, <1>5

LEMMA WatchKeeps ==
  ASSUME CacheInv, Cache!Watch
  PROVE  CacheInv'
<1>1. /\ made' = Append(made, Cache!NewEntry) /\ mapped' = Len(made) + 1
      /\ UNCHANGED <<result, changes, sync, isReady, cacheSeen>>
  BY DEF Cache!Watch
<1>2. /\ EntryOk(Cache!NewEntry, changes, result) /\ RestOk(Cache!NewEntry, changes)
      /\ Cache!NewEntry \in EntryType /\ Cache!Subscribed(Cache!NewEntry) = {}
  <2>1. Cache!NoRun \in RunType /\ Cache!Detached \in ListenerType /\ ~Cache!Detached.on
    BY DEF Cache!NoRun, RunType, DataType, Cache!Undefined, Cache!Detached, ListenerType
  <2>2. [l \in CqListeners |-> Cache!Detached] \in [CqListeners -> ListenerType]
    BY <2>1
  <2>3. /\ Cache!NewEntry \in EntryType /\ Cache!NewEntry.data = Undefined /\ Cache!NewEntry.revision = Undefined
        /\ ~Cache!NewEntry.error /\ Cache!NewEntry.running = "no"
        /\ Cache!NewEntry.snapshot.data = Undefined /\ Cache!NewEntry.snapshot.status = "unloaded"
        /\ Cache!NewEntry.listeners = [l \in CqListeners |-> Cache!Detached]
    BY <2>1, <2>2 DEF Cache!NewEntry, Cache!Snapshot, EntryType, SnapType, Statuses, DataType, Undefined, Cache!Undefined
  <2>4. Cache!Subscribed(Cache!NewEntry) = {}
    BY <2>1, <2>3 DEF Cache!Subscribed
  <2> QED BY <2>3, <2>4 DEF EntryOk, DataOk, RunOk, ShowsOk, RestOk
<1>3. PICK f : f = Cache!NewEntry
  OBVIOUS
<1>4. made \in Seq(EntryType) /\ Len(made) \in Nat /\ DOMAIN made = 1..Len(made)
  BY DEF CacheInv, CacheType
<1>5. /\ made' \in Seq(EntryType) /\ made'[Len(made) + 1] = f /\ \A j \in DOMAIN made : made'[j] = made[j]
      /\ DOMAIN made' = DOMAIN made \cup {Len(made) + 1} /\ Len(made) + 1 \notin DOMAIN made
  BY <1>1, <1>2, <1>3, <1>4
<1>6. CacheType'
  BY <1>1, <1>5 DEF CacheInv, CacheType
<1>7. OneStore'
  <2> SUFFICES ASSUME NEW i \in DOMAIN made', NEW j \in DOMAIN made', i # j,
                      NEW l \in Cache!Subscribed(made'[i]), l \in Cache!Subscribed(made'[j])
               PROVE  FALSE
    BY DEF OneStore, Cache!Subscribed
  <2>1. i \in DOMAIN made /\ j \in DOMAIN made
    BY <1>2, <1>3, <1>5
  <2> QED BY <1>5, <2>1 DEF CacheInv, OneStore
<1>8. ASSUME NEW j \in DOMAIN made'
      PROVE  /\ EntryOk(made[j], changes, result)' /\ (j = mapped => RestOk(made[j], changes))'
             /\ \A l \in Primed(made'[j]) : Heard(l, made[j])'
  <2>1. CASE j \in DOMAIN made
    <3>1. made'[j] = made[j] /\ j # mapped'
      BY <1>1, <1>5, <2>1
    <3>2. EntryOk(made[j], changes, result) /\ \A l \in Primed(made[j]) : Heard(l, made[j])
      BY <2>1, MadeIs
    <3>3. EntryOk(made[j], changes, result)'
      BY <1>1, <3>1, <3>2 DEF EntryOk, DataOk, RunOk, ShowsOk, Untouched
    <3>4. \A l \in Primed(made'[j]) : Heard(l, made[j])'
      BY <1>1, <3>1, <3>2 DEF Heard
    <3> QED BY <3>1, <3>3, <3>4
  <2>2. CASE j = Len(made) + 1
    <3>1. made'[j] = Cache!NewEntry
      BY <1>3, <1>5, <2>2
    <3>2. EntryOk(made[j], changes, result)'
      BY <1>1, <1>2, <3>1 DEF EntryOk, DataOk, RunOk, ShowsOk, Untouched
    <3>3. RestOk(made[j], changes)'
      BY <1>1, <1>2, <3>1 DEF RestOk, Cache!Refs, Cache!Subscribed
    <3>4. Primed(made'[j]) = {}
      BY <1>2, <3>1 DEF Primed, Cache!Subscribed
    <3> QED BY <3>2, <3>3, <3>4
  <2> QED BY <1>5, <2>1, <2>2
<1> QED BY <1>6, <1>7, <1>8 DEF CacheInv, Primed

LEMMA ReadyKeeps ==
  ASSUME CacheInv, NEW k \in DOMAIN made, NEW ok \in BOOLEAN, NEW runs \in BOOLEAN, Cache!Ready(k, ok, runs)
  PROVE  CacheInv'
<1>1. PICK e : e = [made[k] EXCEPT !.running = "no"]
  OBVIOUS
<1>2. /\ EntryOk(made[k], changes, result) /\ changes \in Seq(BOOLEAN) /\ result \in {0, 1} /\ sync \in BOOLEAN
      /\ isReady \in BOOLEAN
  BY MadeIs
<1>3. /\ e \in EntryType /\ e.data = made[k].data /\ e.error = made[k].error /\ e.revision = made[k].revision
      /\ e.running = "no" /\ e.listeners = made[k].listeners
  BY <1>1, <1>2 DEF EntryOk, DataOk, EntryType
<1>4. DataOk(e, changes, result) /\ Primed(e) = Primed(made[k]) /\ Cache!Subscribed(e) = Cache!Subscribed(made[k])
  BY <1>2, <1>3 DEF EntryOk, DataOk, Primed, Cache!Subscribed
<1>5. changes' = changes /\ result' = result /\ UNCHANGED <<sync, mapped>> /\ isReady' \in BOOLEAN
  BY <1>2 DEF Cache!Ready
<1>6. CASE ok
  <2>1. PICK o : o = Cache!Execute(e, changes, result, runs)
    OBVIOUS
  <2>2. Cache!Publish(k, o)
    BY <1>1, <1>6, <2>1 DEF Cache!Ready
  <2>3. Sound(o, e, changes, result)
    BY <1>2, <1>4, <2>1, ExecuteIs
  <2>4. Sound(o, made[k], changes', result')
    BY <1>3, <1>4, <1>5, <2>3 DEF Sound
  <2> QED BY <1>2, <1>5, <2>2, <2>4, OthersStay, PublishKeeps
<1>7. CASE ~ok
  <2>1. PICK g : g = [e EXCEPT !.error = TRUE]
    OBVIOUS
  <2>2. PICK f : f = Cache!Refresh(g, Len(changes))
    OBVIOUS
  <2>3. PICK o : o = Cache!Outcome(f, Cache!InitialListeners(e, changes))
    OBVIOUS
  <2>4. Cache!Publish(k, o)
    BY <1>1, <1>7, <2>1, <2>2, <2>3 DEF Cache!Ready, Cache!Revision
  <2>5. /\ g \in EntryType /\ g.data = e.data /\ g.error = TRUE /\ g.revision = e.revision /\ g.running = "no"
        /\ g.listeners = e.listeners
    BY <1>3, <2>1 DEF EntryType
  <2>6. DataOk(g, changes, result) /\ RunOk(g, changes, result)
    BY <1>4, <2>5 DEF DataOk, RunOk
  <2>7. EntryOk(f, changes, result) /\ f.error = g.error /\ f.listeners = g.listeners
    BY <1>2, <2>2, <2>6, RefreshIs
  <2>8. f.error /\ f.listeners = made[k].listeners
    BY <1>3, <2>5, <2>7
  <2>9. o.e = f /\ o.who \subseteq Cache!Subscribed(e) /\ \A l \in Primed(e) : l \in o.who
    BY <2>3 DEF Cache!Outcome, Cache!InitialListeners, Cache!Subscribed, Primed
  <2>10. Sound(o, made[k], changes', result')
    BY <1>4, <1>5, <2>7, <2>8, <2>9 DEF Sound, RestOk
  <2> QED BY <1>2, <1>5, <2>4, <2>10, OthersStay, PublishKeeps
<1> QED BY <1>6, <1>7

LEMMA RunSettlesKeeps ==
  ASSUME CacheInv, NEW k \in DOMAIN made, NEW ok \in BOOLEAN, Cache!RunSettles(k, ok)
  PROVE  CacheInv'
<1> DEFINE e == made[k]
<1>1. /\ EntryOk(e, changes, result) /\ changes \in Seq(BOOLEAN) /\ result \in {0, 1} /\ sync \in BOOLEAN
      /\ isReady \in BOOLEAN
  BY MadeIs
<1>2. /\ e.running = "run" /\ e.run.rows # Undefined /\ e.run.rows \in DataType
      /\ e.run.rows \in {0, 1}
  BY <1>1 DEF Cache!RunSettles, Undefined, Cache!Undefined, EntryOk, DataOk, EntryType, RunType, DataType
<1>3. changes' = changes /\ result' = result /\ UNCHANGED <<sync, mapped>> /\ isReady' \in BOOLEAN
  BY <1>1 DEF Cache!RunSettles
<1>4. PICK o : o = Cache!Settled(e, e.run.rows, ok, changes)
  OBVIOUS
<1>5. /\ EntryOk(o.e, changes, result) /\ o.e.running = "no" /\ (~o.e.error => o.e.revision = e.run.revision)
      /\ o.e.listeners = e.listeners /\ o.who \subseteq Cache!Subscribed(e)
      /\ \A l \in Primed(e) : l \in o.who \/ (o.e.data = e.data /\ (o.e.error <=> e.error))
  BY <1>1, <1>2, <1>4, SettledIs DEF EntryOk, RunOk
<1>6. CASE e.run.revision = Len(changes)
  <2>1. Cache!Publish(k, o)
    BY <1>4, <1>6 DEF Cache!RunSettles, Cache!Revision
  <2>2. Sound(o, e, changes', result')
    BY <1>3, <1>5, <1>6 DEF Sound, RestOk
  <2> QED BY <1>1, <1>3, <2>1, <2>2, OthersStay, PublishKeeps
<1>7. CASE e.run.revision # Len(changes)
  <2>1. PICK again, both : /\ again = Cache!Reconcile(o.e, changes, result, ok)
                           /\ both = Cache!Outcome(again.e, o.who \cup again.who)
    OBVIOUS
  <2>2. Cache!Publish(k, both)
    BY <1>4, <1>7, <2>1 DEF Cache!RunSettles, Cache!Revision, Cache!AfterRun
  <2>3. Sound(again, o.e, changes, result)
    BY <1>1, <1>5, <2>1, ReconcileIs
  <2>4. both.e = again.e /\ both.who = o.who \cup again.who
    BY <2>1 DEF Cache!Outcome
  <2>5. Primed(o.e) = Primed(e) /\ Cache!Subscribed(o.e) = Cache!Subscribed(e)
    BY <1>5 DEF Primed, Cache!Subscribed
  <2>6. Sound(both, e, changes', result')
    BY <1>3, <1>5, <2>3, <2>4, <2>5 DEF Sound
  <2> QED BY <1>1, <1>3, <2>2, <2>6, OthersStay, PublishKeeps
<1> QED BY <1>6, <1>7

LEMMA SubscribeKeeps ==
  ASSUME CacheInv, NEW k \in DOMAIN made, NEW l \in CqListeners, NEW initial \in BOOLEAN, NEW ok \in BOOLEAN,
         Cache!Subscribe(k, l, initial, ok)
  PROVE  CacheInv'
<1>1. /\ EntryOk(made[k], changes, result) /\ changes \in Seq(BOOLEAN) /\ result \in {0, 1} /\ sync \in BOOLEAN
      /\ isReady \in BOOLEAN
  BY MadeIs
<1>2. PICK b \in BOOLEAN : b = (made[k].evictTimer /\ Cache!Refs(made[k]) > 0)
  BY Zenon
<1>3. PICK n : n = [on |-> TRUE, initial |-> initial, revision |-> Len(changes)]
  OBVIOUS
<1>4. PICK e : e = [made[k] EXCEPT !.listeners[l] = n, !.evictTimer = b]
  OBVIOUS
<1>5. PICK o : /\ o = IF e.running # "no" THEN Cache!Outcome(e, {})
                      ELSE IF e.data = Undefined THEN Cache!Hydrate(e, changes, result, ok)
                      ELSE IF e.error \/ e.revision # Len(changes)
                      THEN Cache!Execute(e, changes, result, ok)
                      ELSE Cache!Outcome(e, {})
               /\ Cache!Publish(k, Cache!Outcome(o.e, o.who \union {l}))
  BY <1>2, <1>3, <1>4 DEF Cache!Subscribe, Cache!Revision, Undefined, Cache!Undefined
<1>6. /\ UNCHANGED <<result, changes, sync, isReady, mapped>>
      /\ \A j \in DOMAIN made : l \notin Cache!Subscribed(made[j])
  BY DEF Cache!Subscribe
<1>7. n \in ListenerType
  <2>1. Len(changes) \in Nat
    BY <1>1
  <2> QED BY <1>3, <2>1 DEF ListenerType
<1>8. /\ e \in EntryType /\ e.data = made[k].data /\ e.error = made[k].error /\ e.revision = made[k].revision
      /\ e.running = made[k].running /\ e.run = made[k].run /\ e.snapshot = made[k].snapshot
      /\ e.listeners = [made[k].listeners EXCEPT ![l] = n]
  BY <1>1, <1>4, <1>7 DEF EntryOk, DataOk, EntryType
<1>9. EntryOk(e, changes, result)
  BY <1>1, <1>8 DEF EntryOk, DataOk, RunOk, ShowsOk
<1>10. /\ Cache!Subscribed(e) \subseteq Cache!Subscribed(made[k]) \cup {l}
       /\ Primed(e) \subseteq Primed(made[k]) \cup {l}
  <2>1. \A x \in CqListeners \ {l} : e.listeners[x] = made[k].listeners[x]
    BY <1>1, <1>8 DEF EntryOk, DataOk, EntryType
  <2> QED BY <2>1 DEF Cache!Subscribed, Primed
<1>11. Sound(o, e, changes, result)
  <2>1. ASSUME e.running # "no" \/ e.data = Undefined \/ e.revision = Len(changes),
               o = Cache!Outcome(e, {})
        PROVE  Sound(o, e, changes, result)
    BY <1>9, <2>1 DEF Sound, RestOk, Cache!Outcome
  <2>2. CASE o = Cache!Hydrate(e, changes, result, ok)
    BY <1>1, <1>9, <2>2, HydrateIs
  <2>3. CASE o = Cache!Execute(e, changes, result, ok)
    BY <1>1, <1>9, <2>3, ExecuteIs DEF EntryOk
  <2> QED BY <1>5, <2>1, <2>2, <2>3
<1>12. PICK f, w : f = o.e /\ w = o.who \cup {l}
  OBVIOUS
<1>13. /\ made' = [made EXCEPT ![k] = f]
       /\ cacheSeen' = [x \in CqListeners |-> IF x \in w THEN f.snapshot ELSE cacheSeen[x]]
  BY <1>5, <1>12 DEF Cache!Publish, Cache!Outcome
<1>14. /\ EntryOk(f, changes', result') /\ RestOk(f, changes') /\ w \subseteq Cache!Subscribed(e) \cup {l}
       /\ Cache!Subscribed(f) = Cache!Subscribed(e) /\ Primed(f) = Primed(e)
  BY <1>6, <1>11, <1>12 DEF Sound, Cache!Subscribed, Primed
<1>15. \A j \in DOMAIN made \ {k} : Cache!Subscribed(made[k]) \cap Cache!Subscribed(made[j]) = {}
  BY DEF CacheInv, OneStore
<1>16. \A x \in Cache!Subscribed(f) : \A j \in DOMAIN made \ {k} : x \notin Cache!Subscribed(made[j])
  BY <1>6, <1>10, <1>14, <1>15
<1>17. ASSUME NEW x \in Primed(f)
       PROVE  cacheSeen'[x].data = f.data /\ (cacheSeen'[x].status = "failed" <=> f.error)
  <2>1. x \in CqListeners /\ x \in Primed(e) /\ (x \in Primed(made[k]) \/ x \in w)
    BY <1>10, <1>12, <1>14 DEF Primed
  <2>2. f.snapshot.data = f.data /\ (f.snapshot.status = "failed" <=> f.error)
    BY <1>14 DEF EntryOk, ShowsOk
  <2>3. CASE x \in w
    BY <1>13, <2>1, <2>2, <2>3
  <2>4. CASE x \notin w
    <3>1. cacheSeen'[x] = cacheSeen[x] /\ f.data = e.data /\ (f.error <=> e.error)
      BY <1>11, <1>12, <1>13, <2>1, <2>4 DEF Sound
    <3>2. cacheSeen[x].data = made[k].data /\ (cacheSeen[x].status = "failed" <=> made[k].error)
      BY <2>1, <2>4, MadeIs DEF Heard
    <3> QED BY <1>8, <3>1, <3>2
  <2> QED BY <2>3, <2>4
<1>18. ASSUME NEW j \in DOMAIN made \ {k}, NEW x \in Cache!Subscribed(made[j])
       PROVE  cacheSeen'[x] = cacheSeen[x]
  <2>1. x \in CqListeners /\ x \notin w
    BY <1>6, <1>10, <1>14, <1>15 DEF Cache!Subscribed
  <2> QED BY <1>13, <2>1
<1>21. /\ changes' \in Seq(BOOLEAN) /\ result' \in {0, 1} /\ sync' \in BOOLEAN /\ isReady' \in BOOLEAN
       /\ mapped' \in {0, mapped} /\ UNCHANGED <<changes, result>>
  BY <1>1, <1>6
<1>22. \A j \in DOMAIN made \ {k} :
         /\ EntryOk(made[j], changes', result') /\ (j = mapped' => RestOk(made[j], changes'))
         /\ \A x \in Cache!Subscribed(made[j]) : cacheSeen'[x] = cacheSeen[x]
  BY <1>6, <1>18, <1>21, OthersStay
<1> QED BY <1>13, <1>14, <1>16, <1>17, <1>21, <1>22, EntryKeeps

LEMMA UnsubscribeKeeps ==
  ASSUME CacheInv, NEW k \in DOMAIN made, NEW l \in CqListeners, Cache!Unsubscribe(k, l)
  PROVE  CacheInv'
<1>1. /\ EntryOk(made[k], changes, result) /\ changes \in Seq(BOOLEAN) /\ result \in {0, 1} /\ sync \in BOOLEAN
      /\ isReady \in BOOLEAN
  BY MadeIs
<1>2. PICK b \in BOOLEAN : b = (made[k].evictTimer \/ Cache!Refs(made[k]) = 1)
  BY Zenon
<1>3. PICK f : f = [made[k] EXCEPT !.listeners[l] = Cache!Detached, !.evictTimer = b]
  OBVIOUS
<1>4. /\ made' = [made EXCEPT ![k] = f] /\ cacheSeen' = [cacheSeen EXCEPT ![l] = Cache!NewEntry.snapshot]
      /\ l \in Cache!Subscribed(made[k]) /\ UNCHANGED <<result, changes, sync, isReady, mapped>>
  <2>1. PICK d : d = Cache!Detached
    OBVIOUS
  <2>2. f = [made[k] EXCEPT !.listeners[l] = d,
                            !.evictTimer = made[k].evictTimer \/ Cache!Refs(made[k]) = 1]
    BY <1>2, <1>3, <2>1
  <2>3. made' = [made EXCEPT ![k] = f]
    BY <2>1, <2>2 DEF Cache!Unsubscribe
  <2>4. cacheSeen' = [cacheSeen EXCEPT ![l] = Cache!NewEntry.snapshot]
    BY DEF Cache!Unsubscribe
  <2>5. l \in Cache!Subscribed(made[k]) /\ UNCHANGED <<result, changes, sync, isReady, mapped>>
    BY DEF Cache!Unsubscribe
  <2> QED BY <2>3, <2>4, <2>5
<1>5. Cache!Detached \in ListenerType /\ ~Cache!Detached.on
  BY DEF Cache!Detached, ListenerType
<1>6. /\ f \in EntryType /\ f.data = made[k].data /\ f.error = made[k].error /\ f.revision = made[k].revision
      /\ f.running = made[k].running /\ f.run = made[k].run /\ f.snapshot = made[k].snapshot
      /\ f.listeners = [made[k].listeners EXCEPT ![l] = Cache!Detached]
  BY <1>1, <1>3, <1>5 DEF EntryOk, DataOk, EntryType
<1>7. EntryOk(f, changes', result')
  BY <1>1, <1>4, <1>6 DEF EntryOk, DataOk, RunOk, ShowsOk
<1>8. /\ Cache!Subscribed(f) \subseteq Cache!Subscribed(made[k]) \ {l} /\ Primed(f) \subseteq Primed(made[k]) \ {l}
  <2>1. ~f.listeners[l].on /\ \A x \in CqListeners \ {l} : f.listeners[x] = made[k].listeners[x]
    BY <1>1, <1>5, <1>6 DEF EntryOk, DataOk, EntryType
  <2> QED BY <2>1 DEF Cache!Subscribed, Primed
<1>9. k = mapped' => RestOk(f, changes')
  <2>1. Cache!Refs(f) > 0 => Cache!Refs(made[k]) > 0
    BY <1>8, RefsIs
  <2> QED BY <1>4, <1>6, <2>1, MadeIs DEF RestOk
<1>10. \A j \in DOMAIN made \ {k} : Cache!Subscribed(made[k]) \cap Cache!Subscribed(made[j]) = {}
  BY DEF CacheInv, OneStore
<1>11. \A x : x # l => cacheSeen'[x] = cacheSeen[x]
  BY <1>4
<1>12. \A x \in Primed(f) : cacheSeen'[x].data = f.data /\ (cacheSeen'[x].status = "failed" <=> f.error)
  BY <1>6, <1>8, <1>11, MadeIs DEF Heard
<1>13. \A j \in DOMAIN made \ {k} : \A x \in Cache!Subscribed(made[j]) : cacheSeen'[x] = cacheSeen[x]
  BY <1>4, <1>10, <1>11
<1>14. \A x \in Cache!Subscribed(f) : \A j \in DOMAIN made \ {k} : x \notin Cache!Subscribed(made[j])
  BY <1>8, <1>10
<1>21. /\ changes' \in Seq(BOOLEAN) /\ result' \in {0, 1} /\ sync' \in BOOLEAN /\ isReady' \in BOOLEAN
       /\ mapped' \in {0, mapped} /\ UNCHANGED <<changes, result>>
  BY <1>1, <1>4
<1>22. \A j \in DOMAIN made \ {k} :
         /\ EntryOk(made[j], changes', result') /\ (j = mapped' => RestOk(made[j], changes'))
         /\ \A x \in Cache!Subscribed(made[j]) : cacheSeen'[x] = cacheSeen[x]
  BY <1>4, <1>13, <1>21, OthersStay
<1> QED BY <1>4, <1>7, <1>9, <1>12, <1>14, <1>21, <1>22, EntryKeeps

\* A step of an entry that nobody is told of.
LEMMA QuietKeeps ==
  ASSUME CacheInv, NEW k \in DOMAIN made, NEW f, made' = [made EXCEPT ![k] = f],
         f.data = made[k].data, f.error = made[k].error, f.listeners = made[k].listeners,
         EntryOk(f, changes, result), RestOk(made[k], changes) => RestOk(f, changes),
         mapped' \in {0, mapped}, UNCHANGED <<result, changes, sync, isReady, cacheSeen>>
  PROVE  CacheInv'
<1>1. Primed(f) = Primed(made[k]) /\ Cache!Subscribed(f) = Cache!Subscribed(made[k])
  BY DEF Primed, Cache!Subscribed
<1>2. \A x \in Primed(f) : cacheSeen'[x].data = f.data /\ (cacheSeen'[x].status = "failed" <=> f.error)
  BY <1>1, MadeIs DEF Heard
<1>3. \A x \in Cache!Subscribed(f) : \A j \in DOMAIN made \ {k} : x \notin Cache!Subscribed(made[j])
  BY <1>1 DEF CacheInv, OneStore
<1>4. \A j \in DOMAIN made : /\ EntryOk(made[j], changes', result') /\ (j = mapped' => RestOk(made[j], changes'))
                             /\ \A x \in Cache!Subscribed(made[j]) : cacheSeen'[x] = cacheSeen[x]
  <2>1. \A j \in DOMAIN made : j # 0
    BY DEF CacheInv, CacheType
  <2> QED BY <2>1, OthersStay
<1>5. EntryOk(f, changes', result') /\ (k = mapped' => RestOk(f, changes'))
  BY <1>4
<1>6. changes' \in Seq(BOOLEAN) /\ result' \in {0, 1} /\ sync' \in BOOLEAN /\ isReady' \in BOOLEAN
  BY MadeIs
<1> QED BY <1>2, <1>3, <1>4, <1>5, <1>6, EntryKeeps

LEMMA EvictedKeeps ==
  ASSUME CacheInv, NEW k \in DOMAIN made, Cache!Evicted(k)
  PROVE  CacheInv'
<1>1. PICK f : f = [made[k] EXCEPT !.evictTimer = FALSE]
  OBVIOUS
<1>2. made' = [made EXCEPT ![k] = f] /\ mapped' \in {0, mapped} /\ UNCHANGED <<result, changes, sync, isReady, cacheSeen>>
  BY <1>1 DEF Cache!Evicted
<1>3. EntryOk(made[k], changes, result)
  BY MadeIs
<1>4. /\ f \in EntryType /\ f.data = made[k].data /\ f.error = made[k].error /\ f.revision = made[k].revision
      /\ f.running = made[k].running /\ f.run = made[k].run /\ f.snapshot = made[k].snapshot
      /\ f.listeners = made[k].listeners
  BY <1>1, <1>3 DEF EntryOk, DataOk, EntryType
<1>5. EntryOk(f, changes, result) /\ (RestOk(made[k], changes) => RestOk(f, changes))
  BY <1>3, <1>4 DEF EntryOk, DataOk, RunOk, ShowsOk, RestOk, Cache!Refs, Cache!Subscribed
<1> QED BY <1>2, <1>4, <1>5, QuietKeeps

LEMMA RunReadsKeeps ==
  ASSUME CacheInv, NEW k \in DOMAIN made, Cache!RunReads(k)
  PROVE  CacheInv'
<1>1. PICK r, f : r = [made[k].run EXCEPT !.rows = result] /\ f = [made[k] EXCEPT !.run = r]
  OBVIOUS
<1>2. EntryOk(made[k], changes, result) /\ changes \in Seq(BOOLEAN) /\ result \in {0, 1}
  BY MadeIs
<1>3. /\ r \in RunType /\ r.revision = made[k].run.revision /\ r.hadData = made[k].run.hadData
      /\ r.hadError = made[k].run.hadError /\ r.rows = result
  BY <1>1, <1>2 DEF EntryOk, DataOk, EntryType, RunType, DataType
<1>4. /\ f \in EntryType /\ f.data = made[k].data /\ f.error = made[k].error /\ f.revision = made[k].revision
      /\ f.running = made[k].running /\ f.run = r /\ f.snapshot = made[k].snapshot
      /\ f.listeners = made[k].listeners
  BY <1>1, <1>2, <1>3 DEF EntryOk, DataOk, EntryType
<1>5. made' = [made EXCEPT ![k] = f] /\ UNCHANGED <<result, changes, sync, isReady, mapped, cacheSeen>>
  BY <1>1 DEF Cache!RunReads
<1>6. EntryOk(f, changes, result)
  BY <1>2, <1>3, <1>4 DEF EntryOk, DataOk, RunOk, ShowsOk
<1>7. RestOk(made[k], changes) => RestOk(f, changes)
  BY <1>4 DEF RestOk, Cache!Refs, Cache!Subscribed
<1> QED BY <1>4, <1>5, <1>6, <1>7, QuietKeeps

LEMMA StalePublishedKeeps ==
  ASSUME CacheInv, NEW k \in DOMAIN made, Cache!StalePublished(k)
  PROVE  CacheInv'
<1>1. EntryOk(made[k], changes, result) /\ changes \in Seq(BOOLEAN) /\ result \in {0, 1} /\ isReady \in BOOLEAN
  BY MadeIs
<1>2. PICK b \in BOOLEAN :
        b = (made[k].run.hadData /\ ~made[k].run.startedStale /\ made[k].snapshot.status = "stale")
  BY Zenon
<1>3. PICK r, e, o : /\ r = [made[k].run EXCEPT !.microtask = FALSE, !.publishedStale = b]
                     /\ e = [made[k] EXCEPT !.run = r]
                     /\ o = Cache!Outcome(e, IF b THEN Cache!Subscribed(made[k]) ELSE {})
  OBVIOUS
<1>4. /\ Cache!Publish(k, o) /\ UNCHANGED <<result, changes, sync, isReady, mapped>> /\ made[k].running = "run"
  BY <1>2, <1>3 DEF Cache!StalePublished
<1>5. /\ r \in RunType /\ r.revision = made[k].run.revision /\ r.hadData = made[k].run.hadData
      /\ r.hadError = made[k].run.hadError /\ r.rows = made[k].run.rows
  BY <1>1, <1>2, <1>3 DEF EntryOk, DataOk, EntryType, RunType
<1>6. /\ e \in EntryType /\ e.data = made[k].data /\ e.error = made[k].error /\ e.revision = made[k].revision
      /\ e.running = made[k].running /\ e.snapshot = made[k].snapshot /\ e.run = r
      /\ e.listeners = made[k].listeners
  BY <1>1, <1>3, <1>5 DEF EntryOk, DataOk, EntryType
<1>7. EntryOk(e, changes, result) /\ RestOk(e, changes)
  BY <1>1, <1>4, <1>5, <1>6 DEF EntryOk, DataOk, RunOk, ShowsOk, RestOk
<1>8. Sound(o, made[k], changes', result')
  BY <1>3, <1>4, <1>6, <1>7 DEF Sound, Cache!Outcome
<1> QED BY <1>1, <1>4, <1>8, OthersStay, PublishKeeps

LEMMA CacheStarts == Cache!Init => CacheInv
<1> SUFFICES ASSUME Cache!Init PROVE CacheInv
  OBVIOUS
<1>1. made = <<>> /\ mapped = 0 /\ DOMAIN <<>> = {} /\ <<>> \in Seq(EntryType)
  BY DEF Cache!Init
<1>2. CacheType
  BY <1>1 DEF Cache!Init, CacheType
<1> QED BY <1>1, <1>2 DEF CacheInv, OneStore

LEMMA CacheStep == CacheInv /\ [Cache!Next]_(Cache!queryVars) => CacheInv'
<1> SUFFICES ASSUME CacheInv, [Cache!Next]_(Cache!queryVars) PROVE CacheInv'
  OBVIOUS
<1>1. CASE UNCHANGED Cache!queryVars
  <2>1. UNCHANGED <<result, changes, sync, isReady, made, mapped, cacheSeen>>
    BY <1>1 DEF Cache!queryVars
  <2>2. CacheType' /\ OneStore'
    BY <2>1 DEF CacheInv, CacheType, OneStore, Cache!Subscribed
  <2>3. ASSUME NEW k \in DOMAIN made
        PROVE  /\ EntryOk(made[k], changes, result)' /\ (k = mapped => RestOk(made[k], changes))'
               /\ \A l \in Primed(made'[k]) : Heard(l, made[k])'
    <3>1. /\ EntryOk(made[k], changes, result) /\ (k = mapped => RestOk(made[k], changes))
          /\ \A l \in Primed(made[k]) : Heard(l, made[k])
      BY DEF CacheInv
    <3>2. EntryOk(made[k], changes, result)'
      BY <2>1, <3>1 DEF EntryOk, DataOk, RunOk, ShowsOk, Untouched
    <3>3. (k = mapped => RestOk(made[k], changes))'
      BY <2>1, <3>1 DEF RestOk, Cache!Refs, Cache!Subscribed
    <3>4. \A l \in Primed(made'[k]) : Heard(l, made[k])'
      BY <2>1, <3>1 DEF Heard
    <3> QED BY <3>2, <3>3, <3>4
  <2> QED BY <2>1, <2>2, <2>3 DEF CacheInv, Primed
<1>2. ASSUME NEW relevant \in BOOLEAN, NEW v \in Cache!Results, NEW ok \in BOOLEAN, Cache!Change(relevant, v, ok)
      PROVE  CacheInv'
  BY <1>2, ChangeKeeps DEF Cache!Results
<1>3. ASSUME NEW k \in DOMAIN made,
             \/ \E l \in CqListeners : \/ Cache!Unsubscribe(k, l)
                                       \/ \E i, ok \in BOOLEAN : Cache!Subscribe(k, l, i, ok)
             \/ Cache!Evicted(k) \/ Cache!RunReads(k) \/ Cache!StalePublished(k)
             \/ \E ok \in BOOLEAN : Cache!RunSettles(k, ok) \/ \E runs \in BOOLEAN : Cache!Ready(k, ok, runs)
      PROVE  CacheInv'
  BY <1>3, UnsubscribeKeeps, SubscribeKeeps, EvictedKeeps, RunReadsKeeps, StalePublishedKeeps, RunSettlesKeeps,
     ReadyKeeps
<1> QED BY <1>1, <1>2, <1>3, WatchKeeps DEF Cache!Next

LEMMA CacheClaims == CacheInv => Cache!RestingIsCurrent /\ Cache!ListenersHaveRead
<1> SUFFICES ASSUME CacheInv PROVE Cache!RestingIsCurrent /\ Cache!ListenersHaveRead
  OBVIOUS
<1>1. ASSUME NEW k \in DOMAIN made, Cache!Resting(made[k]), k = mapped \/ made[k].revision = Cache!Revision
      PROVE  Cache!ShowsResult(made[k])
  <2>1. EntryOk(made[k], changes, result) /\ changes \in Seq(BOOLEAN) /\ made[k].revision = Len(changes)
    BY <1>1, MadeIs DEF Cache!Resting, Cache!Revision, RestOk, Undefined, Cache!Undefined
  <2>2. Len(changes) \in Nat /\ Untouched(changes, Len(changes))
    BY <2>1 DEF Untouched
  <2> QED BY <1>1, <2>1, <2>2 DEF Cache!Resting, Cache!ShowsResult, EntryOk, DataOk, ShowsOk, Undefined,
                                  Cache!Undefined
<1>2. ASSUME NEW k \in DOMAIN made, NEW l \in Cache!Subscribed(made[k]), made[k].listeners[l].initial
      PROVE  /\ cacheSeen[l].data = made[k].snapshot.data
             /\ (cacheSeen[l].status = "failed") = (made[k].snapshot.status = "failed")
  <2>1. l \in Primed(made[k])
    BY <1>2 DEF Primed, Cache!Subscribed
  <2>2. EntryOk(made[k], changes, result) /\ Heard(l, made[k])
    BY <2>1, MadeIs
  <2> QED BY <2>2 DEF Heard, EntryOk, ShowsOk
<1> QED BY <1>1, <1>2 DEF Cache!RestingIsCurrent, Cache!ListenersHaveRead

\* query-cache.ts: for any number of listeners, of changes and of entries evicted while
\* their stores are kept, and whatever the journal keeps, a cached query of the map that is
\* heard and at rest shows what the query yields on the replica now, one that was evicted
\* does until the replica moves on, and every listener that asked to be primed has read
\* what its entry shows.
THEOREM CacheHolds == SumSpec => []CachedQueriesAreCurrent
<1> DEFINE Inv == part = "cache" => CacheInv
<1>1. SumInit => Inv
  BY CacheStarts DEF SumInit
<1>2. Inv /\ [SumNext]_allVars => Inv'
  <2> SUFFICES ASSUME Inv, [SumNext]_allVars, part' = "cache" PROVE CacheInv'
    OBVIOUS
  <2>1. part = "cache"
    BY DEF SumNext, allVars
  <2>2. [Cache!Next]_(Cache!queryVars)
    BY <2>1 DEF SumNext, allVars, cacheVars, Cache!queryVars
  <2> QED BY <2>1, <2>2, CacheStep
<1>3. Inv => CachedQueriesAreCurrent
  BY CacheClaims DEF CachedQueriesAreCurrent
<1> QED BY <1>1, <1>2, <1>3, PTL DEF SumSpec
===============================================================================

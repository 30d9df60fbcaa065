------------------------- MODULE ClientOutboxProofs -------------------------
(***************************************************************************)
(* The write buffer loses nothing it stored and keeps what it holds in the *)
(* order it was authored; what is settled is never sent again and a stored *)
(* conflict stands until the application resolves it: for any number of    *)
(* actions, foreign commits, reloads and failed requests.                  *)
(***************************************************************************)
EXTENDS MCClientOutbox, FiniteSetTheorems, WellFoundedInduction, TLAPS

-----------------------------------------------------------------------------
(* Sequences *)

LEMMA RangeAppend ==
  ASSUME NEW S, NEW q \in Seq(S), NEW r \in S
  PROVE  /\ Append(q, r) \in Seq(S) /\ DOMAIN Append(q, r) = DOMAIN q \union {Len(q) + 1}
         /\ Len(q) \in Nat /\ \A i \in DOMAIN q : i \in Nat /\ i <= Len(q) /\ Append(q, r)[i] = q[i]
         /\ Append(q, r)[Len(q) + 1] = r
         /\ Range(Append(q, r)) = Range(q) \union {r}
<1>1. /\ Append(q, r) \in Seq(S) /\ DOMAIN Append(q, r) = DOMAIN q \union {Len(q) + 1}
      /\ Len(q) \in Nat /\ \A i \in DOMAIN q : i \in Nat /\ i <= Len(q) /\ Append(q, r)[i] = q[i]
      /\ Append(q, r)[Len(q) + 1] = r
  OBVIOUS
<1>2. ASSUME NEW i \in DOMAIN Append(q, r) PROVE Append(q, r)[i] \in Range(q) \union {r}
  BY <1>1 DEF Range
<1>3. ASSUME NEW i \in DOMAIN q PROVE q[i] \in Range(Append(q, r))
  <2>1. i \in DOMAIN Append(q, r) /\ q[i] = Append(q, r)[i]
    BY <1>1
  <2> QED BY <2>1, Zenon DEF Range
<1>4. r \in Range(Append(q, r))
  <2>1. Len(q) + 1 \in DOMAIN Append(q, r) /\ r = Append(q, r)[Len(q) + 1]
    BY <1>1
  <2> QED BY <2>1, Zenon DEF Range
<1>5. Range(Append(q, r)) \subseteq Range(q) \union {r}
  BY <1>2, Zenon DEF Range
<1>6. Range(q) \union {r} \subseteq Range(Append(q, r))
  BY <1>3, <1>4, Zenon DEF Range
<1> QED BY <1>1, <1>5, <1>6

\* A queue without its head: what was at i + 1 is at i.
LEMMA TailOf ==
  ASSUME NEW S, NEW q \in Seq(S), q # <<>>
  PROVE  /\ Tail(q) \in Seq(S) /\ Head(q) \in S /\ Head(q) = q[1] /\ 1 \in DOMAIN q
         /\ \A i \in DOMAIN Tail(q) : i \in Nat /\ i + 1 \in DOMAIN q /\ Tail(q)[i] = q[i + 1]
         /\ Range(q) = Range(Tail(q)) \union {Head(q)}
<1>1. /\ Tail(q) \in Seq(S) /\ Head(q) \in S /\ Head(q) = q[1] /\ 1 \in DOMAIN q
      /\ \A i \in DOMAIN Tail(q) : i \in Nat /\ i + 1 \in DOMAIN q /\ Tail(q)[i] = q[i + 1]
      /\ \A i \in DOMAIN q : i = 1 \/ (i - 1 \in DOMAIN Tail(q) /\ q[i] = Tail(q)[i - 1])
  OBVIOUS
<1>2. \A i \in DOMAIN Tail(q) : Tail(q)[i] \in Range(q)
  BY <1>1, Zenon DEF Range
<1>3. Head(q) \in Range(q)
  BY <1>1, Zenon DEF Range
<1>4. \A i \in DOMAIN q : q[i] = Head(q) \/ q[i] \in Range(Tail(q))
  BY <1>1, Zenon DEF Range
<1>5. Range(Tail(q)) \subseteq Range(q)
  BY <1>2, Zenon DEF Range
<1>6. Range(q) \subseteq Range(Tail(q)) \union {Head(q)}
  BY <1>4, Zenon DEF Range
<1> QED BY <1>1, <1>3, <1>5, <1>6

-----------------------------------------------------------------------------
(* Ascending numbers and picked entries *)

\* A set of natural numbers has a least element.
LEMMA LeastIn ==
  ASSUME NEW S \in SUBSET Nat, S # {}
  PROVE  \E m \in S : \A n \in S : m <= n
<1> DEFINE LT == {ss \in Nat \X Nat : ss[1] < ss[2]}
<1>1. OpToRel(<, Nat) = LT
  BY Zenon DEF OpToRel
<1>2. IsWellFoundedOn(LT, Nat)
  BY <1>1, NatLessThanWellFounded, Zenon
<1>3. PICK m \in S : \A y \in S : ~(<<y, m>> \in LT)
  <2> HIDE DEF LT
  <2> QED BY <1>2, WFMin
<1>4. ASSUME NEW n \in S, n < m PROVE FALSE
  <2>1. <<n, m>> \in Nat \X Nat /\ <<n, m>>[1] < <<n, m>>[2]
    BY <1>4
  <2>2. <<n, m>> \in LT
    BY <2>1
  <2> QED BY <1>3, <2>2, Zenon
<1>5. \A n \in S : m <= n
  BY <1>4
<1> QED BY <1>5

\* An ascending enumeration of a set goes through all of it.
LEMMA AscendingCovers ==
  ASSUME NEW N \in SUBSET Nat, IsFiniteSet(N), NEW s \in [1..Cardinality(N) -> N],
         \A i, j \in 1..Cardinality(N) : i < j => s[i] < s[j]
  PROVE  \A n \in N : \E k \in 1..Cardinality(N) : s[k] = n
<1>1. Cardinality(N) \in Nat
  BY FS_CardinalityType
<1> DEFINE c == Cardinality(N)
<1>2. IsFiniteSet(1..c) /\ Cardinality(1..c) = Cardinality(N)
  BY <1>1, FS_Interval
<1>3. \A i, j \in 1..c : s[i] = s[j] => i = j
  <2> SUFFICES ASSUME NEW i \in 1..c, NEW j \in 1..c, s[i] = s[j], i # j PROVE FALSE
    OBVIOUS
  <2>1. i < j \/ j < i
    BY <1>1
  <2>2. s[i] < s[j] \/ s[j] < s[i]
    BY <2>1
  <2>3. s[i] \in Nat
    OBVIOUS
  <2> QED BY <2>2, <2>3
<1>4. s \in Injection(1..c, N)
  BY <1>3, Zenon DEF Injection, IsInjective
<1>5. s \in Surjection(1..c, N)
  <2> HIDE DEF c
  <2> QED BY <1>2, <1>4, FS_Injection
<1> QED BY <1>5, Zenon DEF Surjection

LEMMA AscendingIs ==
  ASSUME NEW N \in SUBSET Nat, IsFiniteSet(N)
  PROVE  /\ Cardinality(N) \in Nat
         /\ Ascending(N) \in [1..Cardinality(N) -> N]
         /\ \A i, j \in 1..Cardinality(N) : i < j => Ascending(N)[i] < Ascending(N)[j]
         /\ \A n \in N : \E k \in 1..Cardinality(N) : Ascending(N)[k] = n
<1> DEFINE c == Cardinality(N)
           Upto(n) == {m \in N : m <= n}
           rank == [n \in N |-> Cardinality(Upto(n))]
<1>1. c \in Nat
  BY FS_CardinalityType
<1>2. \A n \in N : /\ IsFiniteSet(Upto(n)) /\ Cardinality(Upto(n)) \in Nat
                   /\ Cardinality(Upto(n)) <= c
  <2> SUFFICES ASSUME NEW n \in N
               PROVE  /\ IsFiniteSet(Upto(n)) /\ Cardinality(Upto(n)) \in Nat
                      /\ Cardinality(Upto(n)) <= c
    OBVIOUS
  <2>1. Upto(n) \in SUBSET N
    OBVIOUS
  <2> HIDE DEF Upto
  <2> QED BY <2>1, FS_Subset, FS_CardinalityType
<1>3. \A n \in N : Cardinality(Upto(n)) >= 1
  <2> SUFFICES ASSUME NEW n \in N, Cardinality(Upto(n)) = 0 PROVE FALSE
    BY <1>2
  <2>1. n \in Upto(n)
    OBVIOUS
  <2> HIDE DEF Upto
  <2>2. Upto(n) = {}
    BY <1>2, FS_EmptySet
  <2> QED BY <2>1, <2>2
<1>4. ASSUME NEW m \in N, NEW n \in N, m < n PROVE rank[m] < rank[n]
  <2>1. Upto(m) \subseteq Upto(n) /\ n \in Upto(n) /\ n \notin Upto(m)
    <3> HIDE DEF rank
    <3>1. m \in Nat /\ n \in Nat /\ ~(n <= m) /\ \A k \in N : k <= m => k <= n
      BY <1>4
    <3>2. n <= n
      BY <3>1
    <3>3. Upto(m) \subseteq Upto(n)
      BY <3>1
    <3>4. n \in Upto(n)
      BY <3>2, Zenon
    <3>5. n \notin Upto(m)
      BY <3>1, Zenon
    <3> QED BY <3>3, <3>4, <3>5
  <2> HIDE DEF Upto
  <2>2. Cardinality(Upto(m)) <= Cardinality(Upto(n))
        /\ (Cardinality(Upto(m)) = Cardinality(Upto(n)) => Upto(m) = Upto(n))
    BY <1>2, <2>1, FS_Subset
  <2>3. Cardinality(Upto(m)) # Cardinality(Upto(n))
    BY <2>1, <2>2
  <2> QED BY <1>2, <2>2, <2>3
<1>5. rank \in [N -> 1..c]
  BY <1>1, <1>2, <1>3
<1> HIDE DEF rank, Upto
<1>6. \A m, n \in N : rank[m] = rank[n] => m = n
  <2> SUFFICES ASSUME NEW m \in N, NEW n \in N, rank[m] = rank[n], m # n PROVE FALSE
    OBVIOUS
  <2>1. m < n \/ n < m
    OBVIOUS
  <2>2. rank[m] \in Nat /\ rank[n] \in Nat
    BY <1>1, <1>5
  <2> QED BY <1>4, <2>1, <2>2
<1>7. IsFiniteSet(1..c) /\ Cardinality(1..c) = Cardinality(N)
  BY <1>1, FS_Interval
<1>8. rank \in Surjection(N, 1..c)
  <2>1. rank \in Injection(N, 1..c)
    BY <1>5, <1>6, Zenon DEF Injection, IsInjective
  <2> HIDE DEF c
  <2> QED BY <1>7, <2>1, FS_Injection
<1>9. \A k \in 1..c : \E n \in N : rank[n] = k
  BY <1>8, Zenon DEF Surjection
<1> DEFINE s == [k \in 1..c |-> CHOOSE n \in N : rank[n] = k]
<1>10. s \in [1..c -> N] /\ \A k \in 1..c : rank[s[k]] = k
  BY <1>9
<1>11. ASSUME NEW i \in 1..c, NEW j \in 1..c, i < j, ~(s[i] < s[j]) PROVE FALSE
  <2>1. s[i] \in N /\ s[j] \in N /\ rank[s[i]] = i /\ rank[s[j]] = j
    BY <1>10
  <2> HIDE DEF s
  <2>2. s[i] \in Nat /\ s[j] \in Nat
    BY <2>1
  <2>3. s[i] = s[j] \/ s[j] < s[i]
    BY <1>11, <2>2
  <2>4. s[j] < s[i] => j < i
    BY <1>4, <2>1, Zenon
  <2> QED BY <1>1, <1>11, <2>1, <2>3, <2>4
<1>12. Ascending(N) \in [1..c -> N] /\ \A i, j \in 1..c : i < j => Ascending(N)[i] < Ascending(N)[j]
  <2> HIDE DEF s
  <2> QED BY <1>10, <1>11, Zenon DEF Ascending
<1> QED BY <1>1, <1>12, AscendingCovers

\* What is picked is a subsequence of q: the entries at the places in J, in q's order.
LEMMA PickedIs ==
  ASSUME NEW S, NEW q \in Seq(S), NEW J \in SUBSET DOMAIN q
  PROVE  /\ Picked(q, J) \in Seq(S)
         /\ Range(Picked(q, J)) = {q[j] : j \in J}
         /\ \A i \in DOMAIN Picked(q, J) : Ascending(J)[i] \in J /\ Picked(q, J)[i] = q[Ascending(J)[i]]
         /\ \A i, j \in DOMAIN Picked(q, J) : i < j => Ascending(J)[i] < Ascending(J)[j]
<1> DEFINE c == Cardinality(J)  p == Picked(q, J)  a == Ascending(J)
<1>1. Len(q) \in Nat /\ DOMAIN q = 1..Len(q) /\ \A i \in DOMAIN q : q[i] \in S
  OBVIOUS
<1>2. J \in SUBSET Nat /\ IsFiniteSet(J)
  <2>1. IsFiniteSet(1..Len(q))
    BY <1>1, FS_Interval
  <2> QED BY <1>1, <2>1, FS_Subset
<1>3. /\ c \in Nat /\ a \in [1..c -> J]
      /\ \A i, j \in 1..c : i < j => a[i] < a[j]
      /\ \A n \in J : \E k \in 1..c : a[k] = n
  BY <1>2, AscendingIs
<1>4. p = [k \in 1..c |-> q[a[k]]]
  BY Zenon DEF Picked
<1> HIDE DEF c, a, p
<1>5. p \in Seq(S) /\ DOMAIN p = 1..c /\ \A k \in 1..c : a[k] \in J /\ p[k] = q[a[k]]
  BY <1>1, <1>3, <1>4
<1>6. Range(p) \subseteq {q[j] : j \in J}
  <2> SUFFICES ASSUME NEW k \in DOMAIN p PROVE p[k] \in {q[j] : j \in J}
    BY Zenon DEF Range
  <2> QED BY <1>5
<1>7. {q[j] : j \in J} \subseteq Range(p)
  <2> SUFFICES ASSUME NEW j \in J PROVE q[j] \in Range(p)
    BY Zenon
  <2>1. PICK k \in 1..c : a[k] = j
    BY <1>3
  <2> QED BY <1>5, <2>1, Zenon DEF Range
<1>8. Range(p) = {q[j] : j \in J}
  BY <1>6, <1>7
<1> QED BY <1>3, <1>5, <1>8 DEF p, a

-----------------------------------------------------------------------------
(* The inductive invariant: what the buffer keeps *)

\* The operations that the application starts, those that author their row, and
\* those that end with an entry dropped.
AppOps == {"enqueue", "retry", "clear", "retryConflicted"}
Authors(r) == r.by \in {"enqueue", "retryConflicted"}
Drops(r) == r.by \in {"clear", "retryConflicted"}
Touches(r) == {r.row.id, r.drop}
Requests == Range(ops)

RequestType ==
  [op : {"put", "putAndDelete", "delete"}, row : OutboxEntry, drop : Ids,
   by : AppOps \union {"flush", "echo", "mark"}]
FlushType ==
  [phase : {"idle", "submitting", "storing", "repairing"}, batch : Seq(OutboxEntry),
   refused : SUBSET Ids, at : Nat]

TypeInv ==
  /\ mem \in Seq(OutboxEntry) /\ store \in SUBSET OutboxEntry /\ IsFiniteSet(store)
  /\ loaded \in BOOLEAN /\ ops \in Seq(RequestType) /\ flush \in FlushType
  /\ pass \in {"off", "draining", "saving", "sweeping"}
  /\ applied \in Nat /\ cursor \in Nat /\ clock \in Nat
  /\ log \in Seq([id : Ids \union {Foreign}, subject : Subjects])
  /\ authored \in SUBSET Ids /\ acked \in SUBSET authored /\ dropped \in SUBSET authored
  /\ rejected \in SUBSET Ids

\* Nothing runs before the rows are loaded.
Unloaded ==
  ~loaded => mem = <<>> /\ ops = <<>> /\ flush = NoFlush /\ pass = "off" /\ sweep = <<>>

\* The request each operation issues.
FormOf(r) ==
  /\ r.op # "putAndDelete" => r.drop = r.row.id
  /\ r.by \in {"enqueue", "retry", "mark"} => r.op = "put"
  /\ r.by \in {"clear", "echo"} => r.op = "delete"
  /\ r.by = "flush" => r.op \in {"put", "delete"}
  /\ r.by = "retryConflicted" => r.op = "putAndDelete"
  /\ r.by \in {"enqueue", "retry", "retryConflicted"} => r.row.status = "pending"
  /\ r.by = "mark" => r.row.status = "conflicted"
RequestForms == \A r \in Requests : FormOf(r)

\* Every copy of an entry carries the stamp its action was authored with.
Held == Range(mem) \union store \union Range(flush.batch) \union {r.row : r \in Requests}
StampsApart ==
  /\ \A e \in Held : e.hlc <= clock
  /\ \A e, f \in Held : e.id = f.id <=> e.hlc = f.hlc

\* What is held was stored once, except the row that is being authored.
IdsAuthored ==
  /\ \A e \in Range(mem) \union store \union Range(flush.batch) : e.id \in authored
  /\ \A r \in Requests : /\ Authors(r) => r.row.id \notin authored
                         /\ r.by # "enqueue" => r.drop \in authored

\* The application waits for one operation on an entry at a time.
AppOpsApart ==
  \A i, j \in DOMAIN ops :
    i # j /\ ops[i].by \in AppOps /\ ops[j].by \in AppOps =>
      Touches(ops[i]) \intersect Touches(ops[j]) = {}

\* A row that is being authored goes behind the queue, and behind those issued before it.
AuthorsBehind == \A r \in Requests : Authors(r) => \A e \in Range(mem) : e.hlc < r.row.hlc
AuthorsInOrder ==
  \A i, j \in DOMAIN ops :
    i < j /\ Authors(ops[i]) /\ Authors(ops[j]) => ops[i].row.hlc < ops[j].row.hlc

RowsApart == \A a, b \in store : a.id = b.id => a = b

OneOf(by) == \A i, j \in DOMAIN ops : ops[i].by = by /\ ops[j].by = by => i = j

\* The one request of the flush is for the batch entry it has reached.
FlushForm ==
  /\ flush.phase = "idle" => flush = NoFlush
  /\ flush.phase \in {"storing", "repairing"} => flush.at \in DOMAIN flush.batch
  /\ flush.refused \subseteq rejected
  /\ \A i, j \in DOMAIN flush.batch : flush.batch[i].id = flush.batch[j].id => i = j
  /\ \A r \in Requests : r.by = "flush" =>
       /\ flush.phase \in {"storing", "repairing"}
       /\ r.row.id = flush.batch[flush.at].id
       /\ flush.phase = "storing" =>
            /\ r.op = "put" /\ r.row.status \in {"acknowledged", "error"}
            /\ r.row.status = "error" => r.row.id \in rejected

\* An action leaves the queue when it is committed or dropped; so does its row.
Gone == Committed \union dropped
DeletesAccounted ==
  /\ \A e \in Range(flush.batch) : Known(e.id) \/ e.id \in Gone
  /\ \A r \in Requests : r.op = "delete" /\ r.by # "clear" => r.drop \in Gone

KeepInv ==
  /\ TypeInv /\ Unloaded /\ RequestForms /\ StampsApart /\ IdsAuthored /\ AppOpsApart
  /\ QueueInStampOrder /\ AuthorsBehind /\ AuthorsInOrder /\ RowsApart
  /\ OneOf("flush") /\ FlushForm /\ DeletesAccounted /\ NoLostWrite

-----------------------------------------------------------------------------
(* Queues of entries *)

InOrder(q) == \A i, j \in DOMAIN q : i < j => q[i].hlc < q[j].hlc

LEMMA EntryIs ==
  ASSUME NEW q \in Seq(OutboxEntry), NEW id, NEW statuses, Buffered(q, id, statuses)
  PROVE  EntryOf(q, id) \in Range(q) /\ EntryOf(q, id) \in OutboxEntry /\ EntryOf(q, id).id = id
<1>1. Range(q) \subseteq OutboxEntry
  BY DEF Range
<1> QED BY <1>1 DEF Buffered, EntryOf

LEMMA BufferedIs ==
  ASSUME NEW q \in Seq(OutboxEntry)
  PROVE  \A id : Buffered(q, id, OutboxStatus) <=> \E e \in Range(q) : e.id = id
<1>0. \A e \in Range(q) : e \in OutboxEntry
  BY DEF Range
<1>1. \A e \in Range(q) : e.status \in OutboxStatus
  BY <1>0 DEF OutboxEntry
<1> QED BY <1>1 DEF Buffered

LEMMA AppendOrder ==
  ASSUME NEW q \in Seq(OutboxEntry), NEW e \in OutboxEntry, InOrder(q),
         \A f \in Range(q) : f.hlc < e.hlc
  PROVE  InOrder(Append(q, e))
<1>1. /\ DOMAIN Append(q, e) = DOMAIN q \union {Len(q) + 1} /\ Len(q) \in Nat
      /\ \A i \in DOMAIN q : i \in Nat /\ i <= Len(q) /\ Append(q, e)[i] = q[i]
      /\ Append(q, e)[Len(q) + 1] = e
  BY RangeAppend
<1>2. \A i \in DOMAIN q : q[i].hlc < e.hlc
  BY Zenon DEF Range
<1> QED BY <1>1, <1>2 DEF InOrder

LEMMA PickedOrder ==
  ASSUME NEW q \in Seq(OutboxEntry), NEW J \in SUBSET DOMAIN q
  PROVE  /\ Picked(q, J) \in Seq(OutboxEntry) /\ Range(Picked(q, J)) = {q[j] : j \in J}
         /\ Range(Picked(q, J)) \subseteq Range(q)
         /\ InOrder(q) => InOrder(Picked(q, J))
<1>1. /\ Picked(q, J) \in Seq(OutboxEntry) /\ Range(Picked(q, J)) = {q[j] : j \in J}
      /\ \A i \in DOMAIN Picked(q, J) : Ascending(J)[i] \in J /\ Picked(q, J)[i] = q[Ascending(J)[i]]
      /\ \A i, j \in DOMAIN Picked(q, J) : i < j => Ascending(J)[i] < Ascending(J)[j]
  BY PickedIs
<1>2. InOrder(q) => InOrder(Picked(q, J))
  BY <1>1 DEF InOrder
<1> QED BY <1>1, <1>2 DEF Range

LEMMA FilteredIs ==
  ASSUME NEW q \in Seq(OutboxEntry), NEW id
  PROVE  /\ Filtered(q, id) \in Seq(OutboxEntry)
         /\ Range(Filtered(q, id)) = {e \in Range(q) : e.id # id}
         /\ InOrder(q) => InOrder(Filtered(q, id))
<1> DEFINE J == {i \in DOMAIN q : q[i].id # id}
<1>1. J \in SUBSET DOMAIN q /\ Filtered(q, id) = Picked(q, J)
  BY DEF Filtered
<1>2. {q[j] : j \in J} = {e \in Range(q) : e.id # id}
  BY DEF Range
<1> HIDE DEF J
<1> QED BY <1>1, <1>2, PickedOrder

LEMMA PendingIs ==
  ASSUME mem \in Seq(OutboxEntry)
  PROVE  /\ Pending \in Seq(OutboxEntry)
         /\ Range(Pending) = {e \in Range(mem) : e.status = "pending"}
         /\ InOrder(mem) => InOrder(Pending)
<1> DEFINE J == {i \in DOMAIN mem : mem[i].status = "pending"}
<1>1. J \in SUBSET DOMAIN mem /\ Pending = Picked(mem, J)
  BY DEF Pending
<1>2. {mem[j] : j \in J} = {e \in Range(mem) : e.status = "pending"}
  BY DEF Range
<1> HIDE DEF J
<1> QED BY <1>1, <1>2, PickedOrder

Alike(e, f) == e.id = f.id /\ e.hlc = f.hlc
LEMMA WithStatusIs ==
  ASSUME NEW q \in Seq(OutboxEntry), NEW id, NEW status \in OutboxStatus
  PROVE  /\ WithStatus(q, id, status) \in Seq(OutboxEntry)
         /\ \A e \in Range(WithStatus(q, id, status)) : \E f \in Range(q) :
              Alike(e, f) /\ IF e.id = id THEN e.status = status ELSE e = f
         /\ \A f \in Range(q) : \E e \in Range(WithStatus(q, id, status)) :
              Alike(e, f) /\ IF e.id = id THEN e.status = status ELSE e = f
         /\ InOrder(q) => InOrder(WithStatus(q, id, status))
<1> DEFINE w == WithStatus(q, id, status)
<1>1. w = [i \in DOMAIN q |-> IF q[i].id = id THEN [q[i] EXCEPT !.status = status] ELSE q[i]]
  BY DEF WithStatus
<1>2. DOMAIN q = 1..Len(q) /\ Len(q) \in Nat /\ \A i \in DOMAIN q : q[i] \in OutboxEntry
  OBVIOUS
<1> HIDE DEF w
<1>3. \A i \in DOMAIN q : /\ w[i] \in OutboxEntry /\ w[i].id = q[i].id /\ w[i].hlc = q[i].hlc
                          /\ IF w[i].id = id THEN w[i].status = status ELSE w[i] = q[i]
  BY <1>1, <1>2 DEF OutboxEntry
<1>4. DOMAIN w = DOMAIN q
  BY <1>1
<1>5. w \in Seq(OutboxEntry)
  BY <1>1, <1>2, <1>3, <1>4
<1>6. \A e \in Range(w) : \E f \in Range(q) :
        Alike(e, f) /\ IF e.id = id THEN e.status = status ELSE e = f
  BY <1>3, <1>4 DEF Range, Alike
<1>7. \A f \in Range(q) : \E e \in Range(w) :
        Alike(e, f) /\ IF e.id = id THEN e.status = status ELSE e = f
  BY <1>3, <1>4 DEF Range, Alike
<1>8. InOrder(q) => InOrder(w)
  BY <1>3, <1>4 DEF InOrder
<1> QED BY <1>5, <1>6, <1>7, <1>8 DEF w

\* Entries with stamps of their own, in stamp order, have ids of their own.
LEMMA OrderedApart ==
  ASSUME NEW q \in Seq(OutboxEntry), InOrder(q), Range(q) \subseteq Held, StampsApart
  PROVE  /\ \A i, j \in DOMAIN q : q[i].id = q[j].id => i = j
         /\ \A e, f \in Range(q) : e.id = f.id => e = f
<1>1. DOMAIN q \subseteq Nat /\ \A i \in DOMAIN q : q[i] \in OutboxEntry /\ q[i] \in Held
  BY DEF Range
<1>2. \A i, j \in DOMAIN q : q[i].id = q[j].id => q[i].hlc = q[j].hlc
  BY <1>1, Zenon DEF StampsApart
<1>3. \A i, j \in DOMAIN q : q[i].hlc = q[j].hlc => i = j
  <2> SUFFICES ASSUME NEW i \in DOMAIN q, NEW j \in DOMAIN q, q[i].hlc = q[j].hlc, i # j
               PROVE  FALSE
    OBVIOUS
  <2>1. i < j \/ j < i
    BY <1>1
  <2>2. q[i].hlc < q[j].hlc \/ q[j].hlc < q[i].hlc
    BY <2>1 DEF InOrder
  <2>3. q[i].hlc \in Nat
    BY <1>1 DEF OutboxEntry
  <2> QED BY <2>2, <2>3
<1>4. \A i, j \in DOMAIN q : q[i].id = q[j].id => i = j
  BY <1>2, <1>3, Zenon
<1> QED BY <1>4, Zenon DEF Range

-----------------------------------------------------------------------------
(* Queues of requests *)

\* The head of the queue completes: its request is gone, and nothing else changes.
LEMMA Popped ==
  ASSUME ops \in Seq(RequestType), ops # <<>>, ops' = Tail(ops)
  PROVE  /\ ops' \in Seq(RequestType) /\ Head(ops) \in RequestType /\ Head(ops) = ops[1]
         /\ Requests = Requests' \union {Head(ops)}
         /\ \A i \in DOMAIN ops' : i \in Nat /\ i + 1 \in DOMAIN ops /\ ops'[i] = ops[i + 1]
         /\ 1 \in DOMAIN ops
BY TailOf DEF Requests

LEMMA Pushed ==
  ASSUME ops \in Seq(RequestType), NEW r \in RequestType, ops' = Append(ops, r)
  PROVE  /\ ops' \in Seq(RequestType)
         /\ Requests' = Requests \union {r}
         /\ \A i \in DOMAIN ops' : /\ i \in Nat
                                   /\ \/ i \in DOMAIN ops /\ ops'[i] = ops[i]
                                      \/ ops'[i] = r /\ \A j \in DOMAIN ops' : j <= i
<1>1. /\ ops' \in Seq(RequestType) /\ DOMAIN ops' = DOMAIN ops \union {Len(ops) + 1}
      /\ Len(ops) \in Nat
      /\ \A i \in DOMAIN ops : i \in Nat /\ i <= Len(ops) /\ ops'[i] = ops[i]
      /\ ops'[Len(ops) + 1] = r
      /\ Range(ops') = Range(ops) \union {r}
  BY RangeAppend
<1> QED BY <1>1 DEF Requests

\* The flush goes on: its request is gone and its next one is the last.
LEMMA Turned ==
  ASSUME ops \in Seq(RequestType), ops # <<>>, NEW r \in RequestType, ops' = Append(Tail(ops), r)
  PROVE  /\ ops' \in Seq(RequestType) /\ Head(ops) \in RequestType /\ Head(ops) = ops[1]
         /\ r \in Requests' /\ Requests' \subseteq Requests \union {r}
         /\ Requests \subseteq Requests' \union {Head(ops)}
         /\ \A i \in DOMAIN ops' : /\ i \in Nat
                                   /\ \/ i + 1 \in DOMAIN ops /\ ops'[i] = ops[i + 1]
                                      \/ ops'[i] = r /\ \A j \in DOMAIN ops' : j <= i
         /\ 1 \in DOMAIN ops
<1> DEFINE q == Tail(ops)
<1>1. /\ q \in Seq(RequestType) /\ Head(ops) \in RequestType /\ Head(ops) = ops[1] /\ 1 \in DOMAIN ops
      /\ \A i \in DOMAIN q : i \in Nat /\ i + 1 \in DOMAIN ops /\ q[i] = ops[i + 1]
      /\ Range(ops) = Range(q) \union {Head(ops)}
  BY TailOf
<1> HIDE DEF q
<1>2. /\ ops' \in Seq(RequestType) /\ DOMAIN ops' = DOMAIN q \union {Len(q) + 1}
      /\ Len(q) \in Nat
      /\ \A i \in DOMAIN q : i \in Nat /\ i <= Len(q) /\ ops'[i] = q[i]
      /\ ops'[Len(q) + 1] = r
      /\ Range(ops') = Range(q) \union {r}
  <2>1. ops' = Append(q, r)
    BY DEF q
  <2>2. /\ Append(q, r) \in Seq(RequestType) /\ DOMAIN Append(q, r) = DOMAIN q \union {Len(q) + 1}
        /\ Len(q) \in Nat /\ \A i \in DOMAIN q : i \in Nat /\ i <= Len(q) /\ Append(q, r)[i] = q[i]
        /\ Append(q, r)[Len(q) + 1] = r
        /\ Range(Append(q, r)) = Range(q) \union {r}
    <3> q \in Seq(RequestType)
      BY <1>1
    <3> QED BY RangeAppend
  <2> QED BY <2>1, <2>2
<1>3. \A i \in DOMAIN ops' : /\ i \in Nat
                             /\ \/ i + 1 \in DOMAIN ops /\ ops'[i] = ops[i + 1]
                                \/ ops'[i] = r /\ \A j \in DOMAIN ops' : j <= i
  BY <1>1, <1>2
<1> QED BY <1>1, <1>2, <1>3 DEF Requests

LEMMA PoppedKeeps ==
  ASSUME ops \in Seq(RequestType), ops # <<>>, ops' = Tail(ops)
  PROVE  /\ RequestForms => RequestForms' /\ FormOf(Head(ops))
         /\ AppOpsApart => /\ AppOpsApart'
                           /\ Head(ops).by \in AppOps => \A r \in Requests' :
                                r.by \in AppOps => Touches(Head(ops)) \intersect Touches(r) = {}
         /\ AuthorsInOrder => /\ AuthorsInOrder'
                              /\ Authors(Head(ops)) => \A r \in Requests' :
                                   Authors(r) => Head(ops).row.hlc < r.row.hlc
         /\ \A by : OneOf(by) => /\ OneOf(by)'
                                 /\ Head(ops).by = by => \A r \in Requests' : r.by # by
<1>1. /\ Head(ops) = ops[1] /\ Requests = Requests' \union {Head(ops)} /\ 1 \in DOMAIN ops
      /\ \A i \in DOMAIN ops' : i \in Nat /\ i + 1 \in DOMAIN ops /\ ops'[i] = ops[i + 1]
  BY Popped
<1>2. \A r \in Requests' : \E i \in DOMAIN ops : i > 1 /\ r = ops[i]
  <2> SUFFICES ASSUME NEW i \in DOMAIN ops' PROVE \E k \in DOMAIN ops : k > 1 /\ ops'[i] = ops[k]
    BY DEF Requests, Range
  <2>1. i \in DOMAIN ops' => i + 1 > 1
    BY <1>1
  <2> QED BY <1>1, <2>1, Zenon
<1>2a. \A i \in DOMAIN ops : i \in Nat
  OBVIOUS
<1> HIDE DEF Requests
<1>3. RequestForms => RequestForms' /\ FormOf(Head(ops))
  BY <1>1 DEF RequestForms
<1>4. ASSUME AppOpsApart
      PROVE  /\ AppOpsApart'
             /\ Head(ops).by \in AppOps => \A r \in Requests' :
                  r.by \in AppOps => Touches(Head(ops)) \intersect Touches(r) = {}
  <2>1. \A i, j \in DOMAIN ops' : i # j => i + 1 # j + 1
    BY <1>1
  <2>2. AppOpsApart'
    BY <1>1, <1>4, <2>1 DEF AppOpsApart
  <2>3. \A i \in DOMAIN ops : i > 1 => 1 # i
    BY <1>2a
  <2> QED BY <1>1, <1>2, <1>4, <2>2, <2>3, Zenon DEF AppOpsApart
<1>5. ASSUME AuthorsInOrder
      PROVE  /\ AuthorsInOrder'
             /\ Authors(Head(ops)) => \A r \in Requests' :
                  Authors(r) => Head(ops).row.hlc < r.row.hlc
  <2>1. \A i, j \in DOMAIN ops' : i < j => i + 1 < j + 1
    BY <1>1
  <2>2. AuthorsInOrder'
    BY <1>1, <1>5, <2>1, Zenon DEF AuthorsInOrder, Authors
  <2>3. \A i \in DOMAIN ops : i > 1 => 1 < i
    BY <1>2a
  <2> QED BY <1>1, <1>2, <1>5, <2>2, <2>3, Zenon DEF AuthorsInOrder
<1>6. ASSUME NEW by, OneOf(by)
      PROVE  /\ OneOf(by)'
             /\ Head(ops).by = by => \A r \in Requests' : r.by # by
  <2>1. \A i, j \in DOMAIN ops' : i + 1 = j + 1 => i = j
    BY <1>1
  <2>2. OneOf(by)'
    BY <1>1, <1>6, <2>1 DEF OneOf
  <2>3. \A i \in DOMAIN ops : i > 1 => 1 # i
    BY <1>2a
  <2> QED BY <1>1, <1>2, <1>6, <2>2, <2>3, Zenon DEF OneOf
<1> QED BY <1>3, <1>4, <1>5, <1>6

LEMMA PushedKeeps ==
  ASSUME ops \in Seq(RequestType), NEW r \in RequestType, ops' = Append(ops, r), FormOf(r)
  PROVE  /\ RequestForms => RequestForms'
         /\ AppOpsApart
            /\ (r.by \in AppOps => \A s \in Requests :
                  s.by \in AppOps => Touches(r) \intersect Touches(s) = {}) => AppOpsApart'
         /\ AuthorsInOrder
            /\ (Authors(r) => \A s \in Requests : Authors(s) => s.row.hlc < r.row.hlc)
              => AuthorsInOrder'
         /\ \A by : OneOf(by) /\ (r.by = by => \A s \in Requests : s.by # by) => OneOf(by)'
<1>1. /\ Requests' = Requests \union {r}
      /\ \A i \in DOMAIN ops' : /\ i \in Nat
                                /\ \/ i \in DOMAIN ops /\ ops'[i] = ops[i]
                                   \/ ops'[i] = r /\ \A j \in DOMAIN ops' : j <= i
  BY Pushed
<1>2. \A i \in DOMAIN ops : ops[i] \in Requests
  BY DEF Requests, Range
<1>3. RequestForms => RequestForms'
  BY <1>1 DEF RequestForms
<1> HIDE DEF Requests
<1>4. \A i, j \in DOMAIN ops' :
        \/ i \in DOMAIN ops /\ j \in DOMAIN ops /\ ops'[i] = ops[i] /\ ops'[j] = ops[j]
        \/ i \in DOMAIN ops /\ ops'[i] \in Requests /\ ops'[j] = r
        \/ j \in DOMAIN ops /\ ops'[j] \in Requests /\ ops'[i] = r /\ ~(i < j)
        \/ i = j
  BY <1>1, <1>2
<1>5. ASSUME AppOpsApart, r.by \in AppOps => \A s \in Requests :
                  s.by \in AppOps => Touches(r) \intersect Touches(s) = {}
      PROVE  AppOpsApart'
  BY <1>4, <1>5 DEF AppOpsApart
<1>6. ASSUME AuthorsInOrder, Authors(r) => \A s \in Requests : Authors(s) => s.row.hlc < r.row.hlc
      PROVE  AuthorsInOrder'
  <2>1. \A i \in DOMAIN ops' : ~(i < i)
    BY <1>1
  <2> QED BY <1>4, <1>6, <2>1 DEF AuthorsInOrder
<1>7. ASSUME NEW by, OneOf(by), r.by = by => \A s \in Requests : s.by # by PROVE OneOf(by)'
  BY <1>4, <1>7 DEF OneOf
<1> QED BY <1>3, <1>5, <1>6, <1>7

LEMMA TurnedKeeps ==
  ASSUME ops \in Seq(RequestType), ops # <<>>, NEW r \in RequestType, ops' = Append(Tail(ops), r),
         FormOf(r), r.by = "flush", Head(ops).by = "flush", OneOf("flush")
  PROVE  /\ RequestForms => RequestForms'
         /\ AppOpsApart => AppOpsApart'
         /\ AuthorsInOrder => AuthorsInOrder'
         /\ \A by : OneOf(by) => OneOf(by)'
         /\ \A s \in Requests' : s.by = "flush" => s = r
         /\ \A s \in Requests : s \in Requests' \/ s.by = "flush"
<1>1. /\ Requests' \subseteq Requests \union {r} /\ Requests \subseteq Requests' \union {Head(ops)}
      /\ Head(ops) = ops[1] /\ 1 \in DOMAIN ops
      /\ \A i \in DOMAIN ops' : /\ i \in Nat
                                /\ \/ i + 1 \in DOMAIN ops /\ ops'[i] = ops[i + 1]
                                   \/ ops'[i] = r /\ \A j \in DOMAIN ops' : j <= i
  BY Turned
<1>2. RequestForms => RequestForms'
  BY <1>1 DEF RequestForms
<1> HIDE DEF Requests
<1>3. \A i, j \in DOMAIN ops' :
        \/ /\ i + 1 \in DOMAIN ops /\ j + 1 \in DOMAIN ops
           /\ ops'[i] = ops[i + 1] /\ ops'[j] = ops[j + 1] /\ (i < j => i + 1 < j + 1)
           /\ (i + 1 = j + 1 => i = j) /\ i + 1 # 1 /\ j + 1 # 1
        \/ i + 1 \in DOMAIN ops /\ ops'[i] = ops[i + 1] /\ ops'[j] = r /\ i + 1 # 1
        \/ j + 1 \in DOMAIN ops /\ ops'[j] = ops[j + 1] /\ ops'[i] = r /\ j + 1 # 1
        \/ i = j
  BY <1>1
<1>4. AppOpsApart => AppOpsApart'
  BY <1>3 DEF AppOpsApart, AppOps
<1>5. AuthorsInOrder => AuthorsInOrder'
  <2>1. \A i \in DOMAIN ops' : ~(i < i)
    BY <1>1
  <2> QED BY <1>3, <2>1 DEF AuthorsInOrder, Authors
<1>6. ASSUME NEW by, OneOf(by) PROVE OneOf(by)'
  BY <1>1, <1>3, <1>6 DEF OneOf
<1>7. \A s \in Requests' : s.by = "flush" => s = r
  <2> SUFFICES ASSUME NEW i \in DOMAIN ops', ops'[i].by = "flush" PROVE ops'[i] = r
    BY DEF Requests, Range
  <2>1. CASE i + 1 \in DOMAIN ops /\ ops'[i] = ops[i + 1]
    <3>1. i + 1 # 1
      BY <1>1
    <3> QED BY <1>1, <2>1, <3>1 DEF OneOf
  <2> QED BY <1>1, <2>1
<1>8. \A s \in Requests : s \in Requests' \/ s.by = "flush"
  BY <1>1
<1> QED BY <1>2, <1>4, <1>5, <1>6, <1>7, <1>8

-----------------------------------------------------------------------------
(* Stamps and ids *)

LEMMA HeldType ==
  ASSUME TypeInv
  PROVE  /\ Held \subseteq OutboxEntry /\ Requests \subseteq RequestType
         /\ Range(mem) \subseteq OutboxEntry /\ Range(flush.batch) \subseteq OutboxEntry
<1>1. Range(mem) \subseteq OutboxEntry /\ Requests \subseteq RequestType
  BY DEF TypeInv, Range, Requests
<1>2. Range(flush.batch) \subseteq OutboxEntry
  <2>1. flush.batch \in Seq(OutboxEntry)
    BY DEF TypeInv, FlushType
  <2> QED BY <2>1 DEF Range
<1>3. \A r \in Requests : r.row \in OutboxEntry
  BY <1>1 DEF RequestType
<1> QED BY <1>1, <1>2, <1>3 DEF Held, TypeInv

LEMMA StampsKept ==
  ASSUME StampsApart, clock' = clock, \A e \in Held' : \E f \in Held : Alike(e, f)
  PROVE  StampsApart'
<1>1. \A e \in Held' : e.hlc <= clock'
  BY DEF StampsApart, Alike
<1>2. ASSUME NEW e \in Held', NEW f \in Held' PROVE e.id = f.id <=> e.hlc = f.hlc
  <2>1. PICK a \in Held : Alike(e, a)
    OBVIOUS
  <2>2. PICK b \in Held : Alike(f, b)
    OBVIOUS
  <2>3. a.id = b.id <=> a.hlc = b.hlc
    BY DEF StampsApart
  <2> QED BY <2>1, <2>2, <2>3 DEF Alike
<1> QED BY <1>1, <1>2 DEF StampsApart

LEMMA StampsDrawn ==
  ASSUME TypeInv, StampsApart, clock' = clock + 1, NEW id, \A f \in Held : f.id # id,
         \A e \in Held' : (\E f \in Held : Alike(e, f)) \/ (e.id = id /\ e.hlc = clock + 1)
  PROVE  StampsApart'
<1>0. clock \in Nat /\ \A f \in Held : f.hlc \in Nat
  BY HeldType DEF TypeInv, OutboxEntry
<1>1. ASSUME NEW e \in Held' PROVE e.hlc <= clock'
  <2>1. CASE e.hlc = clock + 1
    BY <1>0, <2>1
  <2>2. CASE \E f \in Held : Alike(e, f)
    BY <1>0, <2>2 DEF StampsApart, Alike
  <2> QED BY <2>1, <2>2
<1>2. ASSUME NEW e \in Held', NEW f \in Held' PROVE e.id = f.id <=> e.hlc = f.hlc
  <2>1. \A a \in Held : a.hlc # clock + 1
    BY <1>0 DEF StampsApart
  <2>2. CASE (\E a \in Held : Alike(e, a)) /\ (\E b \in Held : Alike(f, b))
    <3>1. PICK a \in Held : Alike(e, a)
      BY <2>2
    <3>2. PICK b \in Held : Alike(f, b)
      BY <2>2
    <3>3. a.id = b.id <=> a.hlc = b.hlc
      BY DEF StampsApart
    <3> QED BY <3>1, <3>2, <3>3 DEF Alike
  <2>3. CASE (\E a \in Held : Alike(e, a)) /\ f.id = id /\ f.hlc = clock + 1
    BY <2>1, <2>3, Zenon DEF Alike
  <2>4. CASE e.id = id /\ e.hlc = clock + 1 /\ (\E b \in Held : Alike(f, b))
    BY <2>1, <2>4, Zenon DEF Alike
  <2>5. CASE e.id = id /\ e.hlc = clock + 1 /\ f.id = id /\ f.hlc = clock + 1
    BY <2>5, Zenon
  <2> QED BY <2>2, <2>3, <2>4, <2>5, Zenon
<1> QED BY <1>1, <1>2 DEF StampsApart

LEMMA NotBusy ==
  ASSUME NEW id, ~Busy(id)
  PROVE  \A r \in Requests : r.by # "flush" => id \notin Touches(r)
BY DEF Busy, Requests, Range, Touches

\* An id that is new to the application is on no copy of an entry.
LEMMA FreshId ==
  ASSUME KeepInv, NEW id, id \notin authored, ~Busy(id)
  PROVE  \A f \in Held : f.id # id
<1>1. \A r \in Requests : r.by # "flush" => r.row.id # id
  BY NotBusy DEF Touches
<1>2. \A r \in Requests : r.by = "flush" => r.row.id \in authored
  BY DEF KeepInv, IdsAuthored, RequestForms, FormOf
<1> QED BY <1>1, <1>2 DEF Held, KeepInv, IdsAuthored

LEMMA MemApart ==
  ASSUME KeepInv
  PROVE  /\ \A i, j \in DOMAIN mem : mem[i].id = mem[j].id => i = j
         /\ \A e, f \in Range(mem) : e.id = f.id => e = f
<1>1. InOrder(mem) /\ mem \in Seq(OutboxEntry) /\ StampsApart
  BY DEF KeepInv, TypeInv, QueueInStampOrder, InOrder
<1>2. Range(mem) \subseteq Held
  BY DEF Held
<1> QED BY <1>1, <1>2, OrderedApart

LEMMA CommittedGrows ==
  ASSUME log \in Seq([id : Ids \union {Foreign}, subject : Subjects]),
         NEW x \in Seq([id : Ids \union {Foreign}, subject : Subjects]), log' = log \o x
  PROVE  /\ log' \in Seq([id : Ids \union {Foreign}, subject : Subjects])
         /\ Committed \subseteq Committed'
<1>1. /\ log' \in Seq([id : Ids \union {Foreign}, subject : Subjects])
      /\ \A g \in DOMAIN log : g \in DOMAIN log' /\ log'[g] = log[g]
  OBVIOUS
<1> QED BY <1>1 DEF Committed

LEMMA CommitBatchIs ==
  ASSUME TypeInv, NEW refused, CommitBatch(refused)
  PROVE  /\ log' \in Seq([id : Ids \union {Foreign}, subject : Subjects])
         /\ Committed \subseteq Committed'
<1> DEFINE J == {i \in DOMAIN flush.batch : flush.batch[i].id \notin refused \union Committed}
           new == Picked(flush.batch, J)
           x == [i \in DOMAIN new |-> [id |-> new[i].id, subject |-> SubjectOf[new[i].id]]]
<1>1. log' = log \o x
  BY DEF CommitBatch
<1>2. flush.batch \in Seq(OutboxEntry) /\ J \in SUBSET DOMAIN flush.batch
  BY DEF TypeInv, FlushType
<1> HIDE DEF J
<1>3. new \in Seq(OutboxEntry)
  BY <1>2, PickedOrder
<1> HIDE DEF new
<1>4. \A i \in DOMAIN new : new[i] \in OutboxEntry
  BY <1>3
<1>5. \A i \in DOMAIN new : x[i] \in [id : Ids \union {Foreign}, subject : Subjects]
  BY <1>4, OutboxAssumption DEF OutboxEntry
<1>6. x \in Seq([id : Ids \union {Foreign}, subject : Subjects])
  <2>1. DOMAIN new = 1..Len(new) /\ Len(new) \in Nat
    BY <1>3
  <2>2. x \in [1..Len(new) -> [id : Ids \union {Foreign}, subject : Subjects]]
    BY <1>5, <2>1
  <2> HIDE DEF x
  <2>3. ASSUME NEW S, NEW n \in Nat, NEW y \in [1..n -> S] PROVE y \in Seq(S)
    OBVIOUS
  <2> QED BY <2>1, <2>2, <2>3, Zenon
<1> HIDE DEF x
<1> QED BY <1>1, <1>6, CommittedGrows DEF TypeInv

-----------------------------------------------------------------------------
(* What an operation does to the invariant when it issues a request *)

\* Every entry is still there, with its stamp.
SameEntries ==
  /\ mem' \in Seq(OutboxEntry) /\ InOrder(mem')
  /\ \A e \in Range(mem') : \E f \in Range(mem) : Alike(e, f)
  /\ \A f \in Range(mem) : \E e \in Range(mem') : Alike(e, f)

LEMMA SameMem == KeepInv /\ mem' = mem => SameEntries
BY DEF KeepInv, TypeInv, SameEntries, QueueInStampOrder, InOrder, Alike

LEMMA IssueKeeps ==
  ASSUME KeepInv, TypeInv', Unloaded', SameEntries,
         NEW r \in RequestType, FormOf(r), r.by # "flush", ops' = Append(ops, r),
         UNCHANGED <<store, flush, authored, dropped, rejected, log>>,
         \/ clock' = clock /\ \E f \in Held : Alike(r.row, f)
         \/ clock' = clock + 1 /\ r.row.hlc = clock + 1 /\ \A f \in Held : f.id # r.row.id,
         Authors(r) => r.row.id \notin authored /\ r.row.hlc = clock + 1,
         r.by # "enqueue" => r.drop \in authored,
         r.by \in AppOps => ~Busy(r.row.id) /\ ~Busy(r.drop),
         r.op = "delete" /\ r.by # "clear" => r.drop \in Gone
  PROVE  KeepInv'
<1>1. ops \in Seq(RequestType)
  BY DEF KeepInv, TypeInv
<1>2. Requests' = Requests \union {r} /\ flush' = flush /\ store' = store
  BY <1>1, Pushed
<1>3. Held \subseteq OutboxEntry /\ clock \in Nat
  BY HeldType DEF KeepInv, TypeInv
<1>4. RequestForms'
  BY <1>1, PushedKeeps DEF KeepInv
<1>5. AppOpsApart'
  <2>1. r.by \in AppOps => \A s \in Requests :
          s.by \in AppOps => Touches(r) \intersect Touches(s) = {}
    <3>1. r.by \in AppOps => \A s \in Requests :
            s.by \in AppOps => r.row.id \notin Touches(s) /\ r.drop \notin Touches(s)
      BY NotBusy DEF AppOps
    <3> QED BY <3>1 DEF Touches
  <2> QED BY <1>1, <2>1, PushedKeeps DEF KeepInv
<1>6. AuthorsInOrder'
  <2>1. \A s \in Requests : s.row \in Held
    BY DEF Held
  <2>2. Authors(r) => \A s \in Requests : Authors(s) => s.row.hlc < r.row.hlc
    BY <1>3, <2>1 DEF KeepInv, StampsApart, OutboxEntry
  <2> QED BY <1>1, <2>2, PushedKeeps DEF KeepInv
<1>7. OneOf("flush")'
  BY <1>1, PushedKeeps DEF KeepInv
<1>8. StampsApart'
  <2>1. \A e \in Held' : e = r.row \/ \E f \in Held : Alike(e, f)
    BY <1>2 DEF Held, SameEntries, Alike
  <2>2. CASE clock' = clock /\ \E f \in Held : Alike(r.row, f)
    BY <2>1, <2>2, StampsKept DEF KeepInv
  <2>3. CASE clock' = clock + 1 /\ r.row.hlc = clock + 1 /\ \A f \in Held : f.id # r.row.id
    BY <2>1, <2>3, StampsDrawn DEF KeepInv
  <2> QED BY <2>2, <2>3
<1>9. IdsAuthored'
  BY <1>2 DEF KeepInv, IdsAuthored, SameEntries, Alike
<1>10. QueueInStampOrder'
  BY DEF SameEntries, InOrder, QueueInStampOrder
<1>11. AuthorsBehind'
  <2>1. \A e \in Range(mem) : e \in Held /\ e.hlc \in Nat
    BY <1>3 DEF Held, OutboxEntry
  <2>2. Authors(r) => \A e \in Range(mem) : e.hlc < r.row.hlc
    BY <1>3, <2>1 DEF KeepInv, StampsApart
  <2>3. \A s \in Requests' : Authors(s) => \A e \in Range(mem) : e.hlc < s.row.hlc
    BY <1>2, <2>2 DEF KeepInv, AuthorsBehind
  <2> QED BY <2>3 DEF AuthorsBehind, SameEntries, Alike
<1>12. RowsApart'
  BY <1>2 DEF KeepInv, RowsApart
<1>13. FlushForm'
  BY <1>2 DEF KeepInv, FlushForm
<1>14. Committed' = Committed
  BY DEF Committed
<1>15. DeletesAccounted'
  <2>1. \A e \in Range(flush.batch) : Known(e.id)' \/ e.id \in Gone
    <3>1. \A id : Known(id) <=> \E f \in Range(mem) : f.id = id
      BY BufferedIs DEF Known, KeepInv, TypeInv
    <3>2. \A id : Known(id)' <=> \E f \in Range(mem') : f.id = id
      BY BufferedIs DEF Known, SameEntries
    <3>3. \A id : Known(id) => Known(id)'
      BY <3>1, <3>2 DEF SameEntries, Alike
    <3> QED BY <3>3, Zenon DEF KeepInv, DeletesAccounted
  <2> QED BY <1>2, <1>14, <2>1 DEF KeepInv, DeletesAccounted, Gone
<1>16. NoLostWrite'
  BY <1>2, <1>14 DEF KeepInv, NoLostWrite
<1> QED BY <1>4, <1>5, <1>6, <1>7, <1>8, <1>9, <1>10, <1>11, <1>12, <1>13, <1>15, <1>16 DEF KeepInv

-----------------------------------------------------------------------------
(* What it does when the request of an operation completes or fails *)

LEMMA StoreAfterIs ==
  ASSUME TypeInv, NEW r \in RequestType
  PROVE  /\ StoreAfter(r) \in SUBSET OutboxEntry /\ IsFiniteSet(StoreAfter(r))
         /\ \A e \in StoreAfter(r) : (e \in store /\ e.id \notin Touches(r)) \/ (e = r.row /\ r.op # "delete")
         /\ \A e \in store : e.id \notin Touches(r) => e \in StoreAfter(r)
         /\ r.op # "delete" => r.row \in StoreAfter(r)
<1> DEFINE kept == {e \in store : e.id \notin {r.drop, r.row.id}}
<1>1. kept \in SUBSET store /\ store \in SUBSET OutboxEntry /\ IsFiniteSet(store) /\ r.row \in OutboxEntry
  BY DEF TypeInv, RequestType
<1>2. StoreAfter(r) = IF r.op = "delete" THEN kept ELSE kept \union {r.row}
  BY DEF StoreAfter
<1>3. \A e : e \in kept <=> e \in store /\ e.id \notin Touches(r)
  BY DEF Touches
<1> HIDE DEF kept
<1>4. IsFiniteSet(kept) /\ IsFiniteSet(kept \union {r.row})
  BY <1>1, FS_Subset, FS_AddElement
<1>5. IsFiniteSet(StoreAfter(r))
  BY <1>2, <1>4
<1> QED BY <1>1, <1>2, <1>3, <1>5

\* The request of h was stored, or it failed; authored and dropped say which.
Settles(h) ==
  \/ /\ store' = StoreAfter(h)
     /\ authored' = IF Authors(h) THEN authored \union {h.row.id} ELSE authored
     /\ dropped' = IF Drops(h) THEN dropped \union {h.drop} ELSE dropped
  \/ store' = store /\ authored' = authored /\ dropped' = dropped

LEMMA CompleteKeeps ==
  ASSUME KeepInv, TypeInv', Unloaded', ops # <<>>, ops' = Tail(ops), Head(ops).by # "flush",
         UNCHANGED <<flush, clock, log, rejected>>, Settles(Head(ops)), InOrder(mem'),
         \A e \in Range(mem') : \/ \E f \in Range(mem) : Alike(e, f)
                                \/ e = Head(ops).row /\ Authors(Head(ops)) /\ e.id \in authored',
         \A f \in Range(mem) : (\E e \in Range(mem') : e.id = f.id) \/ f.id \in Gone'
  PROVE  KeepInv'
<1> DEFINE h == Head(ops)
<1>1. ops \in Seq(RequestType) /\ TypeInv /\ mem' \in Seq(OutboxEntry)
  BY DEF KeepInv, TypeInv
<1>2. Requests = Requests' \union {h} /\ flush' = flush /\ h \in RequestType /\ h \in Requests
  BY <1>1, Popped
<1>3. RequestForms' /\ FormOf(h)
  BY <1>1, PoppedKeeps DEF KeepInv
<1>4. /\ AppOpsApart'
      /\ h.by \in AppOps => \A r \in Requests' :
           r.by \in AppOps => Touches(h) \intersect Touches(r) = {}
  BY <1>1, PoppedKeeps DEF KeepInv
<1>5. AuthorsInOrder' /\ (Authors(h) => \A r \in Requests' : Authors(r) => h.row.hlc < r.row.hlc)
  BY <1>1, PoppedKeeps DEF KeepInv
<1>6. OneOf("flush")'
  BY <1>1, PoppedKeeps DEF KeepInv
<1> HIDE DEF h
<1>7. /\ \A e \in store' : e \in store \/ (e = h.row /\ h.op # "delete" /\ store' = StoreAfter(h))
      /\ \A e \in store : e \in store' \/ (e.id \in Touches(h) /\ store' = StoreAfter(h))
      /\ store' = StoreAfter(h) /\ h.op # "delete" => h.row \in store'
  BY <1>1, <1>2, StoreAfterIs DEF Settles, h
<1>8. Committed' = Committed
  BY DEF Committed
<1>9. authored \subseteq authored' /\ dropped \subseteq dropped' /\ Gone \subseteq Gone'
  BY <1>8 DEF Settles, Gone
<1>10. StampsApart'
  <2>1. \A e \in Held' : \E f \in Held : Alike(e, f)
    BY <1>2, <1>7 DEF Held, Alike, h
  <2> QED BY <2>1, StampsKept DEF KeepInv
<1>11. IdsAuthored'
  <2>1. \A e \in Range(mem') \union Range(flush.batch) : e.id \in authored'
    BY <1>9 DEF KeepInv, IdsAuthored, Alike
  <2>2. store' = StoreAfter(h) /\ h.op # "delete" => h.row.id \in authored'
    <3>1. CASE Authors(h)
      BY <1>1, <1>2, <1>7, <3>1, StoreAfterIs DEF Settles, h, KeepInv, IdsAuthored
    <3>2. CASE ~Authors(h)
      <4>1. h.drop \in authored /\ h.drop = h.row.id
        BY <1>2, <1>3, <3>2 DEF KeepInv, IdsAuthored, Authors, FormOf, RequestType, AppOps
      <4> QED BY <1>9, <4>1
    <3> QED BY <3>1, <3>2
  <2>3. \A e \in store' : e.id \in authored'
    BY <1>7, <1>9, <2>2 DEF KeepInv, IdsAuthored
  <2>4. \A r \in Requests' : r.by # "enqueue" => r.drop \in authored'
    BY <1>2, <1>9 DEF KeepInv, IdsAuthored
  <2>5. \A r \in Requests' : Authors(r) => r.row.id \notin authored'
    <3>1. \A r \in Requests' : Authors(r) => r.row.id \notin authored
      BY <1>2 DEF KeepInv, IdsAuthored
    <3>2. Authors(h) => \A r \in Requests' : Authors(r) => r.row.id # h.row.id
      BY <1>4 DEF Authors, AppOps, Touches
    <3> QED BY <3>1, <3>2 DEF Settles, h
  <2> QED BY <1>2, <2>1, <2>3, <2>4, <2>5 DEF IdsAuthored
<1>12. QueueInStampOrder'
  BY DEF InOrder, QueueInStampOrder
<1>13. AuthorsBehind'
  BY <1>2, <1>5 DEF KeepInv, AuthorsBehind, Alike, h
<1>14. RowsApart'
  <2>1. \A e \in store' : (e \in store /\ e.id # h.row.id) \/ e = h.row \/ store' = store
    BY <1>1, <1>2, StoreAfterIs DEF Settles, h, Touches
  <2> QED BY <2>1 DEF KeepInv, RowsApart
<1>15. FlushForm'
  BY <1>2 DEF KeepInv, FlushForm
<1>16. DeletesAccounted'
  <2>1. \A id : Known(id) <=> \E f \in Range(mem) : f.id = id
    BY <1>1, BufferedIs DEF Known, TypeInv
  <2>2. \A id : Known(id)' <=> \E f \in Range(mem') : f.id = id
    BY <1>1, BufferedIs DEF Known
  <2>3. \A id : Known(id) => Known(id)' \/ id \in Gone'
    BY <2>1, <2>2, Zenon
  <2>4. \A e \in Range(flush.batch) : Known(e.id)' \/ e.id \in Gone'
    BY <1>9, <2>3 DEF KeepInv, DeletesAccounted
  <2> QED BY <1>2, <1>9, <2>4 DEF KeepInv, DeletesAccounted
<1>17. NoLostWrite'
  <2> SUFFICES ASSUME NEW id \in authored'
               PROVE  (\E e \in store' : e.id = id) \/ id \in Gone'
    BY DEF NoLostWrite, Gone
  <2>1. CASE id = h.row.id /\ h.op # "delete" /\ store' = StoreAfter(h)
    BY <1>7, <2>1
  <2>2. CASE h.op = "delete" /\ store' = StoreAfter(h) /\ id = h.drop
    <3>1. CASE h.by # "clear"
      BY <1>2, <1>9, <2>2, <3>1 DEF KeepInv, DeletesAccounted
    <3>2. CASE h.by = "clear" /\ dropped' = dropped \union {h.drop}
      BY <2>2, <3>2 DEF Gone
    <3>3. CASE store' = store /\ authored' = authored
      BY <1>9, <3>3 DEF KeepInv, NoLostWrite, Gone
    <3> QED BY <3>1, <3>2, <3>3 DEF Settles, h, Drops
  <2>3. CASE store' = StoreAfter(h) /\ id = h.drop /\ h.op = "putAndDelete"
    <3>1. Drops(h)
      BY <1>2, <1>3, <2>3 DEF FormOf, Drops, RequestType, AppOps
    <3>2. \/ dropped' = dropped \union {h.drop}
          \/ store' = store /\ authored' = authored
      BY <3>1 DEF Settles, h
    <3>3. CASE dropped' = dropped \union {h.drop}
      BY <2>3, <3>3 DEF Gone
    <3>4. CASE store' = store /\ authored' = authored
      BY <1>9, <3>4 DEF KeepInv, NoLostWrite, Gone
    <3> QED BY <3>2, <3>3, <3>4
  <2>4. CASE /\ ~(id = h.row.id /\ h.op # "delete" /\ store' = StoreAfter(h))
             /\ ~(store' = StoreAfter(h) /\ id = h.drop)
    <3>1. id \in authored
      BY <1>2, <1>3, <2>4 DEF Settles, h, Authors, FormOf
    <3>2. (\E e \in store : e.id = id) \/ id \in Gone
      BY <3>1 DEF KeepInv, NoLostWrite, Gone
    <3>3. h.op = "delete" => h.drop = h.row.id
      BY <1>3 DEF FormOf
    <3>4. \A e \in store : e.id = id => e \in store'
      BY <1>7, <2>4, <3>3 DEF Touches
    <3> QED BY <1>9, <3>2, <3>4
  <2>5. h.op \in {"put", "putAndDelete", "delete"} /\ (h.op = "put" => h.drop = h.row.id)
    BY <1>2, <1>3 DEF RequestType, FormOf
  <2> QED BY <2>1, <2>2, <2>3, <2>4, <2>5
<1> QED BY <1>3, <1>4, <1>5, <1>6, <1>10, <1>11, <1>12, <1>13, <1>14, <1>15, <1>16, <1>17 DEF KeepInv

-----------------------------------------------------------------------------
(* What the flush and the session do to it *)

LEMMA FlushMoves ==
  ASSUME KeepInv, TypeInv', Unloaded', SameEntries, UNCHANGED <<clock, authored, dropped>>,
         store' = store \/ (ops # <<>> /\ Head(ops).by = "flush" /\ store' = StoreAfter(Head(ops))),
         Committed \subseteq Committed',
         RequestForms', AppOpsApart', AuthorsInOrder', OneOf("flush")', FlushForm',
         Range(flush'.batch) \subseteq Range(flush.batch) \union Range(mem),
         \A r \in Requests' : \/ r \in Requests
                              \/ /\ r.by = "flush" /\ r.drop = r.row.id
                                 /\ \E f \in Range(mem') \union Range(flush.batch) : Alike(r.row, f)
                                 /\ r.op = "delete" => r.drop \in Gone'
  PROVE  KeepInv'
<1> DEFINE h == Head(ops)
<1>1. ops \in Seq(RequestType) /\ TypeInv
  BY DEF KeepInv, TypeInv
<1>2. ops # <<>> => h \in RequestType /\ h \in Requests
  <2> SUFFICES ASSUME ops # <<>> PROVE h \in RequestType /\ h \in Requests
    OBVIOUS
  <2>1. h = ops[1] /\ 1 \in DOMAIN ops /\ h \in RequestType
    BY <1>1
  <2> HIDE DEF h
  <2> QED BY <2>1 DEF Requests, Range
<1>3. ops # <<>> /\ h.by = "flush" =>
        /\ h.drop \in authored /\ h.drop = h.row.id
        /\ (h.op = "delete" => h.drop \in Gone)
  BY <1>2 DEF KeepInv, IdsAuthored, DeletesAccounted, RequestForms, FormOf
<1> HIDE DEF h
<1>4. \/ store' = store
      \/ /\ ops # <<>> /\ h.by = "flush"
         /\ \A e \in store' : (e \in store /\ e.id # h.row.id) \/ (e = h.row /\ h.op # "delete")
         /\ \A e \in store : e \in store' \/ e.id = h.row.id
         /\ h.op # "delete" => h.row \in store'
  BY <1>1, <1>2, <1>3, StoreAfterIs DEF h, Touches
<1>5. Gone \subseteq Gone'
  BY DEF Gone
<1>6. /\ \A e \in Range(mem') : \E f \in Range(mem) : Alike(e, f)
      /\ \A f \in Range(mem) : \E e \in Range(mem') : Alike(e, f)
  BY DEF SameEntries
<1>7. StampsApart'
  <2>1. \A e \in Range(mem') \union store' \union Range(flush'.batch) : \E f \in Held : Alike(e, f)
    BY <1>2, <1>4, <1>6 DEF Held, Alike
  <2>2. \A r \in Requests' : \E f \in Held : Alike(r.row, f)
    BY <1>6 DEF Held, Alike
  <2>3. \A e \in Held' : \E f \in Held : Alike(e, f)
    BY <2>1, <2>2 DEF Held
  <2> QED BY <2>3, StampsKept DEF KeepInv
<1>8. IdsAuthored'
  <2>1. \A e \in Range(mem') \union store' \union Range(flush'.batch) : e.id \in authored'
    BY <1>3, <1>4, <1>6 DEF KeepInv, IdsAuthored, Alike
  <2>2. \A r \in Requests' : /\ Authors(r) => r.row.id \notin authored'
                             /\ r.by # "enqueue" => r.drop \in authored'
    BY <2>1 DEF KeepInv, IdsAuthored, Alike, Authors
  <2> QED BY <2>1, <2>2 DEF IdsAuthored
<1>9. QueueInStampOrder'
  BY DEF SameEntries, InOrder, QueueInStampOrder
<1>10. AuthorsBehind'
  BY <1>6 DEF KeepInv, AuthorsBehind, Alike, Authors
<1>11. RowsApart'
  BY <1>4 DEF KeepInv, RowsApart
<1>12. DeletesAccounted'
  <2>1. \A id : Known(id) <=> \E f \in Range(mem) : f.id = id
    BY <1>1, BufferedIs DEF Known, TypeInv
  <2>2. \A id : Known(id)' <=> \E f \in Range(mem') : f.id = id
    BY BufferedIs DEF Known, SameEntries
  <2>3. \A id : Known(id) => Known(id)'
    BY <1>6, <2>1, <2>2 DEF Alike
  <2>4. \A e \in Range(flush'.batch) : Known(e.id) \/ e.id \in Gone
    BY <2>1 DEF KeepInv, DeletesAccounted
  <2>5. \A r \in Requests' : r.op = "delete" /\ r.by # "clear" => r.drop \in Gone'
    BY <1>5 DEF KeepInv, DeletesAccounted
  <2> QED BY <1>5, <2>3, <2>4, <2>5 DEF DeletesAccounted
<1>13. NoLostWrite'
  <2>1. \A id \in authored : (\E e \in store : e.id = id) \/ id \in Gone
    BY DEF KeepInv, NoLostWrite, Gone
  <2>2. \A id : (\E e \in store : e.id = id) => (\E e \in store' : e.id = id) \/ id \in Gone
    BY <1>3, <1>4
  <2> QED BY <1>5, <2>1, <2>2 DEF NoLostWrite, Gone
<1> QED BY <1>7, <1>8, <1>9, <1>10, <1>11, <1>12, <1>13 DEF KeepInv

\* A step that leaves the buffer, the store and their requests alone.
LEMMA FrameKeeps ==
  ASSUME KeepInv, TypeInv', Unloaded', UNCHANGED <<mem, store, ops, flush, clock, authored, dropped, rejected>>,
         Committed \subseteq Committed'
  PROVE  KeepInv'
<1>1. /\ mem' = mem /\ store' = store /\ ops' = ops /\ flush' = flush /\ clock' = clock
      /\ authored' = authored /\ dropped' = dropped /\ rejected' = rejected
  OBVIOUS
<1>2. SameEntries
  BY <1>1, SameMem
<1>3. Requests' = Requests
  BY <1>1 DEF Requests
<1>4. RequestForms' /\ AppOpsApart' /\ AuthorsInOrder' /\ OneOf("flush")'
  BY <1>1, <1>3 DEF KeepInv, RequestForms, AppOpsApart, AuthorsInOrder, OneOf
<1>5. FlushForm'
  BY <1>1, <1>3 DEF KeepInv, FlushForm
<1> QED BY <1>1, <1>2, <1>3, <1>4, <1>5, FlushMoves

-----------------------------------------------------------------------------
(* What is stored is kept, step by step *)

LEMMA NothingYet ==
  /\ NoFlush \in FlushType /\ IsFiniteSet({})
  /\ <<>> \in Seq(OutboxEntry) /\ <<>> \in Seq(RequestType)
  /\ <<>> \in Seq([id : Ids \union {Foreign}, subject : Subjects])
<1>1. \A S : <<>> \in Seq(S)
  OBVIOUS
<1>2. NoFlush \in FlushType
  BY <1>1 DEF NoFlush, FlushType
<1> QED BY <1>1, <1>2, FS_EmptySet

LEMMA KeepStarts == Init => KeepInv
<1> SUFFICES ASSUME Init PROVE KeepInv
  OBVIOUS
<1>1. Range(mem) = {} /\ Requests = {} /\ Range(flush.batch) = {} /\ store = {} /\ Held = {}
  BY DEF Init, Range, Requests, NoFlush, Held
<1>2. TypeInv
  BY NothingYet DEF Init, TypeInv
<1>3. QueueInStampOrder /\ AppOpsApart /\ AuthorsInOrder /\ OneOf("flush")
  BY DEF Init, QueueInStampOrder, AppOpsApart, AuthorsInOrder, OneOf
<1>4. FlushForm
  BY <1>1 DEF Init, FlushForm, NoFlush
<1>5. /\ Unloaded /\ RequestForms /\ StampsApart /\ IdsAuthored /\ AuthorsBehind /\ RowsApart
      /\ DeletesAccounted /\ NoLostWrite
  BY <1>1 DEF Init, Unloaded, RequestForms, StampsApart, IdsAuthored, AuthorsBehind, RowsApart,
              DeletesAccounted, NoLostWrite
<1> QED BY <1>2, <1>3, <1>4, <1>5 DEF KeepInv

\* The queue that rehydrate() builds is the store in the order of the stamps.
LEMMA RehydratedIs ==
  ASSUME KeepInv, Rehydrate
  PROVE  mem' \in Seq(OutboxEntry) /\ Range(mem') = store /\ InOrder(mem')
<1> DEFINE stamps == {e.hlc : e \in store}
           c == Cardinality(stamps)
           a == Ascending(stamps)
           RowAt(n) == CHOOSE e \in store : e.hlc = n
           f == [e \in store |-> e.hlc]
<1>1. store \in SUBSET OutboxEntry /\ IsFiniteSet(store)
  BY DEF KeepInv, TypeInv
<1>2. stamps \in SUBSET Nat
  BY <1>1 DEF OutboxEntry
<1>3. IsFiniteSet(stamps)
  <2>1. f \in Surjection(store, stamps)
    BY DEF Surjection
  <2> HIDE DEF f, stamps
  <2> QED BY <1>1, <2>1, FS_Surjection
<1>4. \A n \in stamps : RowAt(n) \in store /\ RowAt(n).hlc = n
  OBVIOUS
<1>5. \A e \in store : e.hlc \in stamps /\ RowAt(e.hlc) = e
  <2> SUFFICES ASSUME NEW e \in store PROVE e.hlc \in stamps /\ RowAt(e.hlc) = e
    OBVIOUS
  <2>1. e.hlc \in stamps
    OBVIOUS
  <2> DEFINE g == RowAt(e.hlc)
  <2>2. g \in store /\ g.hlc = e.hlc
    BY <1>4, <2>1
  <2> HIDE DEF g
  <2>3. g \in Held /\ e \in Held
    BY <2>2 DEF Held
  <2>4. g.id = e.id
    BY <2>2, <2>3 DEF KeepInv, StampsApart
  <2>5. g = e
    BY <2>2, <2>4 DEF KeepInv, RowsApart
  <2> QED BY <2>1, <2>5 DEF g
<1>6. mem' = [k \in 1..c |-> RowAt(a[k])]
  BY DEF Rehydrate
<1> HIDE DEF stamps, RowAt
<1>7. /\ c \in Nat /\ a \in [1..c -> stamps]
      /\ \A i, j \in 1..c : i < j => a[i] < a[j]
      /\ \A n \in stamps : \E k \in 1..c : a[k] = n
  BY <1>2, <1>3, AscendingIs
<1> HIDE DEF c, a
<1>8. /\ DOMAIN mem' = 1..c
      /\ \A k \in 1..c : a[k] \in stamps /\ mem'[k] = RowAt(a[k]) /\ mem'[k] \in store /\ mem'[k].hlc = a[k]
  BY <1>4, <1>6, <1>7
<1>9. mem' \in Seq(OutboxEntry)
  <2>1. mem' \in [1..c -> OutboxEntry]
    BY <1>1, <1>6, <1>8
  <2> QED BY <1>7, <2>1
<1>10. InOrder(mem')
  BY <1>7, <1>8 DEF InOrder
<1>11. Range(mem') \subseteq store
  BY <1>8 DEF Range
<1>12. ASSUME NEW e \in store PROVE e \in Range(mem')
  <2>1. PICK k \in 1..c : a[k] = e.hlc
    BY <1>5, <1>7
  <2>2. mem'[k] = e /\ k \in DOMAIN mem'
    BY <1>5, <1>8, <2>1
  <2> QED BY <2>2, Zenon DEF Range
<1> QED BY <1>9, <1>10, <1>11, <1>12

LEMMA RehydrateKeeps == KeepInv /\ Rehydrate => KeepInv'
<1> SUFFICES ASSUME KeepInv, Rehydrate PROVE KeepInv'
  OBVIOUS
<1>1. /\ ops = <<>> /\ flush = NoFlush /\ mem = <<>> /\ loaded' = TRUE
      /\ ops' = ops /\ flush' = flush /\ store' = store /\ clock' = clock /\ log' = log
      /\ pass' = pass /\ sweep' = sweep /\ applied' = applied /\ cursor' = cursor
      /\ authored' = authored /\ dropped' = dropped /\ acked' = acked /\ rejected' = rejected
  BY DEF KeepInv, Unloaded, Rehydrate, session, server, history
<1>2. mem' \in Seq(OutboxEntry) /\ Range(mem') = store /\ InOrder(mem')
  BY RehydratedIs
<1>3. Requests = {} /\ Requests' = {} /\ Range(flush.batch) = {} /\ Range(flush'.batch) = {}
  BY <1>1 DEF Requests, Range, NoFlush
<1>4. TypeInv'
  BY <1>1, <1>2 DEF KeepInv, TypeInv
<1>5. Unloaded' /\ RequestForms'
  BY <1>1, <1>3 DEF Unloaded, RequestForms
<1>6. StampsApart'
  <2>1. Held' \subseteq Held
    BY <1>1, <1>2, <1>3 DEF Held
  <2> QED BY <1>1, <2>1 DEF KeepInv, StampsApart
<1>7. IdsAuthored' /\ AuthorsBehind'
  BY <1>1, <1>2, <1>3 DEF KeepInv, IdsAuthored, AuthorsBehind
<1>8. AppOpsApart' /\ AuthorsInOrder' /\ OneOf("flush")'
  BY <1>1 DEF KeepInv, AppOpsApart, AuthorsInOrder, OneOf
<1>9. QueueInStampOrder' /\ RowsApart'
  BY <1>1, <1>2 DEF KeepInv, RowsApart, QueueInStampOrder, InOrder
<1>10. FlushForm' /\ DeletesAccounted'
  BY <1>1, <1>3 DEF KeepInv, FlushForm, DeletesAccounted
<1>11. NoLostWrite'
  BY <1>1 DEF KeepInv, NoLostWrite, Committed
<1> QED BY <1>4, <1>5, <1>6, <1>7, <1>8, <1>9, <1>10, <1>11 DEF KeepInv

LEMMA ReloadKeeps == KeepInv /\ Reload => KeepInv'
<1> SUFFICES ASSUME KeepInv, Reload PROVE KeepInv'
  OBVIOUS
<1>1. /\ mem' = <<>> /\ loaded' = FALSE /\ ops' = <<>> /\ flush' = NoFlush
      /\ pass' = "off" /\ sweep' = <<>> /\ cursor' = 0
      /\ store' = store /\ clock' = clock /\ log' = log /\ applied' = applied
      /\ authored' = authored /\ dropped' = dropped /\ acked' = acked /\ rejected' = rejected
  BY DEF Reload, server
<1>2. Range(mem') = {} /\ Requests' = {} /\ Range(flush'.batch) = {}
  BY <1>1 DEF Requests, Range, NoFlush
<1>3. TypeInv'
  BY <1>1, NothingYet DEF KeepInv, TypeInv
<1>4. Unloaded' /\ RequestForms'
  BY <1>1, <1>2 DEF Unloaded, RequestForms
<1>5. StampsApart'
  <2>1. Held' \subseteq Held
    BY <1>1, <1>2 DEF Held
  <2> QED BY <1>1, <2>1 DEF KeepInv, StampsApart
<1>6. IdsAuthored' /\ AuthorsBehind'
  BY <1>1, <1>2 DEF KeepInv, IdsAuthored, AuthorsBehind
<1>7. AppOpsApart' /\ AuthorsInOrder' /\ OneOf("flush")' /\ QueueInStampOrder'
  BY <1>1 DEF AppOpsApart, AuthorsInOrder, OneOf, QueueInStampOrder
<1>8. RowsApart' /\ DeletesAccounted'
  BY <1>1, <1>2 DEF KeepInv, RowsApart, DeletesAccounted
<1>9. FlushForm'
  BY <1>1, <1>2 DEF FlushForm, NoFlush
<1>10. NoLostWrite'
  BY <1>1 DEF KeepInv, NoLostWrite, Committed
<1> QED BY <1>3, <1>4, <1>5, <1>6, <1>7, <1>8, <1>9, <1>10 DEF KeepInv

\* A request on what the buffer holds carries the stamp of the entry.
LEMMA HeldEntry ==
  ASSUME KeepInv, NEW id, NEW statuses, Buffered(mem, id, statuses)
  PROVE  /\ EntryOf(mem, id) \in OutboxEntry /\ EntryOf(mem, id) \in Range(mem)
         /\ EntryOf(mem, id).id = id /\ id \in authored
         /\ EntryOf(mem, id).status \in statuses
         /\ \A e \in Range(mem) : e.id = id => e = EntryOf(mem, id)
<1>1. mem \in Seq(OutboxEntry)
  BY DEF KeepInv, TypeInv
<1>2. EntryOf(mem, id) \in OutboxEntry /\ EntryOf(mem, id) \in Range(mem) /\ EntryOf(mem, id).id = id
  BY <1>1, EntryIs
<1>3. \A e \in Range(mem) : e.id = id => e = EntryOf(mem, id)
  BY <1>2, MemApart, Zenon
<1> QED BY <1>2, <1>3 DEF Buffered, KeepInv, IdsAuthored

LEMMA RequestIs ==
  ASSUME NEW row \in OutboxEntry, NEW id \in Ids,
         NEW by \in AppOps \union {"flush", "echo", "mark"}
  PROVE  /\ PutReq(row, by) \in RequestType /\ DeleteReq(row, by) \in RequestType
         /\ SwapReq(row, id, by) \in RequestType
         /\ PutReq(row, by).row = row /\ DeleteReq(row, by).row = row /\ SwapReq(row, id, by).row = row
         /\ PutReq(row, by).drop = row.id /\ DeleteReq(row, by).drop = row.id
         /\ SwapReq(row, id, by).drop = id
         /\ PutReq(row, by).by = by /\ DeleteReq(row, by).by = by /\ SwapReq(row, id, by).by = by
         /\ PutReq(row, by).op = "put" /\ DeleteReq(row, by).op = "delete"
         /\ SwapReq(row, id, by).op = "putAndDelete"
<1>1. row.id \in Ids
  BY DEF OutboxEntry
<1> QED BY <1>1 DEF PutReq, DeleteReq, SwapReq, RequestType

\* A request is one more in a queue of requests; the other types hold as before.
LEMMA IssueType ==
  ASSUME KeepInv, NEW r \in RequestType, ops' = Append(ops, r), clock' \in Nat,
         mem' \in Seq(OutboxEntry),
         UNCHANGED <<store, loaded, flush, pass, applied, cursor, log, authored, dropped,
                     acked, rejected>>
  PROVE  TypeInv'
<1>1. ops' \in Seq(RequestType)
  BY Pushed DEF KeepInv, TypeInv
<1> QED BY <1>1 DEF KeepInv, TypeInv

LEMMA EnqueueKeeps == KeepInv => \A id \in Ids : Enqueue(id) => KeepInv'
<1> SUFFICES ASSUME KeepInv, NEW id \in Ids, Enqueue(id) PROVE KeepInv'
  OBVIOUS
<1> DEFINE row == [id |-> id, status |-> "pending", hlc |-> clock + 1, basedOnGsn |-> cursor]
           r == PutReq(row, "enqueue")
<1>1. /\ loaded /\ id \notin authored /\ ~Busy(id) /\ clock' = clock + 1 /\ ops' = Append(ops, r)
      /\ mem' = mem /\ store' = store /\ loaded' = loaded /\ flush' = flush /\ log' = log
      /\ pass' = pass /\ sweep' = sweep /\ applied' = applied /\ cursor' = cursor
      /\ authored' = authored /\ dropped' = dropped /\ acked' = acked /\ rejected' = rejected
  BY DEF Enqueue, session, server, history
<1>2. clock \in Nat /\ cursor \in Nat /\ mem \in Seq(OutboxEntry)
  BY DEF KeepInv, TypeInv
<1>3. row \in OutboxEntry /\ row.id = id /\ row.status = "pending" /\ row.hlc = clock + 1
  BY <1>2 DEF OutboxEntry, OutboxStatus
<1> HIDE DEF row
<1>4. r \in RequestType /\ r.row = row /\ r.drop = id /\ r.op = "put" /\ r.by = "enqueue"
  BY <1>3, RequestIs DEF AppOps
<1> HIDE DEF r
<1>5. FormOf(r)
  BY <1>3, <1>4 DEF FormOf
<1>6. TypeInv' /\ Unloaded' /\ SameEntries
  BY <1>1, <1>2, <1>4, IssueType, SameMem DEF Unloaded
<1>7. \A f \in Held : f.id # id
  BY <1>1, FreshId
<1> QED BY <1>1, <1>3, <1>4, <1>5, <1>6, <1>7, IssueKeeps

LEMMA RetryKeeps == KeepInv => \A id \in Ids : Retry(id) => KeepInv'
<1> SUFFICES ASSUME KeepInv, NEW id \in Ids, Retry(id) PROVE KeepInv'
  OBVIOUS
<1> DEFINE e == EntryOf(mem, id)
           row == [e EXCEPT !.status = "pending"]
           r == PutReq(row, "retry")
<1>1. /\ loaded /\ ~Busy(id) /\ Buffered(mem, id, {"error"}) /\ clock' = clock /\ ops' = Append(ops, r)
      /\ mem' = mem /\ store' = store /\ loaded' = loaded /\ flush' = flush /\ log' = log
      /\ pass' = pass /\ sweep' = sweep /\ applied' = applied /\ cursor' = cursor
      /\ authored' = authored /\ dropped' = dropped /\ acked' = acked /\ rejected' = rejected
  BY DEF Retry, session, server, history
<1>2. clock \in Nat /\ mem \in Seq(OutboxEntry)
  BY DEF KeepInv, TypeInv
<1>3. e \in OutboxEntry /\ e \in Held /\ e.id = id /\ id \in authored
  BY <1>1, HeldEntry DEF Held
<1> HIDE DEF e
<1>4. row \in OutboxEntry /\ row.id = id /\ row.status = "pending" /\ Alike(row, e)
  BY <1>3 DEF OutboxEntry, OutboxStatus, Alike
<1> HIDE DEF row
<1>5. r \in RequestType /\ r.row = row /\ r.drop = id /\ r.op = "put" /\ r.by = "retry"
  BY <1>4, RequestIs DEF AppOps
<1> HIDE DEF r
<1>6. FormOf(r) /\ ~Authors(r)
  BY <1>4, <1>5 DEF FormOf, Authors
<1>7. TypeInv' /\ Unloaded' /\ SameEntries
  BY <1>1, <1>2, <1>5, IssueType, SameMem DEF Unloaded
<1> QED BY <1>1, <1>3, <1>4, <1>5, <1>6, <1>7, IssueKeeps

LEMMA ClearKeeps ==
  KeepInv => \A id \in Ids, status \in OutboxStatus : Clear(id, status) => KeepInv'
<1> SUFFICES ASSUME KeepInv, NEW id \in Ids, NEW status \in OutboxStatus, Clear(id, status) PROVE KeepInv'
  OBVIOUS
<1> DEFINE row == EntryOf(mem, id)
           r == DeleteReq(row, "clear")
<1>1. /\ loaded /\ ~Busy(id) /\ Buffered(mem, id, {status}) /\ clock' = clock /\ ops' = Append(ops, r)
      /\ mem' = mem /\ store' = store /\ loaded' = loaded /\ flush' = flush /\ log' = log
      /\ pass' = pass /\ sweep' = sweep /\ applied' = applied /\ cursor' = cursor
      /\ authored' = authored /\ dropped' = dropped /\ acked' = acked /\ rejected' = rejected
  BY DEF Clear, session, server, history
<1>2. clock \in Nat /\ mem \in Seq(OutboxEntry)
  BY DEF KeepInv, TypeInv
<1>3. row \in OutboxEntry /\ row \in Held /\ row.id = id /\ id \in authored /\ Alike(row, row)
  BY <1>1, HeldEntry DEF Held, Alike
<1> HIDE DEF row
<1>4. r \in RequestType /\ r.row = row /\ r.drop = id /\ r.op = "delete" /\ r.by = "clear"
  BY <1>3, RequestIs DEF AppOps
<1> HIDE DEF r
<1>5. FormOf(r) /\ ~Authors(r)
  BY <1>3, <1>4 DEF FormOf, Authors
<1>6. TypeInv' /\ Unloaded' /\ SameEntries
  BY <1>1, <1>2, <1>4, IssueType, SameMem DEF Unloaded
<1> QED BY <1>1, <1>3, <1>4, <1>5, <1>6, IssueKeeps

LEMMA RetryConflictedKeeps == KeepInv => \A id, new \in Ids : RetryConflicted(id, new) => KeepInv'
<1> SUFFICES ASSUME KeepInv, NEW id \in Ids, NEW new \in Ids, RetryConflicted(id, new) PROVE KeepInv'
  OBVIOUS
<1> DEFINE row == [id |-> new, status |-> "pending", hlc |-> clock + 1, basedOnGsn |-> cursor]
           r == SwapReq(row, id, "retryConflicted")
<1>1. /\ loaded /\ ~Busy(id) /\ Buffered(mem, id, {"conflicted"})
      /\ new \notin authored /\ ~Busy(new) /\ clock' = clock + 1 /\ ops' = Append(ops, r)
      /\ mem' = mem /\ store' = store /\ loaded' = loaded /\ flush' = flush /\ log' = log
      /\ pass' = pass /\ sweep' = sweep /\ applied' = applied /\ cursor' = cursor
      /\ authored' = authored /\ dropped' = dropped /\ acked' = acked /\ rejected' = rejected
  BY DEF RetryConflicted, session, server, history
<1>2. clock \in Nat /\ cursor \in Nat /\ mem \in Seq(OutboxEntry)
  BY DEF KeepInv, TypeInv
<1>3. row \in OutboxEntry /\ row.id = new /\ row.status = "pending" /\ row.hlc = clock + 1
  BY <1>2 DEF OutboxEntry, OutboxStatus
<1> HIDE DEF row
<1>4. r \in RequestType /\ r.row = row /\ r.drop = id /\ r.op = "putAndDelete" /\ r.by = "retryConflicted"
  BY <1>3, RequestIs DEF AppOps
<1> HIDE DEF r
<1>5. FormOf(r)
  BY <1>3, <1>4 DEF FormOf
<1>6. TypeInv' /\ Unloaded' /\ SameEntries
  BY <1>1, <1>2, <1>4, IssueType, SameMem DEF Unloaded
<1>7. \A f \in Held : f.id # new
  BY <1>1, FreshId
<1>8. id \in authored
  BY <1>1, HeldEntry
<1> QED BY <1>1, <1>3, <1>4, <1>5, <1>6, <1>7, <1>8, IssueKeeps

\* A request that completes is one less in the queue; the other types hold as before.
LEMMA CompleteType ==
  ASSUME KeepInv, ops # <<>>, ops' = Tail(ops), mem' \in Seq(OutboxEntry),
         store' = store \/ store' = StoreAfter(Head(ops)),
         authored' = authored \/ authored' = authored \union {Head(ops).row.id},
         dropped' \in SUBSET authored', pass' \in {"off", "draining", "saving", "sweeping"},
         applied' \in Nat, cursor' \in Nat,
         UNCHANGED <<loaded, flush, clock, log, acked, rejected>>
  PROVE  TypeInv' /\ Unloaded'
<1>1. ops' \in Seq(RequestType) /\ Head(ops) \in RequestType
  BY Popped DEF KeepInv, TypeInv
<1>2. Head(ops).row.id \in Ids
  BY <1>1 DEF RequestType, OutboxEntry
<1>3. store' \in SUBSET OutboxEntry /\ IsFiniteSet(store')
  BY <1>1, StoreAfterIs DEF KeepInv, TypeInv
<1>4. TypeInv'
  BY <1>1, <1>2, <1>3 DEF KeepInv, TypeInv
<1>5. loaded /\ loaded' = loaded
  BY DEF KeepInv, Unloaded
<1> QED BY <1>4, <1>5 DEF Unloaded

\* The request at the head of the queue, and what is known of it.
LEMMA HeadIs ==
  ASSUME KeepInv, ops # <<>>
  PROVE  /\ Head(ops) \in RequestType /\ Head(ops) \in Requests /\ FormOf(Head(ops))
         /\ Head(ops).row \in OutboxEntry /\ Head(ops).row.id \in Ids /\ Head(ops).drop \in Ids
         /\ Head(ops).by # "enqueue" => Head(ops).drop \in authored
<1>1. ops \in Seq(RequestType)
  BY DEF KeepInv, TypeInv
<1>2. Head(ops) = ops[1] /\ 1 \in DOMAIN ops /\ Head(ops) \in RequestType
  BY <1>1
<1>3. Head(ops) \in Requests
  BY <1>2, Zenon DEF Requests, Range
<1> QED BY <1>2, <1>3 DEF KeepInv, RequestForms, IdsAuthored, RequestType, OutboxEntry

LEMMA EnqueueStoredKeeps == KeepInv /\ EnqueueStored => KeepInv'
<1> SUFFICES ASSUME KeepInv, EnqueueStored PROVE KeepInv'
  OBVIOUS
<1> DEFINE h == Head(ops)
<1>1. /\ ops # <<>> /\ h.by = "enqueue" /\ ops' = Tail(ops)
      /\ loaded' = loaded /\ flush' = flush /\ clock' = clock /\ log' = log
      /\ pass' = pass /\ sweep' = sweep /\ applied' = applied /\ cursor' = cursor
      /\ dropped' = dropped /\ acked' = acked /\ rejected' = rejected
      /\ \/ store' = StoreAfter(h) /\ mem' = Append(mem, h.row) /\ authored' = authored \union {h.row.id}
         \/ store' = store /\ mem' = mem /\ authored' = authored
  BY DEF EnqueueStored, Completes, Fails, session, server
<1>2. h \in Requests /\ h.row \in OutboxEntry
  BY <1>1, HeadIs
<1>3. mem \in Seq(OutboxEntry) /\ InOrder(mem) /\ TypeInv
  BY DEF KeepInv, TypeInv, QueueInStampOrder, InOrder
<1>4. Settles(h)
  BY <1>1 DEF Settles, Authors, Drops
<1>5. mem' \in Seq(OutboxEntry) /\ InOrder(mem')
      /\ (mem' = mem \/ (Range(mem') = Range(mem) \union {h.row} /\ h.row.id \in authored'))
  <2>1. \A e \in Range(mem) : e.hlc < h.row.hlc
    BY <1>1, <1>2 DEF KeepInv, AuthorsBehind, Authors
  <2> HIDE DEF h
  <2>2. /\ Append(mem, h.row) \in Seq(OutboxEntry) /\ InOrder(Append(mem, h.row))
        /\ Range(Append(mem, h.row)) = Range(mem) \union {h.row}
    BY <1>2, <1>3, <2>1, AppendOrder, RangeAppend
  <2> QED BY <1>1, <1>3, <2>2
<1>6. TypeInv' /\ Unloaded'
  BY <1>1, <1>3, <1>5, CompleteType DEF TypeInv
<1>7. \A e \in Range(mem') : \/ \E f \in Range(mem) : Alike(e, f)
                             \/ e = h.row /\ Authors(h) /\ e.id \in authored'
  BY <1>1, <1>5 DEF Alike, Authors
<1>8. \A f \in Range(mem) : \E e \in Range(mem') : e.id = f.id
  BY <1>5
<1> QED BY <1>1, <1>4, <1>5, <1>6, <1>7, <1>8, CompleteKeeps

LEMMA RetryStoredKeeps == KeepInv /\ RetryStored => KeepInv'
<1> SUFFICES ASSUME KeepInv, RetryStored PROVE KeepInv'
  OBVIOUS
<1> DEFINE h == Head(ops)
<1>1. /\ ops # <<>> /\ h.by = "retry" /\ ops' = Tail(ops)
      /\ loaded' = loaded /\ flush' = flush /\ clock' = clock /\ log' = log
      /\ pass' = pass /\ sweep' = sweep /\ applied' = applied /\ cursor' = cursor
      /\ authored' = authored /\ dropped' = dropped /\ acked' = acked /\ rejected' = rejected
      /\ store' \in {store, StoreAfter(h)} /\ mem' \in {mem, WithStatus(mem, h.row.id, "pending")}
  BY DEF RetryStored, Completes, Fails, session, server, history
<1>2. mem \in Seq(OutboxEntry) /\ InOrder(mem) /\ TypeInv
  BY DEF KeepInv, TypeInv, QueueInStampOrder, InOrder
<1>3. Settles(h)
  BY <1>1 DEF Settles, Authors, Drops
<1> HIDE DEF h
<1>4. SameEntries
  BY <1>1, <1>2, WithStatusIs DEF SameEntries, OutboxStatus, Alike
<1>5. TypeInv' /\ Unloaded'
  BY <1>1, <1>2, <1>4, CompleteType DEF TypeInv, SameEntries, h
<1> QED BY <1>1, <1>3, <1>4, <1>5, CompleteKeeps DEF SameEntries, Alike, h

LEMMA ClearStoredKeeps == KeepInv /\ ClearStored => KeepInv'
<1> SUFFICES ASSUME KeepInv, ClearStored PROVE KeepInv'
  OBVIOUS
<1> DEFINE h == Head(ops)
<1>1. /\ ops # <<>> /\ h.by = "clear" /\ ops' = Tail(ops)
      /\ loaded' = loaded /\ flush' = flush /\ clock' = clock /\ log' = log
      /\ pass' = pass /\ sweep' = sweep /\ applied' = applied /\ cursor' = cursor
      /\ authored' = authored /\ acked' = acked /\ rejected' = rejected
      /\ \/ store' = StoreAfter(h) /\ mem' = Filtered(mem, h.drop) /\ dropped' = dropped \union {h.drop}
         \/ store' = store /\ mem' = mem /\ dropped' = dropped
  BY DEF ClearStored, Completes, Fails, session, server
<1>2. mem \in Seq(OutboxEntry) /\ InOrder(mem) /\ TypeInv /\ h.drop \in authored
  BY <1>1, HeadIs DEF KeepInv, TypeInv, QueueInStampOrder, InOrder
<1>3. Settles(h)
  BY <1>1 DEF Settles, Authors, Drops
<1> HIDE DEF h
<1>4. /\ mem' \in Seq(OutboxEntry) /\ InOrder(mem') /\ Range(mem') \subseteq Range(mem)
      /\ \A f \in Range(mem) : f \in Range(mem') \/ f.id \in Gone'
  BY <1>1, <1>2, FilteredIs DEF Gone
<1>5. TypeInv' /\ Unloaded'
  BY <1>1, <1>2, <1>4, CompleteType DEF TypeInv, h
<1> QED BY <1>1, <1>3, <1>4, <1>5, CompleteKeeps DEF Alike, h

LEMMA RetryConflictedStoredKeeps == KeepInv /\ RetryConflictedStored => KeepInv'
<1> SUFFICES ASSUME KeepInv, RetryConflictedStored PROVE KeepInv'
  OBVIOUS
<1> DEFINE h == Head(ops)
           q == Filtered(mem, h.drop)
<1>1. /\ ops # <<>> /\ h.by = "retryConflicted" /\ ops' = Tail(ops)
      /\ loaded' = loaded /\ flush' = flush /\ clock' = clock /\ log' = log
      /\ pass' = pass /\ sweep' = sweep /\ applied' = applied /\ cursor' = cursor
      /\ acked' = acked /\ rejected' = rejected
      /\ \/ /\ store' = StoreAfter(h) /\ mem' = Append(q, h.row)
            /\ authored' = authored \union {h.row.id} /\ dropped' = dropped \union {h.drop}
         \/ store' = store /\ mem' = mem /\ dropped' = dropped /\ authored' = authored
  BY DEF RetryConflictedStored, Completes, Fails, session, server
<1>2. mem \in Seq(OutboxEntry) /\ InOrder(mem) /\ TypeInv /\ h.drop \in authored
  BY <1>1, HeadIs DEF KeepInv, TypeInv, QueueInStampOrder, InOrder
<1>3. Settles(h) /\ Authors(h)
  BY <1>1 DEF Settles, Authors, Drops
<1>4. h \in Requests /\ h.row \in OutboxEntry
  BY <1>1, HeadIs
<1> HIDE DEF h
<1>5. q \in Seq(OutboxEntry) /\ Range(q) = {e \in Range(mem) : e.id # h.drop} /\ InOrder(q)
  BY <1>2, FilteredIs
<1> HIDE DEF q
<1>6. \A e \in Range(q) : e.hlc < h.row.hlc
  BY <1>3, <1>4, <1>5 DEF KeepInv, AuthorsBehind
<1>7. /\ Append(q, h.row) \in Seq(OutboxEntry) /\ InOrder(Append(q, h.row))
      /\ Range(Append(q, h.row)) = Range(q) \union {h.row}
  BY <1>4, <1>5, <1>6, AppendOrder, RangeAppend
<1>8. /\ mem' \in Seq(OutboxEntry) /\ InOrder(mem')
      /\ \A e \in Range(mem') : e \in Range(mem) \/ (e = h.row /\ e.id \in authored')
      /\ \A f \in Range(mem) : f \in Range(mem') \/ f.id \in Gone'
  BY <1>1, <1>2, <1>5, <1>7 DEF Gone
<1>9. TypeInv' /\ Unloaded'
  BY <1>1, <1>2, <1>8, CompleteType DEF TypeInv, h
<1> QED BY <1>1, <1>3, <1>8, <1>9, CompleteKeeps DEF Alike, h

LEMMA MatchEchoStoredKeeps == KeepInv /\ MatchEchoStored => KeepInv'
<1> SUFFICES ASSUME KeepInv, MatchEchoStored PROVE KeepInv'
  OBVIOUS
<1> DEFINE h == Head(ops)
<1>1. /\ ops # <<>> /\ h.by = "echo" /\ ops' = Tail(ops)
      /\ loaded' = loaded /\ flush' = flush /\ clock' = clock /\ log' = log
      /\ pass' = pass /\ sweep' = sweep /\ applied' = applied + 1 /\ cursor' \in {cursor, applied + 1}
      /\ authored' = authored /\ acked' = acked /\ rejected' = rejected /\ dropped' = dropped
      /\ store' \in {store, StoreAfter(h)} /\ mem' \in {mem, Filtered(mem, h.drop)}
  BY DEF MatchEchoStored, Completes, Fails, Received, server, history
<1>2. mem \in Seq(OutboxEntry) /\ InOrder(mem) /\ TypeInv
  BY DEF KeepInv, TypeInv, QueueInStampOrder, InOrder
<1>3. Settles(h)
  BY <1>1 DEF Settles, Authors, Drops
<1>4. h.drop \in Gone'
  <2>1. h \in Requests /\ FormOf(h)
    BY <1>1, HeadIs
  <2>2. h.drop \in Gone
    BY <1>1, <2>1 DEF FormOf, KeepInv, DeletesAccounted
  <2> QED BY <1>1, <2>2 DEF Gone, Committed
<1> HIDE DEF h
<1>5. /\ mem' \in Seq(OutboxEntry) /\ InOrder(mem') /\ Range(mem') \subseteq Range(mem)
      /\ \A f \in Range(mem) : f \in Range(mem') \/ f.id \in Gone'
  BY <1>1, <1>2, <1>4, FilteredIs
<1>6. applied' \in Nat /\ cursor' \in Nat
  BY <1>1 DEF KeepInv, TypeInv
<1>7. TypeInv' /\ Unloaded'
  BY <1>1, <1>2, <1>5, <1>6, CompleteType DEF TypeInv, h
<1> QED BY <1>1, <1>3, <1>5, <1>7, CompleteKeeps DEF Alike, h

LEMMA MarkStoredKeeps == KeepInv /\ MarkStored => KeepInv'
<1> SUFFICES ASSUME KeepInv, MarkStored PROVE KeepInv'
  OBVIOUS
<1> DEFINE h == Head(ops)
<1>1. /\ ops # <<>> /\ h.by = "mark" /\ ops' = Tail(ops)
      /\ mem' = mem /\ loaded' = loaded /\ flush' = flush /\ clock' = clock /\ log' = log
      /\ pass' \in {"off", "sweeping"} /\ sweep' = Tail(sweep) /\ applied' = applied /\ cursor' = cursor
      /\ authored' = authored /\ acked' = acked /\ rejected' = rejected /\ dropped' = dropped
      /\ store' \in {store, StoreAfter(h)}
  BY DEF MarkStored, Completes, Fails, Swept, server, history
<1>2. mem \in Seq(OutboxEntry) /\ InOrder(mem) /\ TypeInv
  BY DEF KeepInv, TypeInv, QueueInStampOrder, InOrder
<1>3. Settles(h)
  BY <1>1 DEF Settles, Authors, Drops
<1>4. TypeInv' /\ Unloaded'
  BY <1>1, <1>2, CompleteType DEF TypeInv
<1> QED BY <1>1, <1>2, <1>3, <1>4, CompleteKeeps DEF Alike

-----------------------------------------------------------------------------
(* The flush *)

\* The flush that stores what was answered of batch entry j, and the request that does.
StoringAt(j, refused) == [flush EXCEPT !.phase = "storing", !.at = j, !.refused = refused]
AnswerPut(j, refused) ==
  PutReq([flush.batch[j] EXCEPT !.status = StatusFor(flush.batch[j].id, refused)], "flush")

\* Where the persist loop goes on: at a batch entry that is still pending, or nowhere.
GoesOn(k, q, refused, r) ==
  \/ flush' = NoFlush /\ ops' = r
  \/ \E j \in DOMAIN flush.batch :
       /\ j >= k /\ Buffered(q, flush.batch[j].id, {"pending"})
       /\ flush' = StoringAt(j, refused)
       /\ ops' = Append(r, AnswerPut(j, refused))
LEMMA FlushGoes ==
  ASSUME TypeInv, NEW k \in Nat, k >= 1, NEW q \in Seq(OutboxEntry), NEW refused \in SUBSET Ids,
         NEW r, FlushFrom(k, q, refused, r)
  PROVE  GoesOn(k, q, refused, r)
<1> DEFINE n == Len(flush.batch)
           live == {j \in k..n : Buffered(q, flush.batch[j].id, {"pending"})}
           least == CHOOSE j \in live : \A i \in live : j <= i
<1>1. flush.batch \in Seq(OutboxEntry)
  BY DEF TypeInv, FlushType
<1>2. n \in Nat /\ DOMAIN flush.batch = 1..n
  BY <1>1
<1>3. live \in SUBSET Nat
  BY <1>2
<1>4. NextLive(k, q) = IF live = {} THEN n + 1 ELSE least
  BY Zenon DEF NextLive
<1>5. CASE live = {}
  <2>1. NextLive(k, q) = n + 1
    BY <1>4, <1>5
  <2>2. NextLive(k, q) > n
    BY <1>2, <2>1
  <2> QED BY <2>2 DEF FlushFrom, GoesOn
<1>6. CASE live # {}
  <2> HIDE DEF live
  <2>1. \E j \in live : \A i \in live : j <= i
    BY <1>3, <1>6, LeastIn, Zenon
  <2>2. least \in live
    BY <2>1
  <2> HIDE DEF least
  <2>3. least \in k..n /\ Buffered(q, flush.batch[least].id, {"pending"})
    BY <2>2 DEF live
  <2>4. least \in DOMAIN flush.batch /\ least >= k /\ ~(least > n)
    BY <1>2, <2>3
  <2>5. NextLive(k, q) = least
    BY <1>4, <1>6
  <2> QED BY <2>3, <2>4, <2>5 DEF FlushFrom, GoesOn, StoringAt, AnswerPut
<1> QED BY <1>5, <1>6

\* The put for batch entry j: its stamp is the entry's, its status what was answered.
LEMMA FlushPutIs ==
  ASSUME TypeInv, NEW j \in DOMAIN flush.batch, NEW refused \in SUBSET Ids,
         NEW r, r = AnswerPut(j, refused)
  PROVE  /\ r \in RequestType /\ r.by = "flush" /\ r.op = "put" /\ r.drop = r.row.id /\ FormOf(r)
         /\ Alike(r.row, flush.batch[j]) /\ r.row.status \in {"acknowledged", "error"}
         /\ r.row.status = "error" => r.row.id \in refused
         /\ flush.batch[j] \in Range(flush.batch) /\ flush.batch[j] \in OutboxEntry
<1> DEFINE e == flush.batch[j]
           row == [e EXCEPT !.status = StatusFor(e.id, refused)]
<1>1. e \in OutboxEntry /\ e \in Range(flush.batch)
  BY DEF TypeInv, FlushType, Range
<1> HIDE DEF e
<1>2. /\ row \in OutboxEntry /\ Alike(row, e) /\ row.status \in {"acknowledged", "error"}
      /\ row.status = "error" => row.id \in refused
  BY <1>1 DEF OutboxEntry, OutboxStatus, StatusFor, Alike
<1>3. r = PutReq(row, "flush")
  BY DEF e, AnswerPut
<1> HIDE DEF row
<1>4. r \in RequestType /\ r.row = row /\ r.drop = row.id /\ r.by = "flush" /\ r.op = "put"
  <2>1. row.id \in Ids
    BY <1>2 DEF OutboxEntry
  <2> QED BY <1>2, <1>3, <2>1, RequestIs
<1>5. FormOf(r)
  BY <1>4 DEF FormOf
<1> QED BY <1>1, <1>2, <1>4, <1>5 DEF e

\* The flush record with a new place in the batch.
LEMMA FlushAt ==
  ASSUME TypeInv, NEW j \in DOMAIN flush.batch, NEW refused \in SUBSET Ids,
         flush' = StoringAt(j, refused)
  PROVE  /\ flush' \in FlushType /\ flush'.phase = "storing" /\ flush'.at = j
         /\ flush'.refused = refused /\ flush'.batch = flush.batch
<1>1. j \in Nat
  BY DEF TypeInv, FlushType
<1> QED BY <1>1 DEF TypeInv, FlushType, StoringAt

\* A store of the flush, or the answer of the server: q is the queue of requests that is left.
LEMMA FlushFromKeeps ==
  ASSUME KeepInv, flush.phase # "idle", loaded, loaded' = loaded, SameEntries,
         UNCHANGED <<clock, authored, dropped, pass, applied>>, cursor' = cursor,
         acked' \in SUBSET authored, rejected \subseteq rejected', rejected' \in SUBSET Ids,
         log' \in Seq([id : Ids \union {Foreign}, subject : Subjects]), Committed \subseteq Committed',
         NEW k \in Nat, k >= 1, NEW refused \in SUBSET rejected',
         \/ store' = store /\ flush.phase = "submitting" /\ FlushFrom(k, mem', refused, ops)
         \/ ops # <<>> /\ Head(ops).by = "flush" /\ store' \in {store, StoreAfter(Head(ops))}
            /\ FlushFrom(k, mem', refused, Tail(ops))
  PROVE  KeepInv'
<1>1. TypeInv /\ ops \in Seq(RequestType) /\ store \in SUBSET OutboxEntry /\ OneOf("flush") /\ FlushForm
  BY DEF KeepInv, TypeInv
<1> DEFINE q == IF flush.phase = "submitting" /\ store' = store /\ FlushFrom(k, mem', refused, ops)
                THEN ops ELSE Tail(ops)
<1>2. /\ FlushFrom(k, mem', refused, q)
      /\ \/ q = ops /\ flush.phase = "submitting" /\ store' = store
         \/ /\ q = Tail(ops) /\ ops # <<>> /\ Head(ops).by = "flush"
            /\ store' \in {store, StoreAfter(Head(ops))}
  OBVIOUS
<1> HIDE DEF q
<1>3. mem' \in Seq(OutboxEntry) /\ refused \in SUBSET Ids
  BY DEF SameEntries
<1>4. store' \in SUBSET OutboxEntry /\ IsFiniteSet(store')
  <2>1. ops # <<>> => Head(ops) \in RequestType
    BY <1>1
  <2> QED BY <1>1, <1>2, <2>1, StoreAfterIs DEF TypeInv
<1>5. store' = store \/ (ops # <<>> /\ Head(ops).by = "flush" /\ store' = StoreAfter(Head(ops)))
  BY <1>2
<1>6. Unloaded'
  BY DEF Unloaded
\* Without the request that completed, no request of the flush is left.
<1>7. \A r \in Range(q) : r \in Requests /\ r.by # "flush"
  <2>1. CASE q = ops /\ flush.phase = "submitting"
    BY <1>1, <2>1 DEF Requests, FlushForm
  <2>2. CASE q = Tail(ops) /\ ops # <<>> /\ Head(ops).by = "flush"
    <3>1. /\ q \in Seq(RequestType) /\ Head(ops) = ops[1] /\ 1 \in DOMAIN ops
          /\ \A i \in DOMAIN q : i \in Nat /\ i + 1 \in DOMAIN ops /\ q[i] = ops[i + 1]
      BY <1>1, <2>2, TailOf
    <3>2. \A i \in DOMAIN q : i + 1 # 1
      BY <3>1
    <3>3. \A i \in DOMAIN q : q[i] \in Requests /\ q[i].by # "flush"
      BY <1>1, <2>2, <3>1, <3>2 DEF OneOf, Requests, Range
    <3> QED BY <3>3, Zenon DEF Range
  <2> QED BY <1>2, <2>1, <2>2
<1>8. CASE flush' = NoFlush /\ ops' = q
  <2>1. TypeInv'
    <3>1. ops' \in Seq(RequestType)
      BY <1>1, <1>2, <1>8, TailOf
    <3> QED BY <1>1, <1>3, <1>4, <1>8, <3>1, NothingYet DEF TypeInv
  <2>2. RequestForms' /\ AppOpsApart' /\ AuthorsInOrder' /\ OneOf("flush")'
    <3>1. CASE ops' = ops
      BY <3>1 DEF KeepInv, RequestForms, AppOpsApart, AuthorsInOrder, OneOf, Requests
    <3>2. CASE ops' = Tail(ops) /\ ops # <<>>
      BY <1>1, <3>2, PoppedKeeps DEF KeepInv
    <3> QED BY <1>2, <1>8, <3>1, <3>2
  <2>3. Range(flush'.batch) = {} /\ Requests' = Range(q)
    BY <1>8 DEF Range, NoFlush, Requests
  <2>4. FlushForm'
    BY <1>7, <1>8, <2>3 DEF FlushForm, NoFlush
  <2> QED BY <1>5, <1>6, <1>7, <2>1, <2>2, <2>3, <2>4, FlushMoves
<1>9. ASSUME NEW j \in DOMAIN flush.batch, NEW r,
             r = AnswerPut(j, refused),
             flush' = StoringAt(j, refused),
             ops' = Append(q, r)
      PROVE  KeepInv'
  <2>1. /\ r \in RequestType /\ r.by = "flush" /\ r.op = "put" /\ r.drop = r.row.id /\ FormOf(r)
        /\ Alike(r.row, flush.batch[j]) /\ r.row.status \in {"acknowledged", "error"}
        /\ r.row.status = "error" => r.row.id \in refused
        /\ flush.batch[j] \in Range(flush.batch)
    BY <1>1, <1>3, <1>9, FlushPutIs
  <2>2. /\ flush' \in FlushType /\ flush'.phase = "storing" /\ flush'.at = j
        /\ flush'.refused = refused /\ flush'.batch = flush.batch
    BY <1>1, <1>3, <1>9, FlushAt
  <2>3. ops' \in Seq(RequestType) /\ \A s \in Requests' : s \in Range(q) \/ s = r
    <3>1. q \in Seq(RequestType)
      BY <1>1, <1>2, TailOf
    <3>2. /\ Append(q, r) \in Seq(RequestType)
          /\ Range(Append(q, r)) = Range(q) \union {r}
      BY <2>1, <3>1, RangeAppend
    <3> QED BY <1>9, <3>2 DEF Requests
  <2>4. TypeInv'
    BY <1>1, <1>3, <1>4, <2>2, <2>3 DEF TypeInv
  <2>5. RequestForms' /\ AppOpsApart' /\ AuthorsInOrder' /\ OneOf("flush")'
    <3>1. CASE q = ops /\ flush.phase = "submitting"
      <4>1. \A s \in Requests : s.by # "flush"
        BY <1>1, <3>1 DEF FlushForm
      <4>2. r.by \notin AppOps /\ ~Authors(r)
        BY <2>1 DEF AppOps, Authors
      <4> QED BY <1>1, <1>9, <2>1, <3>1, <4>1, <4>2, PushedKeeps DEF KeepInv
    <3>2. CASE q = Tail(ops) /\ ops # <<>> /\ Head(ops).by = "flush"
      BY <1>1, <1>9, <2>1, <3>2, TurnedKeeps DEF KeepInv
    <3> QED BY <1>2, <3>1, <3>2
  <2>6. FlushForm'
    <3>1. \A s \in Requests' : s.by = "flush" => s = r
      BY <1>7, <2>3
    <3>2. \A i, m \in DOMAIN flush.batch : flush.batch[i].id = flush.batch[m].id => i = m
      BY <1>1 DEF FlushForm
    <3>3. r.row.id = flush.batch[j].id
      BY <2>1 DEF Alike
    <3> QED BY <2>1, <2>2, <3>1, <3>2, <3>3 DEF FlushForm
  <2> QED BY <1>5, <1>6, <1>7, <2>1, <2>2, <2>3, <2>4, <2>5, <2>6, FlushMoves
<1>10. \/ flush' = NoFlush /\ ops' = q
       \/ \E j \in DOMAIN flush.batch :
            /\ flush' = StoringAt(j, refused)
            /\ ops' = Append(q, AnswerPut(j, refused))
  <2>1. GoesOn(k, mem', refused, q)
    BY <1>1, <1>2, <1>3, FlushGoes
  <2> QED BY <2>1, Zenon DEF GoesOn
<1> QED BY <1>8, <1>9, <1>10, Zenon

LEMMA StartFlushKeeps == KeepInv /\ StartFlush => KeepInv'
<1> SUFFICES ASSUME KeepInv, StartFlush PROVE KeepInv'
  OBVIOUS
<1>1. /\ flush.phase = "idle" /\ flush' = [NoFlush EXCEPT !.phase = "submitting", !.batch = Pending]
      /\ mem' = mem /\ store' = store /\ loaded /\ loaded' = loaded /\ ops' = ops
      /\ clock' = clock /\ log' = log /\ pass' = pass /\ applied' = applied /\ cursor' = cursor
      /\ authored' = authored /\ dropped' = dropped /\ acked' = acked /\ rejected' = rejected
  BY DEF StartFlush, session, server, history
<1>2. mem \in Seq(OutboxEntry) /\ InOrder(mem) /\ StampsApart /\ FlushForm
  BY DEF KeepInv, TypeInv, QueueInStampOrder, InOrder
<1>3. Pending \in Seq(OutboxEntry) /\ Range(Pending) \subseteq Range(mem) /\ InOrder(Pending)
  BY <1>2, PendingIs
<1>4. \A i, j \in DOMAIN Pending : Pending[i].id = Pending[j].id => i = j
  <2>1. Range(Pending) \subseteq Held
    BY <1>3 DEF Held
  <2> HIDE DEF Held
  <2> QED BY <1>2, <1>3, <2>1, OrderedApart
<1>5. flush' \in FlushType /\ flush'.batch = Pending /\ flush'.refused = {} /\ flush'.phase = "submitting"
  BY <1>1, <1>3 DEF FlushType, NoFlush
<1>6. TypeInv' /\ Unloaded' /\ SameEntries
  BY <1>1, <1>5, SameMem DEF KeepInv, TypeInv, Unloaded
<1>7. Requests' = Requests /\ \A r \in Requests : r.by # "flush"
  BY <1>1, <1>2 DEF Requests, FlushForm
<1>8. RequestForms' /\ AppOpsApart' /\ AuthorsInOrder' /\ OneOf("flush")'
  BY <1>1, <1>7 DEF KeepInv, RequestForms, AppOpsApart, AuthorsInOrder, OneOf
<1>9. FlushForm'
  BY <1>4, <1>5, <1>7 DEF FlushForm
<1>10. Committed' = Committed
  BY <1>1 DEF Committed
<1> QED BY <1>1, <1>3, <1>5, <1>6, <1>7, <1>8, <1>9, <1>10, FlushMoves

LEMMA AnsweredKeeps == KeepInv => \A refused \in SUBSET Ids : Answered(refused) => KeepInv'
<1> SUFFICES ASSUME KeepInv, NEW refused \in SUBSET Ids, Answered(refused) PROVE KeepInv'
  OBVIOUS
<1>1. /\ flush.phase = "submitting" /\ rejected' = rejected \union refused
      /\ FlushFrom(1, mem, refused, ops) /\ CommitBatch(refused)
      /\ mem' = mem /\ store' = store /\ loaded' = loaded /\ clock' = clock
      /\ pass' = pass /\ applied' = applied /\ cursor' = cursor
      /\ authored' = authored /\ dropped' = dropped /\ acked' = acked
  BY DEF Answered, session
<1>2. TypeInv
  BY DEF KeepInv
<1>3. log' \in Seq([id : Ids \union {Foreign}, subject : Subjects]) /\ Committed \subseteq Committed'
  BY <1>1, <1>2, CommitBatchIs
<1>4. loaded
  BY <1>1 DEF KeepInv, Unloaded, NoFlush
<1>5. SameEntries
  BY <1>1, SameMem
<1>6. /\ acked' \in SUBSET authored /\ rejected \subseteq rejected' /\ rejected' \in SUBSET Ids
      /\ refused \in SUBSET rejected' /\ flush.phase # "idle" /\ FlushFrom(1, mem', refused, ops)
  BY <1>1, <1>2 DEF TypeInv
<1> QED BY <1>1, <1>3, <1>4, <1>5, <1>6, FlushFromKeeps

\* The flush ends, and with it its batch.
LEMMA FlushEnds ==
  ASSUME KeepInv, flush' = NoFlush, loaded' = loaded, \A r \in Requests' : r.by # "flush",
         UNCHANGED <<mem, store, clock, authored, dropped, acked, rejected, pass, sweep, applied,
                     cursor>>,
         log' \in Seq([id : Ids \union {Foreign}, subject : Subjects]), Committed \subseteq Committed',
         ops' = ops \/ (ops # <<>> /\ ops' = Tail(ops))
  PROVE  KeepInv'
<1>1. TypeInv /\ ops \in Seq(RequestType)
  BY DEF KeepInv, TypeInv
<1>2. ops' \in Seq(RequestType) /\ Requests' \subseteq Requests
  BY <1>1, Popped DEF Requests
<1>3. TypeInv'
  BY <1>1, <1>2, NothingYet DEF TypeInv
<1>4. Unloaded'
  <2>1. ops = <<>> => ops' = <<>>
    OBVIOUS
  <2> QED BY <2>1 DEF KeepInv, Unloaded
<1>5. RequestForms' /\ AppOpsApart' /\ AuthorsInOrder' /\ OneOf("flush")'
  <2>1. CASE ops' = ops
    BY <2>1 DEF KeepInv, RequestForms, AppOpsApart, AuthorsInOrder, OneOf, Requests
  <2>2. CASE ops' = Tail(ops) /\ ops # <<>>
    BY <1>1, <2>2, PoppedKeeps DEF KeepInv
  <2> QED BY <2>1, <2>2
<1>6. Range(flush'.batch) = {}
  BY DEF Range, NoFlush
<1>7. FlushForm'
  BY <1>6 DEF FlushForm, NoFlush
<1>8. SameEntries
  BY SameMem
<1> QED BY <1>2, <1>3, <1>4, <1>5, <1>6, <1>7, <1>8, FlushMoves

LEMMA UnreachableKeeps == KeepInv /\ Unreachable => KeepInv'
<1> SUFFICES ASSUME KeepInv, Unreachable PROVE KeepInv'
  OBVIOUS
<1>1. /\ flush.phase = "submitting" /\ flush' = NoFlush /\ (log' = log \/ CommitBatch({}))
      /\ mem' = mem /\ store' = store /\ loaded' = loaded /\ ops' = ops
      /\ clock' = clock /\ pass' = pass /\ sweep' = sweep /\ applied' = applied /\ cursor' = cursor
      /\ authored' = authored /\ dropped' = dropped /\ acked' = acked /\ rejected' = rejected
  BY DEF Unreachable, session, history
<1>2. log' \in Seq([id : Ids \union {Foreign}, subject : Subjects]) /\ Committed \subseteq Committed'
  <2>1. CASE log' = log
    BY <2>1 DEF KeepInv, TypeInv, Committed
  <2>2. CASE CommitBatch({})
    BY <2>2, CommitBatchIs DEF KeepInv
  <2> QED BY <1>1, <2>1, <2>2
<1>3. \A r \in Requests' : r.by # "flush"
  BY <1>1 DEF KeepInv, FlushForm, Requests
<1> QED BY <1>1, <1>2, <1>3, FlushEnds

LEMMA FlushFaultKeeps == KeepInv /\ FlushFault => KeepInv'
<1> SUFFICES ASSUME KeepInv, FlushFault PROVE KeepInv'
  OBVIOUS
<1>1. /\ ops # <<>> /\ Head(ops).by = "flush" /\ flush' = NoFlush /\ log' = log
      /\ mem' = mem /\ store' = store /\ loaded' = loaded /\ ops' = Tail(ops)
      /\ clock' = clock /\ pass' = pass /\ sweep' = sweep /\ applied' = applied /\ cursor' = cursor
      /\ authored' = authored /\ dropped' = dropped /\ acked' = acked /\ rejected' = rejected
  BY DEF FlushFault, Fails, session, server, history
<1>2. log' \in Seq([id : Ids \union {Foreign}, subject : Subjects]) /\ Committed \subseteq Committed'
  BY <1>1 DEF KeepInv, TypeInv, Committed
<1>3. \A r \in Requests' : r.by # "flush"
  BY <1>1, PoppedKeeps DEF KeepInv, TypeInv
<1> QED BY <1>1, <1>2, <1>3, FlushEnds

LEMMA FlushRepairedKeeps == KeepInv /\ FlushRepaired => KeepInv'
<1> SUFFICES ASSUME KeepInv, FlushRepaired PROVE KeepInv'
  OBVIOUS
<1>1. /\ ops # <<>> /\ Head(ops).by = "flush" /\ flush.phase = "repairing"
      /\ FlushFrom(flush.at + 1, mem, flush.refused, Tail(ops)) /\ store' = StoreAfter(Head(ops))
      /\ mem' = mem /\ loaded' = loaded /\ clock' = clock /\ log' = log
      /\ pass' = pass /\ applied' = applied /\ cursor' = cursor
      /\ authored' = authored /\ dropped' = dropped /\ acked' = acked /\ rejected' = rejected
  BY DEF FlushRepaired, Completes, session, server, history
<1>2. /\ log' \in Seq([id : Ids \union {Foreign}, subject : Subjects]) /\ Committed \subseteq Committed'
      /\ acked' \in SUBSET authored /\ rejected \subseteq rejected' /\ rejected' \in SUBSET Ids
  BY <1>1 DEF KeepInv, TypeInv, Committed
<1>3. loaded /\ SameEntries
  BY <1>1, SameMem DEF KeepInv, Unloaded
<1>4. flush.at + 1 \in Nat /\ flush.at + 1 >= 1 /\ flush.refused \in SUBSET rejected'
  BY <1>1 DEF KeepInv, TypeInv, FlushType, FlushForm
<1> QED BY <1>1, <1>2, <1>3, <1>4, FlushFromKeeps

LEMMA FlushStoredKeeps == KeepInv /\ FlushStored => KeepInv'
<1> SUFFICES ASSUME KeepInv, FlushStored PROVE KeepInv'
  OBVIOUS
<1> DEFINE h == Head(ops)
           row == h.row
           id == row.id
           Repairs(r) == /\ flush' = [flush EXCEPT !.phase = "repairing"]
                         /\ ops' = Append(Tail(ops), r) /\ mem' = mem
<1>1. /\ ops # <<>> /\ h.by = "flush" /\ flush.phase = "storing" /\ store' = StoreAfter(h)
      /\ acked' \in {acked, acked \union {id}}
      /\ loaded' = loaded /\ clock' = clock /\ log' = log
      /\ pass' = pass /\ applied' = applied /\ cursor' = cursor
      /\ authored' = authored /\ dropped' = dropped /\ rejected' = rejected
      /\ \/ ~Known(id) /\ Repairs(DeleteReq(row, "flush"))
         \/ /\ Known(id) /\ EntryOf(mem, id).status # "pending"
            /\ Repairs(PutReq(EntryOf(mem, id), "flush"))
         \/ /\ Buffered(mem, id, {"pending"}) /\ mem' = WithStatus(mem, id, row.status)
            /\ FlushFrom(flush.at + 1, mem', flush.refused, Tail(ops))
  BY DEF FlushStored, Completes, session, server
<1>2. /\ h \in RequestType /\ h \in Requests /\ FormOf(h) /\ row \in OutboxEntry /\ id \in Ids
      /\ h.drop \in authored
  BY <1>1, HeadIs
<1> HIDE DEF h
<1>3. h.drop = id /\ row \in Held /\ row.status \in {"acknowledged", "error"}
      /\ id = flush.batch[flush.at].id /\ flush.at \in DOMAIN flush.batch
  BY <1>1, <1>2 DEF FormOf, Held, KeepInv, FlushForm
<1>4. /\ log' \in Seq([id : Ids \union {Foreign}, subject : Subjects]) /\ Committed \subseteq Committed'
      /\ acked' \in SUBSET authored /\ rejected \subseteq rejected' /\ rejected' \in SUBSET Ids
  BY <1>1, <1>2, <1>3 DEF KeepInv, TypeInv, Committed
<1>5. TypeInv /\ mem \in Seq(OutboxEntry) /\ InOrder(mem) /\ loaded
      /\ ops \in Seq(RequestType) /\ OneOf("flush") /\ FlushForm
  BY <1>1 DEF KeepInv, TypeInv, Unloaded, QueueInStampOrder, InOrder
<1>6. ASSUME NEW r \in RequestType, FormOf(r), r.by = "flush", r.drop = r.row.id, r.row.id = id,
             \E f \in Range(mem) \union Range(flush.batch) : Alike(r.row, f),
             r.op = "delete" => id \in Gone, Repairs(r)
      PROVE  KeepInv'
  <2>1. /\ flush' \in FlushType /\ flush'.phase = "repairing" /\ flush'.at = flush.at
        /\ flush'.refused = flush.refused /\ flush'.batch = flush.batch
    BY <1>5, <1>6 DEF TypeInv, FlushType
  <2>2. /\ ops' \in Seq(RequestType) /\ Requests' \subseteq Requests \union {r}
        /\ \A s \in Requests' : s.by = "flush" => s = r
    BY <1>1, <1>5, <1>6, Turned, TurnedKeeps DEF h
  <2>3. store' \in SUBSET OutboxEntry /\ IsFiniteSet(store')
    BY <1>1, <1>2, <1>5, StoreAfterIs
  <2>4. TypeInv' /\ Unloaded'
    BY <1>1, <1>4, <1>5, <1>6, <2>1, <2>2, <2>3 DEF TypeInv, Unloaded
  <2>5. RequestForms' /\ AppOpsApart' /\ AuthorsInOrder' /\ OneOf("flush")'
    BY <1>1, <1>5, <1>6, TurnedKeeps DEF KeepInv, h
  <2>6. FlushForm'
    BY <1>1, <1>3, <1>5, <1>6, <2>1, <2>2 DEF FlushForm
  <2>7. SameEntries
    BY <1>6, SameMem
  <2>8. Gone \subseteq Gone'
    BY <1>1, <1>4 DEF Gone
  <2> QED BY <1>1, <1>4, <1>6, <2>1, <2>2, <2>4, <2>5, <2>6, <2>7, <2>8, FlushMoves DEF h
<1>7. CASE ~Known(id) /\ Repairs(DeleteReq(row, "flush"))
  <2> DEFINE r == DeleteReq(row, "flush")
  <2>1. r \in RequestType /\ r.row = row /\ r.drop = id /\ r.op = "delete" /\ r.by = "flush"
    BY <1>2, RequestIs
  <2>2. Repairs(r)
    BY <1>7
  <2> HIDE DEF r, Repairs
  <2>3. FormOf(r)
    BY <2>1 DEF FormOf
  <2> DEFINE b == flush.batch[flush.at]
  <2>4. b \in Range(flush.batch) /\ b.id = id
    BY <1>3 DEF Range
  <2> HIDE DEF b
  <2>5. id \in Gone
    BY <1>7, <2>4 DEF KeepInv, DeletesAccounted
  <2>6. Alike(row, b)
    <3>1. b \in Held
      BY <2>4 DEF Held
    <3>2. row.hlc = b.hlc
      BY <1>3, <2>4, <3>1 DEF KeepInv, StampsApart
    <3> QED BY <2>4, <3>2 DEF Alike
  <2> QED BY <1>6, <2>1, <2>2, <2>3, <2>4, <2>5, <2>6
<1>8. CASE /\ Known(id) /\ EntryOf(mem, id).status # "pending"
           /\ Repairs(PutReq(EntryOf(mem, id), "flush"))
  <2> DEFINE e == EntryOf(mem, id)  r == PutReq(e, "flush")
  <2>1. e \in OutboxEntry /\ e \in Range(mem) /\ e.id = id
    BY <1>8, HeldEntry DEF Known
  <2>2. Repairs(r)
    BY <1>8
  <2> HIDE DEF e
  <2>3. r \in RequestType /\ r.row = e /\ r.drop = id /\ r.op = "put" /\ r.by = "flush"
    BY <1>2, <2>1, RequestIs
  <2> HIDE DEF r, Repairs
  <2>4. FormOf(r)
    BY <2>1, <2>3 DEF FormOf
  <2> QED BY <1>6, <2>1, <2>2, <2>3, <2>4 DEF Alike
<1>9. CASE /\ Buffered(mem, id, {"pending"}) /\ mem' = WithStatus(mem, id, row.status)
           /\ FlushFrom(flush.at + 1, mem', flush.refused, Tail(ops))
  <2>1. row.status \in OutboxStatus
    BY <1>3 DEF OutboxStatus
  <2> HIDE DEF row, id
  <2>2. SameEntries
    BY <1>5, <1>9, <2>1, WithStatusIs DEF SameEntries
  <2>3. flush.at + 1 \in Nat /\ flush.at + 1 >= 1 /\ flush.refused \in SUBSET rejected'
    BY <1>1, <1>5 DEF TypeInv, FlushType, FlushForm
  <2> QED BY <1>1, <1>4, <1>5, <1>9, <2>2, <2>3, FlushFromKeeps DEF h
<1> QED BY <1>1, <1>7, <1>8, <1>9

-----------------------------------------------------------------------------
(* The session *)

LEMMA ForeignCommitKeeps == KeepInv => \A s \in Subjects : ForeignCommit(s) => KeepInv'
<1> SUFFICES ASSUME KeepInv, NEW s \in Subjects, ForeignCommit(s) PROVE KeepInv'
  OBVIOUS
<1> DEFINE a == [id |-> Foreign, subject |-> s]
<1>1. /\ log' = Append(log, a)
      /\ UNCHANGED <<mem, store, loaded, ops, flush, pass, sweep, applied, cursor, clock, authored,
                     dropped, acked, rejected>>
  BY DEF ForeignCommit, session, history
<1>2. a \in [id : Ids \union {Foreign}, subject : Subjects]
  OBVIOUS
<1> HIDE DEF a
<1>3. log \in Seq([id : Ids \union {Foreign}, subject : Subjects])
  BY DEF KeepInv, TypeInv
<1>4. log' = log \o <<a>> /\ <<a>> \in Seq([id : Ids \union {Foreign}, subject : Subjects])
  BY <1>1, <1>2, <1>3
<1>5. log' \in Seq([id : Ids \union {Foreign}, subject : Subjects]) /\ Committed \subseteq Committed'
  BY <1>3, <1>4, CommittedGrows
<1>6. TypeInv' /\ Unloaded'
  BY <1>1, <1>5 DEF KeepInv, TypeInv, Unloaded
<1> QED BY <1>1, <1>5, <1>6, FrameKeeps

LEMMA DeliverKeeps == KeepInv /\ Deliver => KeepInv'
<1> SUFFICES ASSUME KeepInv, Deliver PROVE KeepInv'
  OBVIOUS
<1> DEFINE g == applied + 1
           id == log[g].id
           row == EntryOf(mem, id)
           r == DeleteReq(row, "echo")
<1>1. /\ loaded /\ applied < Len(log)
      /\ UNCHANGED <<mem, store, loaded, flush, pass, sweep, clock, log, authored, dropped, acked,
                     rejected>>
      /\ \/ /\ Buffered(mem, id, {"pending", "acknowledged"}) /\ ops' = Append(ops, r)
            /\ applied' = applied /\ cursor' = cursor
         \/ applied' = g /\ cursor' \in {g, cursor} /\ ops' = ops
  BY DEF Deliver, Received, server, history
<1>2. clock \in Nat /\ applied \in Nat /\ mem \in Seq(OutboxEntry)
      /\ log \in Seq([id : Ids \union {Foreign}, subject : Subjects])
  BY DEF KeepInv, TypeInv
<1>3. CASE applied' = g /\ cursor' \in {g, cursor} /\ ops' = ops
  <2>1. TypeInv' /\ Unloaded'
    BY <1>1, <1>2, <1>3 DEF KeepInv, TypeInv, Unloaded
  <2>2. Committed' = Committed
    BY <1>1 DEF Committed
  <2> QED BY <1>1, <1>3, <2>1, <2>2, FrameKeeps
<1>4. CASE /\ Buffered(mem, id, {"pending", "acknowledged"}) /\ ops' = Append(ops, r)
           /\ applied' = applied /\ cursor' = cursor
  <2>1. row \in OutboxEntry /\ row \in Held /\ row.id = id /\ id \in authored /\ Alike(row, row)
    BY <1>4, HeldEntry DEF Held, Alike
  <2>2. id \in Committed
    <3>1. g \in DOMAIN log /\ id \in Ids
      BY <1>1, <1>2, <2>1 DEF OutboxEntry
    <3> QED BY <3>1, OutboxAssumption DEF Committed
  <2> HIDE DEF row, id
  <2>3. r \in RequestType /\ r.row = row /\ r.drop = id /\ r.op = "delete" /\ r.by = "echo"
    <3>1. id \in Ids
      BY <2>1 DEF OutboxEntry
    <3> QED BY <2>1, <3>1, RequestIs
  <2>4. ops' = Append(ops, r)
    BY <1>4
  <2> HIDE DEF r
  <2>5. FormOf(r) /\ ~Authors(r) /\ r.by \notin AppOps
    BY <2>1, <2>3 DEF FormOf, Authors, AppOps
  <2>6. TypeInv' /\ Unloaded' /\ SameEntries
    BY <1>1, <1>2, <1>4, <2>3, <2>4, IssueType, SameMem DEF Unloaded
  <2> QED BY <1>1, <2>1, <2>2, <2>3, <2>4, <2>5, <2>6, IssueKeeps DEF Gone
<1> QED BY <1>1, <1>3, <1>4

LEMMA MarkConflictedKeeps == KeepInv /\ MarkConflicted => KeepInv'
<1> SUFFICES ASSUME KeepInv, MarkConflicted PROVE KeepInv'
  OBVIOUS
<1> DEFINE id == Head(sweep)
           row == EntryOf(mem', id)
           r == PutReq(row, "mark")
<1>1. /\ pass = "sweeping" /\ pass' \in {"off", "sweeping"}
      /\ UNCHANGED <<store, loaded, flush, applied, cursor, clock, log, authored, dropped, acked,
                     rejected>>
      /\ \/ mem' = mem /\ ops' = ops
         \/ /\ Known(id) /\ mem' = WithStatus(mem, id, "conflicted") /\ ops' = Append(ops, r)
            /\ pass' = pass
  BY DEF MarkConflicted, Swept, server, history
<1>2. clock \in Nat /\ mem \in Seq(OutboxEntry) /\ InOrder(mem) /\ loaded
  BY <1>1 DEF KeepInv, TypeInv, Unloaded, QueueInStampOrder, InOrder
<1>3. CASE mem' = mem /\ ops' = ops
  <2>1. TypeInv' /\ Unloaded'
    BY <1>1, <1>2, <1>3 DEF KeepInv, TypeInv, Unloaded
  <2>2. Committed' = Committed
    BY <1>1 DEF Committed
  <2> QED BY <1>1, <1>3, <2>1, <2>2, FrameKeeps
<1>4. CASE Known(id) /\ mem' = WithStatus(mem, id, "conflicted") /\ ops' = Append(ops, r) /\ pass' = pass
  <2>1. /\ mem' \in Seq(OutboxEntry) /\ InOrder(mem')
        /\ \A e \in Range(mem') : \E f \in Range(mem) :
             Alike(e, f) /\ IF e.id = id THEN e.status = "conflicted" ELSE e = f
        /\ \A f \in Range(mem) : \E e \in Range(mem') :
              Alike(e, f) /\ IF e.id = id THEN e.status = "conflicted" ELSE e = f
    <3>1. "conflicted" \in OutboxStatus
      BY DEF OutboxStatus
    <3> HIDE DEF id, row
    <3> QED BY <1>2, <1>4, <3>1, WithStatusIs
  <2>2. SameEntries
    BY <2>1 DEF SameEntries
  <2>3. \E e \in Range(mem') : e.id = id /\ e.status = "conflicted"
    <3>1. PICK f \in Range(mem) : f.id = id
      BY <1>4 DEF Known, Buffered
    <3> QED BY <2>1, <3>1 DEF Alike
  <2>4. row \in Range(mem') /\ row \in OutboxEntry /\ row.id = id
    <3>1. Buffered(mem', id, {"conflicted"})
      BY <2>3 DEF Buffered
    <3> QED BY <2>1, <3>1, EntryIs
  <2>5. row.status = "conflicted"
    BY <2>1, <2>4
  <2>6. PICK f \in Range(mem) : Alike(row, f)
    BY <2>1, <2>4
  <2> HIDE DEF row, id
  <2>7. f \in Held /\ id \in authored /\ id \in Ids
    BY <2>4, <2>6 DEF Held, KeepInv, IdsAuthored, Alike, OutboxEntry
  <2>8. r \in RequestType /\ r.row = row /\ r.drop = id /\ r.op = "put" /\ r.by = "mark"
    BY <2>4, <2>7, RequestIs
  <2>9. ops' = Append(ops, r)
    BY <1>4
  <2> HIDE DEF r
  <2>10. FormOf(r) /\ ~Authors(r) /\ r.by \notin AppOps
    BY <2>4, <2>5, <2>8 DEF FormOf, Authors, AppOps
  <2>11. TypeInv' /\ Unloaded'
    BY <1>1, <1>2, <1>4, <2>1, <2>8, <2>9, IssueType DEF Unloaded
  <2> QED BY <1>1, <2>2, <2>6, <2>7, <2>8, <2>9, <2>10, <2>11, IssueKeeps
<1> QED BY <1>1, <1>3, <1>4

LEMMA PassKeeps ==
  KeepInv /\ (StartPass \/ PageFails \/ Drained \/ DetectConflicts) => KeepInv'
<1> SUFFICES ASSUME KeepInv, StartPass \/ PageFails \/ Drained \/ DetectConflicts PROVE KeepInv'
  OBVIOUS
<1>1. /\ UNCHANGED <<mem, store, loaded, ops, flush, clock, log, applied, authored, dropped, acked,
                     rejected>>
      /\ cursor' \in {cursor, applied} /\ pass' \in {"off", "draining", "saving", "sweeping"}
      /\ loaded \/ pass # "off"
  BY DEF StartPass, PageFails, Drained, DetectConflicts, server, history, KeepInv, TypeInv
<1>2. loaded
  BY <1>1 DEF KeepInv, Unloaded
<1>3. TypeInv' /\ Unloaded'
  BY <1>1, <1>2 DEF KeepInv, TypeInv, Unloaded
<1>4. Committed' = Committed
  BY <1>1 DEF Committed
<1> QED BY <1>1, <1>3, <1>4, FrameKeeps

LEMMA KeepStutters == KeepInv /\ UNCHANGED vars => KeepInv'
<1> SUFFICES ASSUME KeepInv, UNCHANGED vars PROVE KeepInv'
  OBVIOUS
<1>1. UNCHANGED <<mem, store, loaded, ops, flush, pass, sweep, applied, cursor, clock, log, authored,
                  dropped, acked, rejected>>
  BY DEF vars
<1>2. TypeInv' /\ Unloaded' /\ Committed' = Committed
  BY <1>1 DEF KeepInv, TypeInv, Unloaded, Committed
<1> QED BY <1>1, <1>2, FrameKeeps

\* The store requests of every operation, as the code issues them and waits for them,
\* keep the queue, the rows and the requests in step.
LEMMA Keeps == KeepInv /\ [Next]_vars => KeepInv'
<1> SUFFICES ASSUME KeepInv, [Next]_vars PROVE KeepInv'
  OBVIOUS
<1>1. CASE Rehydrate \/ Reload
  BY <1>1, RehydrateKeeps, ReloadKeeps
<1>2. ASSUME NEW id \in Ids, Enqueue(id) \/ Retry(id) \/ ClearError(id) \/ ClearConflict(id)
      PROVE  KeepInv'
  BY <1>2, EnqueueKeeps, RetryKeeps, ClearKeeps DEF ClearError, ClearConflict, OutboxStatus
<1>3. ASSUME NEW id \in Ids, NEW new \in Ids, RetryConflicted(id, new) PROVE KeepInv'
  BY <1>3, RetryConflictedKeeps
<1>4. CASE EnqueueStored \/ RetryStored \/ ClearStored \/ RetryConflictedStored
  BY <1>4, EnqueueStoredKeeps, RetryStoredKeeps, ClearStoredKeeps, RetryConflictedStoredKeeps
<1>5. CASE StartFlush \/ Unreachable \/ FlushStored \/ FlushRepaired \/ FlushFault
  BY <1>5, StartFlushKeeps, UnreachableKeeps, FlushStoredKeeps, FlushRepairedKeeps, FlushFaultKeeps
<1>6. ASSUME NEW refused \in SUBSET Ids, Answered(refused) PROVE KeepInv'
  BY <1>6, AnsweredKeeps
<1>7. ASSUME NEW s \in Subjects, ForeignCommit(s) PROVE KeepInv'
  BY <1>7, ForeignCommitKeeps
<1>8. CASE Deliver \/ MatchEchoStored \/ MarkConflicted \/ MarkStored
  BY <1>8, DeliverKeeps, MatchEchoStoredKeeps, MarkConflictedKeeps, MarkStoredKeeps
<1>9. CASE StartPass \/ PageFails \/ Drained \/ DetectConflicts
  BY <1>9, PassKeeps
<1>10. CASE UNCHANGED vars
  BY <1>10, KeepStutters
<1> QED BY <1>1, <1>2, <1>3, <1>4, <1>5, <1>6, <1>7, <1>8, <1>9, <1>10, Zenon DEF Next

LEMMA SumSteps ==
  ASSUME SumNext \/ UNCHANGED allVars
  PROVE  part' = part /\ (part = "outbox" => [Next]_vars)
<1>1. ASSUME UNCHANGED allVars PROVE part' = part /\ UNCHANGED vars
  BY <1>1 DEF allVars, outboxVars, vars
<1>2. ASSUME SumNext PROVE part' = part /\ (part = "outbox" => Next)
  BY <1>2 DEF SumNext
<1> QED BY <1>1, <1>2

\* outbox.ts: a write that enqueue or a conflict retry stored is in the store, in the
\* server's log or dropped by the application, and the queue is in the order of the
\* stamps, whatever the interleaving of flush, sweep, echoes, reloads and store faults.
THEOREM WritesAreKept == SumSpec => []BufferKeepsWrites
<1> DEFINE SumInv == part = "outbox" => KeepInv
<1>1. SumInit => SumInv
  BY KeepStarts DEF SumInit
<1>2. SumInv /\ [SumNext]_allVars => SumInv'
  BY SumSteps, Keeps
<1>3. SumInv => BufferKeepsWrites
  BY DEF KeepInv, BufferKeepsWrites, WritesKept
<1> QED BY <1>1, <1>2, <1>3, PTL DEF SumSpec

-----------------------------------------------------------------------------
(* The inductive invariant: what settled entries and stored holds rest on *)

\* What memory says of an entry, if it holds it.
Only(id, statuses) == \A e \in Range(mem) : e.id = id => e.status \in statuses
Settled == acked \union dropped
Marking(id) == \E r \in Requests : r.by = "mark" /\ r.row.id = id
HeldRow(id) == \E e \in store : e.id = id /\ e.status = "conflicted"
FlushPut(r) == r.by = "flush" /\ r.op = "put" /\ r.row.status # "conflicted"

\* The flush persists its batch from the first entry on; its repair of an entry removes
\* the row, or puts a conflicted one.
RepairForm ==
  /\ flush.phase = "submitting" => flush.at = 0
  /\ \A r \in Requests : r.by = "flush" /\ flush.phase = "repairing" =>
       r.op = "delete" \/ r.row.status = "conflicted"

\* What the flush has still to persist is not settled in memory by someone else.
AheadUnsettled ==
  \A k \in DOMAIN flush.batch : k >= flush.at =>
    /\ Only(flush.batch[k].id, {"pending", "conflicted"})
    /\ \A r \in Requests : r.by = "retry" => r.row.id # flush.batch[k].id

\* What is settled is not queued again, nor can it become so.
NoneRevived ==
  /\ \A e \in Range(mem) \union store : e.status \in {"pending", "error"} => e.id \notin Settled
  /\ \A r \in Requests : r.by = "retry" \/ (FlushPut(r) /\ r.row.status = "error") =>
       r.row.id \notin Settled

\* Only a refused entry is an error, and only such an entry is retried.
ErrorsRejected ==
  /\ \A e \in Range(mem) \union store : e.status = "error" => e.id \in rejected
  /\ \A r \in Requests : r.by = "retry" => r.row.id \in rejected

\* The application resolves an entry that stays rejected or held meanwhile.
ResolvedAreHeld ==
  \A r \in Requests : r.by = "retry" \/ Drops(r) => Only(r.drop, {"error", "conflicted"})

DropsBehindFlush ==
  \A i, j \in DOMAIN ops : i < j /\ Drops(ops[i]) /\ FlushPut(ops[j]) => ops[i].drop # ops[j].row.id

SettleInv ==
  /\ RepairForm /\ AheadUnsettled /\ NoneRevived /\ ErrorsRejected /\ ResolvedAreHeld
  /\ DropsBehindFlush

\* An entry an echo removes is not held; a refused one may be in any status.
Echoes ==
  /\ OneOf("echo")
  /\ \A r \in Requests : r.by = "echo" =>
       /\ pass \in {"off", "draining"}
       /\ r.drop \in rejected \/ Buffered(mem, r.drop, {"pending", "acknowledged"})

\* The sweep marks one loser at a time; the others still wait for it.
SweepForm ==
  /\ sweep \in Seq(Ids) /\ (pass = "sweeping" <=> sweep # <<>>)
  /\ \A i, j \in DOMAIN sweep : sweep[i] = sweep[j] => i = j
Marks ==
  /\ OneOf("mark")
  /\ \A r \in Requests : r.by = "mark" =>
       /\ pass = "sweeping" /\ r.row.id = Head(sweep)
       /\ r.row.id \in rejected \/ Buffered(mem, r.row.id, {"conflicted"})
LosersWait ==
  \A k \in DOMAIN sweep : k > 1 \/ (\A r \in Requests : r.by # "mark") =>
    sweep[k] \in rejected \/ Only(sweep[k], {"pending", "acknowledged"})

MarksFirst ==
  \A i, j \in DOMAIN ops :
    ops[j].by = "mark" /\ Drops(ops[i]) /\ ops[i].drop = ops[j].row.id /\ ops[j].row.id \notin rejected
      => j < i
MarksBehindFlush ==
  \A i, j \in DOMAIN ops :
    ops[j].by = "mark" /\ FlushPut(ops[i]) /\ ops[i].row.id = ops[j].row.id
      /\ ops[i].row.id \notin rejected => i < j

\* A stored hold is a hold in memory too, and no request of the flush frees it.
RowsHeld ==
  \A e \in store : e.status = "conflicted" /\ e.id \notin rejected => Only(e.id, {"conflicted"})
FlushHolds ==
  \A r \in Requests : r.by = "flush" /\ r.row.id \notin rejected =>
    /\ FlushPut(r) => ~HeldRow(r.row.id)
    /\ r.op = "put" /\ ~FlushPut(r) => Only(r.row.id, {"conflicted"})
    /\ r.op = "delete" => Only(r.drop, {}) /\ ~HeldRow(r.drop) /\ ~Marking(r.drop)

HoldInv ==
  /\ Echoes /\ SweepForm /\ Marks /\ LosersWait /\ MarksFirst /\ MarksBehindFlush
  /\ RowsHeld /\ FlushHolds
OutboxInv == KeepInv /\ SettleInv /\ HoldInv

-----------------------------------------------------------------------------
(* The order of requests *)

LEMMA PoppedOrder ==
  ASSUME ops \in Seq(RequestType), ops # <<>>, ops' = Tail(ops), rejected \subseteq rejected'
  PROVE  /\ DropsBehindFlush =>
              /\ DropsBehindFlush'
              /\ Drops(Head(ops)) => \A r \in Requests' : FlushPut(r) => Head(ops).drop # r.row.id
         /\ MarksFirst =>
              /\ MarksFirst'
              /\ Drops(Head(ops)) => \A r \in Requests' :
                   r.by = "mark" /\ Head(ops).drop = r.row.id => r.row.id \in rejected
         /\ MarksBehindFlush =>
              /\ MarksBehindFlush'
              /\ Head(ops).by = "mark" => \A r \in Requests' :
                   FlushPut(r) /\ r.row.id = Head(ops).row.id => r.row.id \in rejected
<1>1. /\ Head(ops) = ops[1] /\ 1 \in DOMAIN ops
      /\ \A i \in DOMAIN ops' : i \in Nat /\ i + 1 \in DOMAIN ops /\ ops'[i] = ops[i + 1]
  BY Popped
<1>2. /\ \A i \in DOMAIN ops' : i + 1 # 1 /\ 1 < i + 1 /\ ~(i + 1 < 1)
      /\ \A i, j \in DOMAIN ops' : i < j <=> i + 1 < j + 1
  BY <1>1
<1>3. \A r \in Requests' : \E i \in DOMAIN ops : 1 < i /\ ~(i < 1) /\ r = ops[i]
  BY <1>1, <1>2 DEF Requests, Range
<1>4. ASSUME DropsBehindFlush
      PROVE  /\ DropsBehindFlush'
             /\ Drops(Head(ops)) => \A r \in Requests' : FlushPut(r) => Head(ops).drop # r.row.id
  <2>1. DropsBehindFlush'
    BY <1>1, <1>2, <1>4 DEF DropsBehindFlush, Drops, FlushPut
  <2>2. Drops(Head(ops)) => \A r \in Requests' : FlushPut(r) => Head(ops).drop # r.row.id
    BY <1>1, <1>3, <1>4 DEF DropsBehindFlush
  <2> QED BY <2>1, <2>2
<1>5. ASSUME MarksFirst
      PROVE  /\ MarksFirst'
             /\ Drops(Head(ops)) => \A r \in Requests' :
                  r.by = "mark" /\ Head(ops).drop = r.row.id => r.row.id \in rejected
  <2>1. MarksFirst'
    BY <1>1, <1>2, <1>5 DEF MarksFirst, Drops
  <2>2. Drops(Head(ops)) => \A r \in Requests' :
          r.by = "mark" /\ Head(ops).drop = r.row.id => r.row.id \in rejected
    BY <1>1, <1>3, <1>5 DEF MarksFirst
  <2> QED BY <2>1, <2>2
<1>6. ASSUME MarksBehindFlush
      PROVE  /\ MarksBehindFlush'
             /\ Head(ops).by = "mark" => \A r \in Requests' :
                  FlushPut(r) /\ r.row.id = Head(ops).row.id => r.row.id \in rejected
  <2>1. MarksBehindFlush'
    BY <1>1, <1>2, <1>6 DEF MarksBehindFlush, FlushPut
  <2>2. Head(ops).by = "mark" => \A r \in Requests' :
          FlushPut(r) /\ r.row.id = Head(ops).row.id => r.row.id \in rejected
    BY <1>1, <1>3, <1>6 DEF MarksBehindFlush
  <2> QED BY <2>1, <2>2
<1> QED BY <1>4, <1>5, <1>6

LEMMA PushedOrder ==
  ASSUME ops \in Seq(RequestType), NEW r \in RequestType, ops' = Append(ops, r),
         rejected \subseteq rejected'
  PROVE  /\ DropsBehindFlush
            /\ (FlushPut(r) => \A s \in Requests : Drops(s) => s.drop # r.row.id) => DropsBehindFlush'
         /\ MarksFirst
            /\ (r.by = "mark" => r.row.id \in rejected' \/ \A s \in Requests : Drops(s) => s.drop # r.row.id)
              => MarksFirst'
         /\ MarksBehindFlush
            /\ (FlushPut(r) => r.row.id \in rejected'
                  \/ \A s \in Requests : s.by = "mark" => s.row.id # r.row.id) => MarksBehindFlush'
<1>1. \A i \in DOMAIN ops' : /\ i \in Nat
                             /\ \/ i \in DOMAIN ops /\ ops'[i] = ops[i]
                                \/ ops'[i] = r /\ \A j \in DOMAIN ops' : j <= i
  BY Pushed
<1>2. \A i \in DOMAIN ops : ops[i] \in Requests
  BY DEF Requests, Range
<1>3. \A i, j \in DOMAIN ops' :
        \/ i \in DOMAIN ops /\ j \in DOMAIN ops /\ ops'[i] = ops[i] /\ ops'[j] = ops[j]
        \/ i \in DOMAIN ops /\ ops'[i] = ops[i] /\ ops'[i] \in Requests /\ ops'[j] = r /\ (i < j \/ i = j)
        \/ j \in DOMAIN ops /\ ops'[j] = ops[j] /\ ops'[j] \in Requests /\ ops'[i] = r /\ ~(i < j) /\ (j < i \/ i = j)
        \/ i = j /\ ops'[i] = r /\ ~(i < j)
  BY <1>1, <1>2
<1> HIDE DEF Requests
<1>4. ASSUME DropsBehindFlush, FlushPut(r) => \A s \in Requests : Drops(s) => s.drop # r.row.id
      PROVE  DropsBehindFlush'
  BY <1>3, <1>4 DEF DropsBehindFlush, FlushPut, Drops
<1>5. ASSUME MarksFirst,
             r.by = "mark" => r.row.id \in rejected' \/ \A s \in Requests : Drops(s) => s.drop # r.row.id
      PROVE  MarksFirst'
  BY <1>3, <1>5 DEF MarksFirst, Drops
<1>6. ASSUME MarksBehindFlush,
             FlushPut(r) => r.row.id \in rejected'
                  \/ \A s \in Requests : s.by = "mark" => s.row.id # r.row.id
      PROVE  MarksBehindFlush'
  BY <1>3, <1>6 DEF MarksBehindFlush, FlushPut
<1> QED BY <1>4, <1>5, <1>6

LEMMA TurnedOrder ==
  ASSUME ops \in Seq(RequestType), ops # <<>>, NEW r \in RequestType, r.by = "flush",
         ops' = Append(Tail(ops), r), rejected \subseteq rejected',
         FlushPut(r) => \A s \in Requests : Drops(s) => s.drop # r.row.id,
         FlushPut(r) => r.row.id \in rejected' \/ \A s \in Requests : s.by = "mark" => s.row.id # r.row.id
  PROVE  /\ DropsBehindFlush => DropsBehindFlush'
         /\ MarksFirst => MarksFirst'
         /\ MarksBehindFlush => MarksBehindFlush'
<1>1. \A i \in DOMAIN ops' : /\ i \in Nat
                             /\ \/ i + 1 \in DOMAIN ops /\ ops'[i] = ops[i + 1]
                                \/ ops'[i] = r /\ \A j \in DOMAIN ops' : j <= i
  BY Turned
<1>2. \A i \in DOMAIN ops : ops[i] \in Requests
  BY DEF Requests, Range
<1>3. \A i, j \in DOMAIN ops' :
        \/ /\ i + 1 \in DOMAIN ops /\ j + 1 \in DOMAIN ops /\ ops'[i] = ops[i + 1] /\ ops'[j] = ops[j + 1]
           /\ (i < j <=> i + 1 < j + 1) /\ (j < i <=> j + 1 < i + 1)
        \/ i + 1 \in DOMAIN ops /\ ops'[i] = ops[i + 1] /\ ops'[i] \in Requests /\ ops'[j] = r
        \/ ops'[i] = r /\ ~(i < j)
  BY <1>1, <1>2
<1> HIDE DEF Requests
<1>4. DropsBehindFlush => DropsBehindFlush'
  BY <1>3 DEF DropsBehindFlush, FlushPut, Drops
<1>5. MarksFirst => MarksFirst'
  BY <1>3 DEF MarksFirst, Drops
<1>6. ASSUME MarksBehindFlush PROVE MarksBehindFlush'
  <2> SUFFICES ASSUME NEW i \in DOMAIN ops', NEW j \in DOMAIN ops', ops'[j].by = "mark", FlushPut(ops'[i]),
                      ops'[i].row.id = ops'[j].row.id, ops'[i].row.id \notin rejected'
               PROVE  i < j
    BY DEF MarksBehindFlush, FlushPut
  <2>1. j + 1 \in DOMAIN ops /\ ops'[j] = ops[j + 1] /\ ops'[j] \in Requests
    BY <1>1, <1>2
  <2>2. ops'[i] # r
    BY <2>1
  <2> QED BY <1>1, <1>3, <1>6, <2>1, <2>2 DEF MarksBehindFlush
<1> QED BY <1>4, <1>5, <1>6

-----------------------------------------------------------------------------
(* What is settled stays settled when an operation issues its request *)

LEMMA IssueSettles ==
  ASSUME OutboxInv, NEW r \in RequestType, FormOf(r), r.by \in AppOps \union {"echo"},
         ops' = Append(ops, r),
         UNCHANGED <<mem, store, flush, pass, sweep, acked, dropped, rejected>>,
         r.by = "retry" => Buffered(mem, r.row.id, {"error"}),
         Drops(r) => Only(r.drop, {"error", "conflicted"}),
         r.by = "echo" => /\ pass \in {"off", "draining"} /\ \A s \in Requests : s.by # "echo"
                          /\ Buffered(mem, r.drop, {"pending", "acknowledged"})
  PROVE  SettleInv' /\ HoldInv'
<1>1. ops \in Seq(RequestType)
  BY DEF OutboxInv, KeepInv, TypeInv
<1>2. /\ mem' = mem /\ store' = store /\ flush' = flush /\ pass' = pass /\ sweep' = sweep
      /\ acked' = acked /\ dropped' = dropped /\ rejected' = rejected
      /\ Requests' = Requests \union {r}
  BY <1>1, Pushed
<1>3. r.by # "flush" /\ r.by # "mark" /\ ~FlushPut(r)
  BY DEF AppOps, FlushPut
<1>4. r.by = "retry" => /\ Only(r.row.id, {"error"}) /\ r.drop = r.row.id
                        /\ \E e \in Range(mem) : e.id = r.row.id /\ e.status = "error"
  <2> SUFFICES ASSUME r.by = "retry"
               PROVE  /\ Only(r.row.id, {"error"}) /\ r.drop = r.row.id
                      /\ \E e \in Range(mem) : e.id = r.row.id /\ e.status = "error"
    OBVIOUS
  <2>1. PICK e \in Range(mem) : e.id = r.row.id /\ e.status = "error"
    BY DEF Buffered
  <2>2. \A f \in Range(mem) : f.id = r.row.id => f = e
    BY <2>1, MemApart DEF OutboxInv
  <2> QED BY <2>1, <2>2 DEF Only, FormOf
<1>5. \A id, statuses : Only(id, statuses)' <=> Only(id, statuses)
  BY <1>2 DEF Only
<1> HIDE DEF Requests
<1>6. RepairForm'
  BY <1>2, <1>3 DEF OutboxInv, SettleInv, RepairForm
<1>7. AheadUnsettled'
  <2>1. ASSUME NEW k \in DOMAIN flush.batch, k >= flush.at, r.by = "retry", r.row.id = flush.batch[k].id
        PROVE  FALSE
    BY <1>4, <2>1 DEF OutboxInv, SettleInv, AheadUnsettled, Only
  <2> QED BY <1>2, <1>5, <2>1 DEF OutboxInv, SettleInv, AheadUnsettled
<1>8. NoneRevived'
  <2>1. r.by = "retry" => r.row.id \notin Settled
    BY <1>4 DEF OutboxInv, SettleInv, NoneRevived
  <2> QED BY <1>2, <1>3, <2>1 DEF OutboxInv, SettleInv, NoneRevived, Settled
<1>9. ErrorsRejected'
  <2>1. r.by = "retry" => r.row.id \in rejected
    BY <1>4 DEF OutboxInv, SettleInv, ErrorsRejected
  <2> QED BY <1>2, <2>1 DEF OutboxInv, SettleInv, ErrorsRejected
<1>10. ResolvedAreHeld'
  BY <1>2, <1>4, <1>5 DEF OutboxInv, SettleInv, ResolvedAreHeld, Only
<1>11. DropsBehindFlush'
  BY <1>1, <1>2, <1>3, PushedOrder DEF OutboxInv, SettleInv
<1>12. Echoes'
  <2>1. OneOf("echo")'
    BY <1>1, PushedKeeps DEF OutboxInv, HoldInv, Echoes
  <2> QED BY <1>2, <2>1 DEF OutboxInv, HoldInv, Echoes
<1>13. SweepForm'
  BY <1>2 DEF OutboxInv, HoldInv, SweepForm
<1>14. Marks'
  <2>1. OneOf("mark")'
    BY <1>1, <1>3, PushedKeeps DEF OutboxInv, HoldInv, Marks
  <2> QED BY <1>2, <1>3, <2>1 DEF OutboxInv, HoldInv, Marks
<1>15. LosersWait'
  BY <1>2, <1>5 DEF OutboxInv, HoldInv, LosersWait
<1>16. MarksFirst' /\ MarksBehindFlush'
  BY <1>1, <1>2, <1>3, PushedOrder DEF OutboxInv, HoldInv
<1>17. RowsHeld'
  BY <1>2, <1>5 DEF OutboxInv, HoldInv, RowsHeld
<1>18. FlushHolds'
  <2>1. \A id : (HeldRow(id)' <=> HeldRow(id)) /\ (Marking(id)' <=> Marking(id))
    BY <1>2, <1>3 DEF HeldRow, Marking
  <2> QED BY <1>2, <1>3, <1>5, <2>1 DEF OutboxInv, HoldInv, FlushHolds, FlushPut
<1> QED BY <1>6, <1>7, <1>8, <1>9, <1>10, <1>11, <1>12, <1>13, <1>14, <1>15, <1>16, <1>17, <1>18
        DEF SettleInv, HoldInv

\* Nothing settled or held is touched by a step of the pass alone.
LEMMA FrameSettles ==
  ASSUME OutboxInv, UNCHANGED <<mem, store, ops, flush, acked, dropped, rejected>>,
         \A r \in Requests : r.by = "echo" => pass' \in {"off", "draining"},
         \A r \in Requests : r.by = "mark" => pass' = "sweeping" /\ sweep' = sweep,
         SweepForm', LosersWait'
  PROVE  SettleInv' /\ HoldInv'
<1>1. /\ Requests' = Requests
      /\ \A id, statuses : Only(id, statuses)' <=> Only(id, statuses)
      /\ \A id : (HeldRow(id)' <=> HeldRow(id)) /\ (Marking(id)' <=> Marking(id))
  BY DEF Requests, Only, HeldRow, Marking
<1> HIDE DEF Requests
<1>2. RepairForm' /\ AheadUnsettled' /\ NoneRevived' /\ ErrorsRejected' /\ ResolvedAreHeld'
  BY <1>1 DEF OutboxInv, SettleInv, RepairForm, AheadUnsettled, NoneRevived, ErrorsRejected,
              ResolvedAreHeld, Settled, FlushPut, Drops
<1>3. DropsBehindFlush' /\ MarksFirst' /\ MarksBehindFlush'
  BY DEF OutboxInv, SettleInv, HoldInv, DropsBehindFlush, MarksFirst, MarksBehindFlush, Drops, FlushPut
<1>4. Echoes'
  BY <1>1 DEF OutboxInv, HoldInv, Echoes, OneOf
<1>5. Marks'
  BY <1>1 DEF OutboxInv, HoldInv, Marks, OneOf
<1>6. RowsHeld' /\ FlushHolds'
  BY <1>1 DEF OutboxInv, HoldInv, RowsHeld, FlushHolds, FlushPut
<1> QED BY <1>2, <1>3, <1>4, <1>5, <1>6 DEF SettleInv, HoldInv

LEMMA SameSweepSettles ==
  ASSUME OutboxInv, UNCHANGED <<mem, store, ops, flush, sweep, acked, dropped, rejected>>,
         pass' = pass \/ (pass # "sweeping" /\ pass' # "sweeping"),
         \A r \in Requests : r.by = "echo" => pass' \in {"off", "draining"}
  PROVE  SettleInv' /\ HoldInv'
<1>1. Requests' = Requests /\ \A id, statuses : Only(id, statuses)' <=> Only(id, statuses)
  BY DEF Requests, Only
<1> HIDE DEF Requests
<1>2. \A r \in Requests : r.by = "mark" => pass' = "sweeping"
  BY DEF OutboxInv, HoldInv, Marks
<1>3. SweepForm'
  BY DEF OutboxInv, HoldInv, SweepForm
<1>4. LosersWait'
  BY <1>1 DEF OutboxInv, HoldInv, LosersWait
<1> QED BY <1>2, <1>3, <1>4, FrameSettles

LEMMA NotWaiting ==
  ASSUME NEW by, ~Waiting(by)
  PROVE  \A r \in Requests : r.by # by
BY DEF Waiting, Requests, Range

LEMMA PassSettles ==
  OutboxInv /\ (StartPass \/ PageFails \/ Drained \/ (\E s \in Subjects : ForeignCommit(s)) \/ UNCHANGED vars)
    => SettleInv' /\ HoldInv'
<1> SUFFICES ASSUME OutboxInv,
                    StartPass \/ PageFails \/ Drained \/ (\E s \in Subjects : ForeignCommit(s)) \/ UNCHANGED vars
             PROVE  SettleInv' /\ HoldInv'
  OBVIOUS
<1>1. UNCHANGED <<mem, store, ops, flush, sweep, acked, dropped, rejected>>
  BY DEF StartPass, PageFails, Drained, ForeignCommit, vars, session, history, server
<1>2. \/ pass' = pass
      \/ /\ pass # "sweeping" /\ pass' # "sweeping"
         /\ pass' = "draining" \/ ~Waiting("echo")
  BY DEF StartPass, PageFails, Drained, ForeignCommit, vars, session, history, server
<1>3. \A r \in Requests : r.by = "echo" => pass' \in {"off", "draining"}
  <2> HIDE DEF Requests
  <2>1. CASE pass' = pass
    BY <2>1 DEF OutboxInv, HoldInv, Echoes
  <2>2. CASE ~Waiting("echo")
    BY <2>2, NotWaiting
  <2> QED BY <1>2, <2>1, <2>2
<1> QED BY <1>1, <1>2, <1>3, SameSweepSettles

-----------------------------------------------------------------------------
(* The sweep *)

LEMMA DetectSettles == OutboxInv /\ DetectConflicts => SettleInv' /\ HoldInv'
<1> SUFFICES ASSUME OutboxInv, DetectConflicts PROVE SettleInv' /\ HoldInv'
  OBVIOUS
<1> DEFINE J == {i \in DOMAIN mem : Loses(mem[i])}
           losers == Picked(mem, J)
<1>1. /\ sweep' = [i \in DOMAIN losers |-> losers[i].id]
      /\ pass = "saving" /\ pass' = IF losers = <<>> THEN "off" ELSE "sweeping"
      /\ UNCHANGED <<mem, store, ops, flush, acked, dropped, rejected>>
  BY DEF DetectConflicts, history
<1>2. mem \in Seq(OutboxEntry) /\ J \in SUBSET DOMAIN mem
  BY DEF OutboxInv, KeepInv, TypeInv
<1>3. \A e \in {mem[j] : j \in J} : e \in Range(mem) /\ e.status \in {"pending", "acknowledged"}
  BY DEF Loses, Range
<1> HIDE DEF J
<1>4. /\ losers \in Seq(OutboxEntry) /\ Range(losers) = {mem[j] : j \in J}
      /\ \A i \in DOMAIN losers : Ascending(J)[i] \in J /\ losers[i] = mem[Ascending(J)[i]]
      /\ \A i, j \in DOMAIN losers : i < j => Ascending(J)[i] < Ascending(J)[j]
  BY <1>2, PickedIs
<1> HIDE DEF losers
<1>5. /\ DOMAIN losers \subseteq Nat /\ \A i \in DOMAIN losers : losers[i].id \in Ids
      /\ \A i \in DOMAIN losers : Ascending(J)[i] \in Nat
      /\ DOMAIN sweep' = DOMAIN losers
  <2>0. DOMAIN losers \subseteq Nat /\ \A i \in DOMAIN losers : losers[i] \in OutboxEntry
    BY <1>4
  <2>1. \A i \in DOMAIN losers : losers[i].id \in Ids
    BY <2>0 DEF OutboxEntry
  <2>2. DOMAIN mem \subseteq Nat
    BY <1>2
  <2> QED BY <1>1, <1>2, <1>4, <2>0, <2>1, <2>2
<1>6. \A i, j \in DOMAIN sweep' : sweep'[i] = sweep'[j] => i = j
  <2> SUFFICES ASSUME NEW i \in DOMAIN losers, NEW j \in DOMAIN losers,
                      losers[i].id = losers[j].id, i # j
               PROVE  FALSE
    BY <1>1, <1>5
  <2>1. Ascending(J)[i] \in DOMAIN mem /\ Ascending(J)[j] \in DOMAIN mem
    BY <1>2, <1>4
  <2>2. Ascending(J)[i] = Ascending(J)[j]
    BY <1>4, <2>1, MemApart DEF OutboxInv
  <2>3. i < j \/ j < i
    BY <1>5
  <2> QED BY <1>4, <1>5, <2>2, <2>3
<1>7. sweep' \in Seq(Ids) /\ (sweep' # <<>> <=> losers # <<>>)
  BY <1>1, <1>4, <1>5
<1>8. SweepForm'
  BY <1>1, <1>6, <1>7 DEF SweepForm
<1>9. LosersWait'
  <2> SUFFICES ASSUME NEW k \in DOMAIN sweep', NEW e \in Range(mem), e.id = sweep'[k]
               PROVE  e.status \in {"pending", "acknowledged"}
    BY <1>1 DEF LosersWait, Only
  <2>1. losers[k] \in Range(losers) /\ sweep'[k] = losers[k].id
    BY <1>1 DEF Range
  <2>2. losers[k] \in Range(mem) /\ losers[k].status \in {"pending", "acknowledged"}
    BY <1>3, <1>4, <2>1
  <2>3. e = losers[k]
    BY <2>1, <2>2, MemApart DEF OutboxInv
  <2> QED BY <2>2, <2>3
<1>10. \A r \in Requests : r.by # "echo" /\ r.by # "mark"
  BY <1>1 DEF OutboxInv, HoldInv, Echoes, Marks
<1> QED BY <1>1, <1>8, <1>9, <1>10, FrameSettles

\* The head of the sweep is done with; the losers behind it still wait.
LEMMA SweepGoesOn ==
  ASSUME OutboxInv, pass = "sweeping", sweep' = Tail(sweep), pass' = Swept,
         \A id : Only(id, {"pending", "acknowledged"}) => Only(id, {"pending", "acknowledged"})',
         rejected' = rejected
  PROVE  SweepForm' /\ LosersWait'
<1>1. /\ sweep \in Seq(Ids) /\ sweep # <<>>
      /\ \A i, j \in DOMAIN sweep : sweep[i] = sweep[j] => i = j
  BY DEF OutboxInv, HoldInv, SweepForm
<1>2. /\ sweep' \in Seq(Ids)
      /\ \A i \in DOMAIN sweep' : i \in Nat /\ i >= 1 /\ i + 1 \in DOMAIN sweep /\ sweep'[i] = sweep[i + 1]
      /\ Len(sweep) = 1 <=> sweep' = <<>>
  <2>1. /\ sweep' \in Seq(Ids)
        /\ \A i \in DOMAIN sweep' : i \in Nat /\ i >= 1 /\ i + 1 \in DOMAIN sweep /\ sweep'[i] = sweep[i + 1]
    BY <1>1
  <2>2. Len(sweep') = Len(sweep) - 1 /\ Len(sweep) \in Nat /\ Len(sweep) > 0
    BY <1>1
  <2>3. ASSUME NEW q \in Seq(Ids) PROVE q = <<>> <=> Len(q) = 0
    OBVIOUS
  <2>4. sweep' = <<>> <=> Len(sweep') = 0
    BY <2>1, <2>3, Zenon
  <2>5. Len(sweep) = 1 <=> Len(sweep') = 0
    BY <2>2
  <2> QED BY <2>1, <2>4, <2>5, Zenon
<1>3. \A i, j \in DOMAIN sweep' : sweep'[i] = sweep'[j] => i = j
  <2> SUFFICES ASSUME NEW i \in DOMAIN sweep', NEW j \in DOMAIN sweep', sweep'[i] = sweep'[j]
               PROVE  i = j
    OBVIOUS
  <2>1. i + 1 = j + 1
    BY <1>1, <1>2
  <2> QED BY <1>2, <2>1
<1>4. SweepForm'
  BY <1>2, <1>3 DEF SweepForm, Swept
<1>5. ASSUME NEW k \in DOMAIN sweep', NEW id, id = sweep'[k]
      PROVE  id \in rejected' \/ Only(id, {"pending", "acknowledged"})'
  <2>1. k + 1 \in DOMAIN sweep /\ k + 1 > 1 /\ id = sweep[k + 1]
    BY <1>2, <1>5
  <2>2. id \in rejected \/ Only(id, {"pending", "acknowledged"})
    BY <2>1 DEF OutboxInv, HoldInv, LosersWait
  <2> QED BY <2>2
<1>6. LosersWait'
  BY <1>5 DEF LosersWait, Only
<1> QED BY <1>4, <1>6

LEMMA MarkConflictedSettles == OutboxInv /\ MarkConflicted => SettleInv' /\ HoldInv'
<1> SUFFICES ASSUME OutboxInv, MarkConflicted PROVE SettleInv' /\ HoldInv'
  OBVIOUS
<1> DEFINE id == Head(sweep)  row == EntryOf(mem', id)  r == PutReq(row, "mark")
<1>1. /\ pass = "sweeping" /\ ~Waiting("mark")
      /\ UNCHANGED <<store, flush, acked, dropped, rejected>>
  BY DEF MarkConflicted, history
<1>2. /\ \A s \in Requests : s.by # "mark" /\ s.by # "echo"
      /\ sweep \in Seq(Ids) /\ sweep # <<>> /\ mem \in Seq(OutboxEntry) /\ ops \in Seq(RequestType)
      /\ \A i, j \in DOMAIN sweep : sweep[i] = sweep[j] => i = j
  BY <1>1, NotWaiting DEF OutboxInv, KeepInv, TypeInv, HoldInv, Echoes, SweepForm
<1>3. 1 \in DOMAIN sweep /\ id = sweep[1] /\ id \in Ids
  BY <1>2
<1>4. CASE ~Known(id) /\ sweep' = Tail(sweep) /\ pass' = Swept /\ UNCHANGED <<mem, ops>>
  <2>1. SweepForm' /\ LosersWait'
    <3>1. \A x, S : Only(x, S) => Only(x, S)'
      BY <1>4 DEF Only
    <3> QED BY <1>1, <1>4, <3>1, SweepGoesOn
  <2> QED BY <1>1, <1>2, <1>4, <2>1, FrameSettles
<1>5. CASE /\ Known(id) /\ mem' = WithStatus(mem, id, "conflicted")
           /\ ops' = Append(ops, r) /\ UNCHANGED <<sweep, pass>>
  <2>1. /\ mem' \in Seq(OutboxEntry)
        /\ \A e \in Range(mem') : \E f \in Range(mem) :
             Alike(e, f) /\ IF e.id = id THEN e.status = "conflicted" ELSE e = f
        /\ \A f \in Range(mem) : \E e \in Range(mem') :
             Alike(e, f) /\ IF e.id = id THEN e.status = "conflicted" ELSE e = f
    <3> HIDE DEF id
    <3>1. "conflicted" \in OutboxStatus
      BY DEF OutboxStatus
    <3> QED BY <1>2, <1>5, <3>1, WithStatusIs
  <2> HIDE DEF id
  <2>2. PICK f \in Range(mem) : f.id = id
    BY <1>5 DEF Known, Buffered
  <2>3. Buffered(mem', id, {"conflicted"})
    BY <2>1, <2>2 DEF Buffered, Alike
  <2>4. row \in OutboxEntry /\ row.id = id /\ row.status = "conflicted"
    <3>1. row \in Range(mem') /\ row \in OutboxEntry /\ row.id = id
      BY <2>1, <2>3, EntryIs
    <3> QED BY <2>1, <3>1
  <2> HIDE DEF row
  <2>5. /\ r \in RequestType /\ FormOf(r) /\ r.row = row /\ r.by = "mark" /\ r.op = "put"
    <3>1. "mark" \in AppOps \union {"flush", "echo", "mark"}
      OBVIOUS
    <3>2. r \in RequestType /\ r.row = row /\ r.by = "mark" /\ r.op = "put" /\ r.drop = row.id
      BY <1>3, <2>4, <3>1, RequestIs
    <3> HIDE DEF r
    <3> QED BY <2>4, <3>2 DEF FormOf
  <2> HIDE DEF r
  <2>6. Requests' = Requests \union {r}
    BY <1>2, <1>5, <2>5, Pushed
  <2>7. /\ \A x, S : x # id /\ Only(x, S) => Only(x, S)'
        /\ \A x, S : "conflicted" \in S /\ Only(x, S) => Only(x, S)'
    BY <2>1 DEF Only, Alike
  <2>8. id \in rejected \/ Only(id, {"pending", "acknowledged"})
    BY <1>2, <1>3 DEF OutboxInv, HoldInv, LosersWait
  <2>9. id \in rejected \/ \A s \in Requests : Drops(s) => s.drop # id
    <3> SUFFICES ASSUME id \notin rejected, NEW s \in Requests, Drops(s), s.drop = id PROVE FALSE
      OBVIOUS
    <3>1. Only(id, {"error", "conflicted"})
      BY DEF OutboxInv, SettleInv, ResolvedAreHeld
    <3> QED BY <2>2, <2>8, <3>1 DEF Only
  <2>10. ~FlushPut(r) /\ ~Drops(r) /\ r.by # "flush" /\ r.by # "retry" /\ r.by # "echo"
    BY <2>5 DEF FlushPut, Drops
  <2> HIDE DEF Requests
  <2>11. \A e \in Range(mem') : e.status # "conflicted" => e \in Range(mem)
    BY <2>1
  <2>12. RepairForm'
    BY <1>1, <2>6, <2>10 DEF OutboxInv, SettleInv, RepairForm
  <2>13. AheadUnsettled'
    BY <1>1, <2>6, <2>7, <2>10 DEF OutboxInv, SettleInv, AheadUnsettled
  <2>14. NoneRevived' /\ ErrorsRejected'
    BY <1>1, <2>6, <2>10, <2>11 DEF OutboxInv, SettleInv, NoneRevived, ErrorsRejected, Settled
  <2>15. ResolvedAreHeld'
    BY <2>6, <2>7, <2>10 DEF OutboxInv, SettleInv, ResolvedAreHeld
  <2>16. DropsBehindFlush' /\ MarksFirst' /\ MarksBehindFlush'
    BY <1>1, <1>2, <1>5, <2>4, <2>5, <2>9, <2>10, PushedOrder DEF OutboxInv, SettleInv, HoldInv
  <2>17. OneOf("echo")' /\ OneOf("mark")'
    BY <1>2, <1>5, <2>5, PushedKeeps DEF OutboxInv, HoldInv, Echoes, Marks
  <2>18. Echoes'
    BY <1>2, <2>6, <2>10, <2>17 DEF Echoes
  <2>19. SweepForm'
    BY <1>5 DEF OutboxInv, HoldInv, SweepForm
  <2>20. Marks'
    BY <1>1, <1>2, <1>5, <2>3, <2>4, <2>5, <2>6, <2>17 DEF Marks, id
  <2>21. LosersWait'
    <3> SUFFICES ASSUME NEW k \in DOMAIN sweep, k > 1, NEW x, x = sweep[k]
                 PROVE  x \in rejected \/ Only(x, {"pending", "acknowledged"})'
      BY <1>1, <1>2, <1>5, <2>5, <2>6 DEF LosersWait, Only
    <3>1. x # id
      BY <1>2, <1>3
    <3> QED BY <2>7, <3>1 DEF OutboxInv, HoldInv, LosersWait
  <2>22. RowsHeld'
    BY <1>1, <2>7 DEF OutboxInv, HoldInv, RowsHeld
  <2>23. FlushHolds'
    <3> SUFFICES ASSUME NEW s \in Requests, s.by = "flush", s.row.id \notin rejected
                 PROVE  /\ FlushPut(s) => ~HeldRow(s.row.id)'
                        /\ s.op = "put" /\ ~FlushPut(s) => Only(s.row.id, {"conflicted"})'
                        /\ s.op = "delete" =>
                             Only(s.drop, {})' /\ ~HeldRow(s.drop)' /\ ~Marking(s.drop)'
      BY <1>1, <2>6, <2>10 DEF FlushHolds, FlushPut
    <3>1. /\ FlushPut(s) => ~HeldRow(s.row.id)
          /\ s.op = "put" /\ ~FlushPut(s) => Only(s.row.id, {"conflicted"})
          /\ s.op = "delete" => Only(s.drop, {}) /\ ~HeldRow(s.drop) /\ ~Marking(s.drop)
      BY DEF OutboxInv, HoldInv, FlushHolds
    <3>2. s.op = "delete" => s.drop # id
      BY <2>2, <3>1 DEF Only
    <3>3. \A x : HeldRow(x)' <=> HeldRow(x)
      BY <1>1 DEF HeldRow
    <3>4. \A x : x # id /\ ~Marking(x) => ~Marking(x)'
      BY <2>4, <2>5, <2>6 DEF Marking
    <3> QED BY <2>7, <3>1, <3>2, <3>3, <3>4
  <2> QED BY <2>12, <2>13, <2>14, <2>15, <2>16, <2>18, <2>19, <2>20, <2>21, <2>22, <2>23
          DEF SettleInv, HoldInv
<1> QED BY <1>4, <1>5 DEF MarkConflicted

-----------------------------------------------------------------------------
(* Operations that only issue a request *)

LEMMA OnlyOne ==
  ASSUME KeepInv, NEW id, NEW status, Buffered(mem, id, {status})
  PROVE  Only(id, {status})
BY MemApart DEF Buffered, Only

LEMMA EnqueueSettles == OutboxInv => \A id \in Ids : Enqueue(id) => SettleInv' /\ HoldInv'
<1> SUFFICES ASSUME OutboxInv, NEW id \in Ids, Enqueue(id) PROVE SettleInv' /\ HoldInv'
  OBVIOUS
<1> DEFINE row == [id |-> id, status |-> "pending", hlc |-> clock + 1, basedOnGsn |-> cursor]
           r == PutReq(row, "enqueue")
<1>1. /\ ops' = Append(ops, r)
      /\ UNCHANGED <<mem, store, flush, pass, sweep, acked, dropped, rejected>>
  BY DEF Enqueue, session, history
<1>2. row \in OutboxEntry /\ row.id = id /\ row.status = "pending"
  BY DEF OutboxEntry, OutboxStatus, OutboxInv, KeepInv, TypeInv
<1> HIDE DEF row
<1>3. r \in RequestType /\ r.row = row /\ r.drop = id /\ r.op = "put" /\ r.by = "enqueue"
  BY <1>2, RequestIs DEF AppOps
<1> HIDE DEF r
<1>4. FormOf(r) /\ ~Drops(r) /\ r.by \in AppOps
  BY <1>2, <1>3 DEF FormOf, Drops, AppOps
<1> QED BY <1>1, <1>3, <1>4, IssueSettles

LEMMA RetrySettles == OutboxInv => \A id \in Ids : Retry(id) => SettleInv' /\ HoldInv'
<1> SUFFICES ASSUME OutboxInv, NEW id \in Ids, Retry(id) PROVE SettleInv' /\ HoldInv'
  OBVIOUS
<1> DEFINE e == EntryOf(mem, id)
           row == [e EXCEPT !.status = "pending"]
           r == PutReq(row, "retry")
<1>1. /\ Buffered(mem, id, {"error"}) /\ ops' = Append(ops, r)
      /\ UNCHANGED <<mem, store, flush, pass, sweep, acked, dropped, rejected>>
  BY DEF Retry, session, history
<1>2. e \in OutboxEntry /\ e.id = id
  BY <1>1, HeldEntry DEF OutboxInv
<1> HIDE DEF e
<1>3. row \in OutboxEntry /\ row.id = id /\ row.status = "pending"
  BY <1>2 DEF OutboxEntry, OutboxStatus
<1> HIDE DEF row
<1>4. r \in RequestType /\ r.row = row /\ r.drop = id /\ r.op = "put" /\ r.by = "retry"
  BY <1>3, RequestIs DEF AppOps
<1> HIDE DEF r
<1>5. FormOf(r) /\ ~Drops(r) /\ r.by \in AppOps /\ r.row.id = id
  BY <1>3, <1>4 DEF FormOf, Drops, AppOps
<1> QED BY <1>1, <1>4, <1>5, IssueSettles

LEMMA ClearSettles ==
  OutboxInv => \A id \in Ids, status \in {"error", "conflicted"} :
                 Clear(id, status) => SettleInv' /\ HoldInv'
<1> SUFFICES ASSUME OutboxInv, NEW id \in Ids, NEW status \in {"error", "conflicted"}, Clear(id, status)
             PROVE  SettleInv' /\ HoldInv'
  OBVIOUS
<1> DEFINE row == EntryOf(mem, id)
           r == DeleteReq(row, "clear")
<1>1. /\ Buffered(mem, id, {status}) /\ ops' = Append(ops, r)
      /\ UNCHANGED <<mem, store, flush, pass, sweep, acked, dropped, rejected>>
  BY DEF Clear, session, history
<1>2. row \in OutboxEntry /\ row.id = id
  BY <1>1, HeldEntry DEF OutboxInv
<1> HIDE DEF row
<1>3. r \in RequestType /\ r.row = row /\ r.drop = id /\ r.op = "delete" /\ r.by = "clear"
  BY <1>2, RequestIs DEF AppOps
<1> HIDE DEF r
<1>4. FormOf(r) /\ r.by \in AppOps
  BY <1>2, <1>3 DEF FormOf, AppOps
<1>5. Only(id, {"error", "conflicted"})
  BY <1>1, OnlyOne DEF Only, OutboxInv
<1> QED BY <1>1, <1>3, <1>4, <1>5, IssueSettles

LEMMA RetryConflictedSettles ==
  OutboxInv => \A id, new \in Ids : RetryConflicted(id, new) => SettleInv' /\ HoldInv'
<1> SUFFICES ASSUME OutboxInv, NEW id \in Ids, NEW new \in Ids, RetryConflicted(id, new)
             PROVE  SettleInv' /\ HoldInv'
  OBVIOUS
<1> DEFINE row == [id |-> new, status |-> "pending", hlc |-> clock + 1, basedOnGsn |-> cursor]
           r == SwapReq(row, id, "retryConflicted")
<1>1. /\ Buffered(mem, id, {"conflicted"}) /\ ops' = Append(ops, r)
      /\ UNCHANGED <<mem, store, flush, pass, sweep, acked, dropped, rejected>>
  BY DEF RetryConflicted, session, history
<1>2. row \in OutboxEntry /\ row.status = "pending"
  BY DEF OutboxEntry, OutboxStatus, OutboxInv, KeepInv, TypeInv
<1> HIDE DEF row
<1>3. r \in RequestType /\ r.row = row /\ r.drop = id /\ r.op = "putAndDelete" /\ r.by = "retryConflicted"
  BY <1>2, RequestIs DEF AppOps
<1> HIDE DEF r
<1>4. FormOf(r) /\ r.by \in AppOps
  BY <1>2, <1>3 DEF FormOf, AppOps
<1>5. Only(id, {"error", "conflicted"})
  BY <1>1, OnlyOne DEF Only, OutboxInv
<1> QED BY <1>1, <1>3, <1>4, <1>5, IssueSettles

LEMMA DeliverSettles == OutboxInv /\ Deliver => SettleInv' /\ HoldInv'
<1> SUFFICES ASSUME OutboxInv, Deliver PROVE SettleInv' /\ HoldInv'
  OBVIOUS
<1> DEFINE id == log[applied + 1].id
           row == EntryOf(mem, id)
           r == DeleteReq(row, "echo")
<1>1. /\ pass \in {"off", "draining"} /\ ~Waiting("echo")
      /\ UNCHANGED <<mem, store, flush, pass, sweep, acked, dropped, rejected>>
      /\ \/ Buffered(mem, id, {"pending", "acknowledged"}) /\ ops' = Append(ops, r)
         \/ ops' = ops
  BY DEF Deliver, Received, history
<1>2. \A s \in Requests : s.by # "echo"
  BY <1>1, NotWaiting
<1>3. CASE ops' = ops
  BY <1>1, <1>2, <1>3, SameSweepSettles
<1>4. CASE Buffered(mem, id, {"pending", "acknowledged"}) /\ ops' = Append(ops, r)
  <2>1. row \in OutboxEntry /\ row.id = id
    BY <1>4, HeldEntry DEF OutboxInv
  <2> HIDE DEF row, id
  <2>2. r \in RequestType /\ r.row = row /\ r.drop = id /\ r.op = "delete" /\ r.by = "echo"
    <3>1. id \in Ids
      BY <2>1 DEF OutboxEntry
    <3> QED BY <2>1, <3>1, RequestIs
  <2>3. ops' = Append(ops, r)
    BY <1>4
  <2> HIDE DEF r
  <2>4. FormOf(r) /\ ~Drops(r)
    BY <2>1, <2>2 DEF FormOf, Drops
  <2> QED BY <1>1, <1>2, <1>4, <2>2, <2>3, <2>4, IssueSettles
<1> QED BY <1>1, <1>3, <1>4

-----------------------------------------------------------------------------
(* Requests that complete *)

LEMMA HeadApart ==
  ASSUME KeepInv, ops # <<>>, ops' = Tail(ops), NEW h, h = Head(ops)
  PROVE  /\ Requests = Requests' \union {h} /\ h \in RequestType /\ FormOf(h)
         /\ h.by # "enqueue" => h.drop \in authored
         /\ h.by \in AppOps => \A s \in Requests' :
              s.by \in AppOps => Touches(h) \intersect Touches(s) = {}
         /\ Authors(h) => h.row.id \notin authored /\ \A s \in Requests' : h.row.id \notin Touches(s)
<1>1. /\ ops \in Seq(RequestType) /\ RequestForms /\ AppOpsApart /\ IdsAuthored
  BY DEF KeepInv, TypeInv
<1>2. Requests = Requests' \union {h} /\ h \in RequestType
  BY <1>1, Popped
<1>3. /\ FormOf(h)
      /\ h.by \in AppOps => \A s \in Requests' :
           s.by \in AppOps => Touches(h) \intersect Touches(s) = {}
  BY <1>1, PoppedKeeps
<1> HIDE DEF Requests
<1>4. \A s \in Requests : FormOf(s) /\ (s.by # "enqueue" => s.drop \in authored)
  BY <1>1 DEF RequestForms, IdsAuthored
<1>5. ASSUME Authors(h)
      PROVE  h.row.id \notin authored /\ \A s \in Requests' : h.row.id \notin Touches(s)
  <2>1. h.row.id \notin authored /\ h.by \in AppOps
    BY <1>1, <1>2, <1>5 DEF IdsAuthored, Authors, AppOps
  <2> SUFFICES ASSUME NEW s \in Requests' PROVE h.row.id \notin Touches(s)
    BY <2>1
  <2>2. CASE s.by \in AppOps
    BY <1>3, <2>1, <2>2 DEF Touches
  <2>3. CASE s.by \notin AppOps
    <3>1. s \in RequestType /\ s.by # "enqueue" /\ s.by # "retryConflicted"
      BY <1>1, <1>2, <2>3, HeldType DEF AppOps, KeepInv
    <3>2. s.drop = s.row.id
      BY <1>2, <1>4, <2>3, <3>1 DEF FormOf, RequestType, AppOps
    <3> QED BY <1>2, <1>4, <2>1, <3>1, <3>2 DEF Touches
  <2> QED BY <2>2, <2>3
<1> QED BY <1>2, <1>3, <1>4, <1>5

\* A request that completes ends no hold and settles nothing that is still queued.
LEMMA HeadSettles ==
  ASSUME OutboxInv, ops # <<>>, ops' = Tail(ops), NEW h, h = Head(ops), h.by # "flush",
         UNCHANGED <<flush, acked, rejected>>,
         \A e \in Range(mem') : \/ e \in Range(mem)
                                \/ /\ e.id = h.row.id /\ e.status = "pending"
                                   /\ Authors(h) \/ h.by = "retry",
         store' = store \/ store' = StoreAfter(h),
         \/ dropped' = dropped
         \/ /\ Drops(h) /\ dropped' = dropped \union {h.drop}
            /\ store' = StoreAfter(h) /\ \A e \in Range(mem') : e.id # h.drop
  PROVE  SettleInv' /\ MarksFirst' /\ MarksBehindFlush' /\ RowsHeld' /\ FlushHolds'
<1>1. /\ Requests = Requests' \union {h} /\ h \in RequestType /\ FormOf(h)
      /\ h.by # "enqueue" => h.drop \in authored
      /\ h.by \in AppOps => \A s \in Requests' :
           s.by \in AppOps => Touches(h) \intersect Touches(s) = {}
      /\ Authors(h) => h.row.id \notin authored /\ \A s \in Requests' : h.row.id \notin Touches(s)
  BY HeadApart DEF OutboxInv
<1>2. /\ DropsBehindFlush'
      /\ Drops(h) => \A r \in Requests' : FlushPut(r) => h.drop # r.row.id
      /\ MarksFirst' /\ MarksBehindFlush'
      /\ h.by = "mark" => \A r \in Requests' :
           FlushPut(r) /\ r.row.id = h.row.id => r.row.id \in rejected
  BY PoppedOrder DEF OutboxInv, KeepInv, TypeInv, SettleInv, HoldInv
<1> HIDE DEF Requests
<1> DEFINE Restored == \/ h.row.status = "pending" /\ (Authors(h) \/ h.by = "retry")
                       \/ h.row.status = "conflicted" /\ h.by = "mark"
<1>3. \A e \in store' : \/ e \in store /\ (Drops(h) => e.id # h.drop \/ dropped' = dropped)
                        \/ e = h.row /\ Restored
  <2>1. \A e \in StoreAfter(h) : (e \in store /\ e.id \notin Touches(h)) \/ (e = h.row /\ h.op # "delete")
    BY <1>1, StoreAfterIs DEF OutboxInv, KeepInv
  <2>2. h.op # "delete" => Restored
    BY <1>1 DEF FormOf, RequestType, AppOps, Authors
  <2>3. CASE store' = store
    <3>1. Drops(h) => store' # StoreAfter(h) \/ \A e \in store' : e.id # h.drop
      <4> SUFFICES ASSUME Drops(h), store' = StoreAfter(h), NEW e \in store', e.id = h.drop PROVE FALSE
        OBVIOUS
      <4>1. e = h.row /\ h.op # "delete"
        BY <2>1 DEF Touches
      <4>2. Authors(h)
        BY <2>2, <4>1 DEF Authors, Drops
      <4>3. h.row.id \notin authored /\ h.drop \in authored
        BY <1>1, <4>2 DEF Drops
      <4> QED BY <4>1, <4>3
    <3> QED BY <2>3, <3>1
  <2>4. CASE store' = StoreAfter(h)
    BY <2>1, <2>2, <2>4 DEF Touches
  <2> QED BY <2>3, <2>4
<1>4. /\ h.by = "retry" => h.row.id \in rejected /\ h.row.id \notin Settled /\ h.drop = h.row.id
      /\ Authors(h) => h.row.id \notin Settled
      /\ Drops(h) => h.by \in AppOps /\ h.drop \in authored
      /\ Authors(h) \/ h.by = "retry" => h.by \in AppOps
  <2>1. h.by = "retry" => h.row.id \in rejected /\ h.row.id \notin Settled
    BY <1>1 DEF OutboxInv, SettleInv, NoneRevived, ErrorsRejected
  <2>2. Authors(h) => h.row.id \notin Settled
    BY <1>1 DEF OutboxInv, KeepInv, TypeInv, Settled
  <2> QED BY <1>1, <2>1, <2>2 DEF FormOf, Authors, Drops, AppOps
<1>5. Settled \subseteq Settled' /\ \A x \in Settled' : x \in Settled \/ (Drops(h) /\ x = h.drop /\ dropped' # dropped)
  BY DEF Settled
<1>6. RepairForm'
  BY <1>1 DEF OutboxInv, SettleInv, RepairForm
<1>7. AheadUnsettled'
  <2>1. \A x : Only(x, {"pending", "conflicted"}) => Only(x, {"pending", "conflicted"})'
    BY DEF Only
  <2> QED BY <1>1, <2>1 DEF OutboxInv, SettleInv, AheadUnsettled, Only
<1>8. NoneRevived'
  <2>1. ASSUME NEW e \in Range(mem') \union store', e.status \in {"pending", "error"}, e.id \in Settled'
        PROVE  FALSE
    <3>1. CASE e.id = h.row.id /\ (Authors(h) \/ h.by = "retry")
      <4>1. e.id \notin Settled
        BY <1>4, <3>1
      <4>2. Drops(h) /\ e.id = h.drop
        BY <1>5, <2>1, <4>1
      <4>3. Authors(h)
        BY <3>1, <4>2 DEF Drops
      <4> QED BY <1>1, <1>4, <3>1, <4>2, <4>3
    <3>2. CASE e \in Range(mem) /\ e \in Range(mem')
      <4>1. e.id \notin Settled
        BY <2>1, <3>2 DEF OutboxInv, SettleInv, NoneRevived
      <4> QED BY <1>5, <2>1, <3>2, <4>1
    <3>3. CASE e \in store /\ (Drops(h) => e.id # h.drop \/ dropped' = dropped)
      <4>1. e.id \notin Settled
        BY <2>1, <3>3 DEF OutboxInv, SettleInv, NoneRevived
      <4> QED BY <1>5, <2>1, <3>3, <4>1
    <3> QED BY <1>3, <2>1, <3>1, <3>2, <3>3
  <2>2. ASSUME NEW r \in Requests', r.by = "retry" \/ (FlushPut(r) /\ r.row.status = "error"),
               r.row.id \in Settled'
        PROVE  FALSE
    <3>1. r.row.id \notin Settled
      BY <1>1, <2>2 DEF OutboxInv, SettleInv, NoneRevived
    <3>2. Drops(h) /\ r.row.id = h.drop
      BY <1>5, <2>2, <3>1
    <3>3. r.by = "retry"
      BY <1>2, <2>2, <3>2
    <3> QED BY <1>1, <1>4, <3>2, <3>3 DEF Touches, AppOps
  <2> QED BY <2>1, <2>2 DEF NoneRevived, FlushPut
<1>9. ErrorsRejected'
  BY <1>1, <1>3 DEF OutboxInv, SettleInv, ErrorsRejected
<1>10. ResolvedAreHeld'
  <2> SUFFICES ASSUME NEW r \in Requests', r.by = "retry" \/ Drops(r),
                      NEW e \in Range(mem'), e.id = r.drop
               PROVE  e.status \in {"error", "conflicted"}
    BY DEF ResolvedAreHeld, Only, Drops
  <2>1. r.by \in AppOps
    BY DEF Drops, AppOps
  <2>2. e \in Range(mem)
    BY <1>1, <1>4, <2>1 DEF Touches
  <2> QED BY <1>1, <2>2 DEF OutboxInv, SettleInv, ResolvedAreHeld, Only
<1>11. \A e \in Range(mem') : e \in Range(mem) \/ e.id \in rejected \/ (Authors(h) /\ e.id = h.row.id)
  BY <1>4
<1>12. RowsHeld'
  <2> SUFFICES ASSUME NEW e \in store', e.status = "conflicted", e.id \notin rejected,
                      NEW f \in Range(mem'), f.id = e.id
               PROVE  f.status = "conflicted"
    BY DEF RowsHeld, Only
  <2>1. CASE e \in store
    <3>1. e.id \in authored
      BY <2>1 DEF OutboxInv, KeepInv, IdsAuthored
    <3>2. f \in Range(mem)
      BY <1>1, <1>11, <3>1
    <3> QED BY <2>1, <3>2 DEF OutboxInv, HoldInv, RowsHeld, Only
  <2>2. CASE e = h.row /\ h.by = "mark"
    <3>1. Buffered(mem, h.row.id, {"conflicted"})
      BY <1>1, <2>2 DEF OutboxInv, HoldInv, Marks
    <3>2. Only(h.row.id, {"conflicted"})
      BY <3>1, OnlyOne DEF OutboxInv
    <3>3. f \in Range(mem)
      BY <1>11, <2>2 DEF Authors
    <3> QED BY <2>2, <3>2, <3>3 DEF Only
  <2> QED BY <1>3, <2>1, <2>2
<1>13. FlushHolds'
  <2> SUFFICES ASSUME NEW r \in Requests', r.by = "flush", r.row.id \notin rejected
               PROVE  /\ FlushPut(r) => ~HeldRow(r.row.id)'
                      /\ r.op = "put" /\ ~FlushPut(r) => Only(r.row.id, {"conflicted"})'
                      /\ r.op = "delete" => Only(r.drop, {})' /\ ~HeldRow(r.drop)' /\ ~Marking(r.drop)'
    BY DEF FlushHolds, FlushPut
  <2>1. /\ FlushPut(r) => ~HeldRow(r.row.id)
        /\ r.op = "put" /\ ~FlushPut(r) => Only(r.row.id, {"conflicted"})
        /\ r.op = "delete" => Only(r.drop, {}) /\ ~HeldRow(r.drop) /\ ~Marking(r.drop)
    BY <1>1 DEF OutboxInv, HoldInv, FlushHolds
  <2>2. \A x : HeldRow(x)' => HeldRow(x) \/ (h.by = "mark" /\ x = h.row.id)
    BY <1>3 DEF HeldRow
  <2>3. FlushPut(r) => ~HeldRow(r.row.id)'
    BY <1>2, <2>1, <2>2
  <2>4. r.drop = r.row.id
    BY <1>1 DEF OutboxInv, KeepInv, RequestForms, FormOf
  <2>5. \A S : Only(r.row.id, S) => Only(r.row.id, S)'
    BY <1>1, <1>11 DEF Only, Touches
  <2>6. \A x : ~Marking(x) => ~Marking(x)' /\ ~(h.by = "mark" /\ x = h.row.id)
    BY <1>1 DEF Marking
  <2> QED BY <2>1, <2>2, <2>3, <2>4, <2>5, <2>6
<1> QED BY <1>2, <1>6, <1>7, <1>8, <1>9, <1>10, <1>12, <1>13 DEF SettleInv

LEMMA CompleteSettles ==
  ASSUME OutboxInv, ops # <<>>, ops' = Tail(ops), NEW h, h = Head(ops), h.by \in AppOps \union {"echo"},
         UNCHANGED <<flush, acked, rejected, pass, sweep>>,
         \A e \in Range(mem') : \/ e \in Range(mem)
                                \/ /\ e.id = h.row.id /\ e.status = "pending"
                                   /\ Authors(h) \/ h.by = "retry",
         \A e \in Range(mem) : \/ e \in Range(mem')
                               \/ h.by = "retry" /\ e.id = h.row.id
                               \/ e.id = h.drop /\ (Drops(h) \/ h.by = "echo"),
         store' = store \/ store' = StoreAfter(h),
         \/ dropped' = dropped
         \/ /\ Drops(h) /\ dropped' = dropped \union {h.drop}
            /\ store' = StoreAfter(h) /\ \A e \in Range(mem') : e.id # h.drop
  PROVE  SettleInv' /\ HoldInv'
<1>1. h.by # "flush" /\ h.by # "mark"
  BY DEF AppOps
<1>2. SettleInv' /\ MarksFirst' /\ MarksBehindFlush' /\ RowsHeld' /\ FlushHolds'
  BY <1>1, HeadSettles
<1>3. /\ Requests = Requests' \union {h} /\ h \in RequestType
      /\ Drops(h) => \A r \in Requests' :
           r.by = "mark" /\ h.drop = r.row.id => r.row.id \in rejected
      /\ \A by : OneOf(by) => /\ OneOf(by)' /\ (h.by = by => \A r \in Requests' : r.by # by)
  BY Popped, PoppedOrder, PoppedKeeps DEF OutboxInv, KeepInv, TypeInv, HoldInv
<1> HIDE DEF Requests
<1>4. h.by = "retry" => h.row.id \in rejected
  BY <1>3 DEF OutboxInv, SettleInv, ErrorsRejected
<1>5. ASSUME NEW id, NEW statuses, Buffered(mem, id, statuses), id \notin rejected,
             ~(id = h.drop /\ (Drops(h) \/ h.by = "echo"))
      PROVE  Buffered(mem', id, statuses)
  BY <1>4, <1>5 DEF Buffered
<1>6. Echoes'
  <2> SUFFICES ASSUME NEW r \in Requests', r.by = "echo"
               PROVE  /\ pass \in {"off", "draining"}
                      /\ r.drop \in rejected \/ Buffered(mem', r.drop, {"pending", "acknowledged"})
    BY <1>3 DEF OutboxInv, HoldInv, Echoes
  <2>1. /\ pass \in {"off", "draining"} /\ h.by # "echo"
        /\ r.drop \in rejected \/ Buffered(mem, r.drop, {"pending", "acknowledged"})
    BY <1>3 DEF OutboxInv, HoldInv, Echoes
  <2>2. Buffered(mem, r.drop, {"pending", "acknowledged"}) /\ Drops(h) => r.drop # h.drop
    <3> SUFFICES ASSUME Buffered(mem, r.drop, {"pending", "acknowledged"}), Drops(h), r.drop = h.drop
                 PROVE  FALSE
      OBVIOUS
    <3>1. Only(h.drop, {"error", "conflicted"})
      BY <1>3 DEF OutboxInv, SettleInv, ResolvedAreHeld
    <3> QED BY <3>1 DEF Only, Buffered
  <2> QED BY <1>5, <2>1, <2>2
<1>7. Marks'
  <2> SUFFICES ASSUME NEW r \in Requests', r.by = "mark"
               PROVE  /\ pass = "sweeping" /\ r.row.id = Head(sweep)
                      /\ r.row.id \in rejected \/ Buffered(mem', r.row.id, {"conflicted"})
    BY <1>3 DEF OutboxInv, HoldInv, Marks
  <2>1. /\ pass = "sweeping" /\ r.row.id = Head(sweep)
        /\ r.row.id \in rejected \/ Buffered(mem, r.row.id, {"conflicted"})
    BY <1>3 DEF OutboxInv, HoldInv, Marks
  <2>2. h.by # "echo"
    BY <1>3, <2>1 DEF OutboxInv, HoldInv, Echoes
  <2> QED BY <1>3, <1>5, <2>1, <2>2
<1>8. LosersWait'
  <2>1. \A x : Only(x, {"pending", "acknowledged"}) => Only(x, {"pending", "acknowledged"})'
    BY DEF Only
  <2> QED BY <1>1, <1>3, <2>1 DEF OutboxInv, HoldInv, LosersWait, Only
<1>9. SweepForm'
  BY DEF OutboxInv, HoldInv, SweepForm
<1> QED BY <1>2, <1>6, <1>7, <1>8, <1>9 DEF HoldInv

LEMMA EnqueueStoredSettles == OutboxInv /\ EnqueueStored => SettleInv' /\ HoldInv'
<1> SUFFICES ASSUME OutboxInv, EnqueueStored PROVE SettleInv' /\ HoldInv'
  OBVIOUS
<1> DEFINE h == Head(ops)
<1>1. /\ ops # <<>> /\ ops' = Tail(ops) /\ h.by = "enqueue"
      /\ UNCHANGED <<flush, acked, rejected, pass, sweep, dropped>>
      /\ \/ store' = StoreAfter(h) /\ mem' = Append(mem, h.row)
         \/ store' = store /\ mem' = mem
  BY DEF EnqueueStored, Completes, Fails, session
<1>2. mem \in Seq(OutboxEntry) /\ h.row \in OutboxEntry /\ FormOf(h)
  BY <1>1, HeadIs DEF OutboxInv, KeepInv, TypeInv
<1> HIDE DEF h
<1>3. Range(mem') = Range(mem) \union {h.row} \/ mem' = mem
  <2> DEFINE row == h.row
  <2>1. row \in OutboxEntry /\ (mem' = Append(mem, row) \/ mem' = mem)
    BY <1>1, <1>2
  <2> HIDE DEF row
  <2>2. Range(Append(mem, row)) = Range(mem) \union {row}
    BY <1>2, <2>1, RangeAppend
  <2>3. Range(mem') = Range(mem) \union {row} \/ mem' = mem
    BY <2>1, <2>2
  <2> QED BY <2>3 DEF row
<1>4. h.row.status = "pending" /\ Authors(h) /\ h.by \in AppOps
  BY <1>1, <1>2 DEF FormOf, Authors, AppOps
<1> QED BY <1>1, <1>3, <1>4, CompleteSettles DEF h

LEMMA RetryStoredSettles == OutboxInv /\ RetryStored => SettleInv' /\ HoldInv'
<1> SUFFICES ASSUME OutboxInv, RetryStored PROVE SettleInv' /\ HoldInv'
  OBVIOUS
<1> DEFINE h == Head(ops)
<1>1. /\ ops # <<>> /\ ops' = Tail(ops) /\ h.by = "retry"
      /\ UNCHANGED <<flush, acked, rejected, pass, sweep, dropped>>
      /\ \/ store' = StoreAfter(h) /\ mem' = WithStatus(mem, h.row.id, "pending")
         \/ store' = store /\ mem' = mem
  BY DEF RetryStored, Completes, Fails, session, history
<1>2. mem \in Seq(OutboxEntry)
  BY DEF OutboxInv, KeepInv, TypeInv
<1> HIDE DEF h
<1>3. \/ mem' = mem
      \/ /\ \A e \in Range(mem') : e \in Range(mem) \/ (e.id = h.row.id /\ e.status = "pending")
         /\ \A e \in Range(mem) : e \in Range(mem') \/ e.id = h.row.id
  <2>1. "pending" \in OutboxStatus
    BY DEF OutboxStatus
  <2> DEFINE id == h.row.id  w == WithStatus(mem, id, "pending")
  <2>2. mem' = mem \/ mem' = w
    BY <1>1
  <2> HIDE DEF id
  <2>3. /\ \A e \in Range(w) : \E f \in Range(mem) :
             Alike(e, f) /\ IF e.id = id THEN e.status = "pending" ELSE e = f
        /\ \A f \in Range(mem) : \E e \in Range(w) :
             Alike(e, f) /\ IF e.id = id THEN e.status = "pending" ELSE e = f
    BY <1>2, <2>1, WithStatusIs
  <2> HIDE DEF w
  <2>4. \/ mem' = mem
        \/ /\ \A e \in Range(mem') : e \in Range(mem) \/ (e.id = id /\ e.status = "pending")
           /\ \A e \in Range(mem) : e \in Range(mem') \/ e.id = id
    BY <2>2, <2>3 DEF Alike
  <2> QED BY <2>4 DEF id
<1>4. h.by \in AppOps
  BY <1>1 DEF AppOps
<1> QED BY <1>1, <1>3, <1>4, CompleteSettles DEF h

LEMMA ClearStoredSettles == OutboxInv /\ ClearStored => SettleInv' /\ HoldInv'
<1> SUFFICES ASSUME OutboxInv, ClearStored PROVE SettleInv' /\ HoldInv'
  OBVIOUS
<1> DEFINE h == Head(ops)
<1>1. /\ ops # <<>> /\ ops' = Tail(ops) /\ h.by = "clear"
      /\ UNCHANGED <<flush, acked, rejected, pass, sweep>>
      /\ \/ store' = StoreAfter(h) /\ mem' = Filtered(mem, h.drop) /\ dropped' = dropped \union {h.drop}
         \/ store' = store /\ mem' = mem /\ dropped' = dropped
  BY DEF ClearStored, Completes, Fails, session
<1>2. mem \in Seq(OutboxEntry)
  BY DEF OutboxInv, KeepInv, TypeInv
<1> HIDE DEF h
<1>3. \/ mem' = mem /\ dropped' = dropped
      \/ Range(mem') = {e \in Range(mem) : e.id # h.drop}
  BY <1>1, <1>2, FilteredIs
<1>4. h.by \in AppOps /\ Drops(h)
  BY <1>1 DEF AppOps, Drops
<1> QED BY <1>1, <1>3, <1>4, CompleteSettles DEF h

LEMMA RetryConflictedStoredSettles == OutboxInv /\ RetryConflictedStored => SettleInv' /\ HoldInv'
<1> SUFFICES ASSUME OutboxInv, RetryConflictedStored PROVE SettleInv' /\ HoldInv'
  OBVIOUS
<1> DEFINE h == Head(ops)
<1>1. /\ ops # <<>> /\ ops' = Tail(ops) /\ h.by = "retryConflicted"
      /\ UNCHANGED <<flush, acked, rejected, pass, sweep>>
      /\ \/ /\ store' = StoreAfter(h) /\ mem' = Append(Filtered(mem, h.drop), h.row)
            /\ dropped' = dropped \union {h.drop}
         \/ store' = store /\ mem' = mem /\ dropped' = dropped
  BY DEF RetryConflictedStored, Completes, Fails, session
<1>2. mem \in Seq(OutboxEntry) /\ h.row \in OutboxEntry /\ FormOf(h)
  BY <1>1, HeadIs DEF OutboxInv, KeepInv, TypeInv
<1>3. h.row.id \notin authored /\ h.drop \in authored
  BY <1>1, HeadApart DEF OutboxInv, Authors
<1> HIDE DEF h
<1>4. \/ mem' = mem /\ dropped' = dropped
      \/ Range(mem') = {e \in Range(mem) : e.id # h.drop} \union {h.row}
  <2> DEFINE q == Filtered(mem, h.drop)
  <2>1. q \in Seq(OutboxEntry) /\ Range(q) = {e \in Range(mem) : e.id # h.drop}
    BY <1>2, FilteredIs
  <2>2. (mem' = mem /\ dropped' = dropped) \/ mem' = Append(q, h.row)
    BY <1>1
  <2> DEFINE row == h.row
  <2> HIDE DEF q
  <2>3. row \in OutboxEntry
    BY <1>2
  <2> HIDE DEF row
  <2>4. Range(Append(q, row)) = Range(q) \union {row}
    BY <2>1, <2>3, RangeAppend
  <2> QED BY <2>1, <2>2, <2>4 DEF row
<1>5. h.row.status = "pending" /\ Authors(h) /\ h.by \in AppOps /\ Drops(h)
  BY <1>1, <1>2 DEF FormOf, Authors, AppOps, Drops
<1>6. dropped' = dropped \/ \A e \in Range(mem') : e.id # h.drop
  BY <1>3, <1>4
<1> QED BY <1>1, <1>4, <1>5, <1>6, CompleteSettles DEF h

LEMMA MatchEchoStoredSettles == OutboxInv /\ MatchEchoStored => SettleInv' /\ HoldInv'
<1> SUFFICES ASSUME OutboxInv, MatchEchoStored PROVE SettleInv' /\ HoldInv'
  OBVIOUS
<1> DEFINE h == Head(ops)
<1>1. /\ ops # <<>> /\ ops' = Tail(ops) /\ h.by = "echo"
      /\ UNCHANGED <<flush, acked, rejected, pass, sweep, dropped>>
      /\ \/ store' = StoreAfter(h) /\ mem' = Filtered(mem, h.drop)
         \/ store' = store /\ mem' = mem
  BY DEF MatchEchoStored, Completes, Fails, history
<1>2. mem \in Seq(OutboxEntry)
  BY DEF OutboxInv, KeepInv, TypeInv
<1> HIDE DEF h
<1>3. mem' = mem \/ Range(mem') = {e \in Range(mem) : e.id # h.drop}
  BY <1>1, <1>2, FilteredIs
<1> QED BY <1>1, <1>3, CompleteSettles DEF h

LEMMA MarkStoredSettles == OutboxInv /\ MarkStored => SettleInv' /\ HoldInv'
<1> SUFFICES ASSUME OutboxInv, MarkStored PROVE SettleInv' /\ HoldInv'
  OBVIOUS
<1> DEFINE h == Head(ops)
<1>1. /\ ops # <<>> /\ ops' = Tail(ops) /\ h.by = "mark" /\ sweep' = Tail(sweep) /\ pass' = Swept
      /\ UNCHANGED <<mem, flush, acked, rejected, dropped>>
      /\ store' = StoreAfter(h) \/ store' = store
  BY DEF MarkStored, Completes, Fails, history
<1> HIDE DEF h
<1>2. SettleInv' /\ MarksFirst' /\ MarksBehindFlush' /\ RowsHeld' /\ FlushHolds'
  <2>1. h = Head(ops)
    BY DEF h
  <2> QED BY <1>1, <2>1, HeadSettles
<1>3. /\ Requests = Requests' \union {h}
      /\ \A by : OneOf(by) => /\ OneOf(by)' /\ (h.by = by => \A r \in Requests' : r.by # by)
  BY <1>1, Popped, PoppedKeeps DEF OutboxInv, KeepInv, TypeInv, h
<1> HIDE DEF Requests
<1>4. pass = "sweeping"
  BY <1>1, <1>3 DEF OutboxInv, HoldInv, Marks
<1>5. SweepForm' /\ LosersWait'
  <2>1. \A x, S : Only(x, S) => Only(x, S)'
    BY <1>1 DEF Only
  <2> QED BY <1>1, <1>4, <2>1, SweepGoesOn
<1>6. Echoes' /\ Marks'
  BY <1>1, <1>3, <1>4 DEF OutboxInv, HoldInv, Echoes, Marks
<1> QED BY <1>2, <1>5, <1>6 DEF HoldInv

-----------------------------------------------------------------------------
(* The flush *)

\* A step of the flush moves at most the entry it has persisted: from pending to its answer.
Persisting(id) ==
  flush.phase = "storing" /\ flush.at \in DOMAIN flush.batch /\ id = flush.batch[flush.at].id
FlushMarks ==
  /\ \A e \in Range(mem') :
       \/ e \in Range(mem)
       \/ /\ Persisting(e.id) /\ Buffered(mem, e.id, {"pending"})
          /\ e.status \in {"acknowledged", "error"}
          /\ e.status = "error" => e.id \in rejected' /\ e.id \notin Settled'
  /\ \A e \in Range(mem) : \E f \in Range(mem') :
       f.id = e.id /\ (f = e \/ (e.status = "pending" /\ (f.status = "acknowledged" \/ f.id \in rejected')))

LEMMA FlushOnly ==
  ASSUME FlushMarks
  PROVE  /\ \A x, S : "pending" \notin S /\ Only(x, S) => Only(x, S)'
         /\ \A x, S : Only(x, S) /\ ~Persisting(x) => Only(x, S)'
BY DEF FlushMarks, Only, Buffered

LEMMA FlushFrame ==
  ASSUME OutboxInv, FlushMarks, UNCHANGED <<dropped, pass, sweep>>, rejected \subseteq rejected',
         \/ store' = store
         \/ \E h \in Requests : h.by = "flush" /\ store' = StoreAfter(h),
         \A s \in Requests' : s.by # "flush" => s \in Requests,
         \A s \in Requests : s.by # "flush" => s \in Requests',
         OneOf("echo")', OneOf("mark")'
  PROVE  /\ ErrorsRejected' /\ ResolvedAreHeld' /\ Echoes' /\ SweepForm' /\ Marks' /\ LosersWait'
         /\ RowsHeld'
<1>1. /\ \A x, S : "pending" \notin S /\ Only(x, S) => Only(x, S)'
      /\ \A x, S : Only(x, S) /\ ~Persisting(x) => Only(x, S)'
  BY FlushOnly
<1> HIDE DEF Requests
<1>2. \A e \in store' :
        \/ e \in store
        \/ /\ e.status = "error" => e.id \in rejected
           /\ e.status = "conflicted" => e.id \in rejected \/ Only(e.id, {"conflicted"})
  <2>1. ASSUME NEW h \in Requests, h.by = "flush", store' = StoreAfter(h), NEW e \in store', e \notin store
        PROVE  /\ e.status = "error" => e.id \in rejected
               /\ e.status = "conflicted" => e.id \in rejected \/ Only(e.id, {"conflicted"})
    <3>1. h \in RequestType /\ FormOf(h)
      BY HeldType DEF OutboxInv, KeepInv, RequestForms
    <3>2. e = h.row /\ h.op = "put"
      BY <2>1, <3>1, StoreAfterIs DEF OutboxInv, KeepInv, FormOf, RequestType
    <3>3. e.status = "error" => e.id \in rejected
      BY <2>1, <3>2 DEF OutboxInv, KeepInv, FlushForm, SettleInv, RepairForm
    <3>4. e.status = "conflicted" => e.id \in rejected \/ Only(e.id, {"conflicted"})
      BY <2>1, <3>2 DEF OutboxInv, HoldInv, FlushHolds, FlushPut
    <3> QED BY <3>3, <3>4
  <2> QED BY <2>1
<1>3. ErrorsRejected'
  <2>1. \A e \in Range(mem') : e.status = "error" => e \in Range(mem) \/ e.id \in rejected'
    BY DEF FlushMarks
  <2> QED BY <1>2, <2>1 DEF OutboxInv, SettleInv, ErrorsRejected
<1>4. ResolvedAreHeld'
  <2> SUFFICES ASSUME NEW r \in Requests', r.by = "retry" \/ Drops(r)
               PROVE  Only(r.drop, {"error", "conflicted"})'
    BY DEF ResolvedAreHeld, Drops
  <2>1. r \in Requests
    BY DEF Drops
  <2> QED BY <1>1, <2>1 DEF OutboxInv, SettleInv, ResolvedAreHeld
<1>5. Echoes'
  <2> SUFFICES ASSUME NEW r \in Requests', r.by = "echo"
               PROVE  /\ pass \in {"off", "draining"}
                      /\ r.drop \in rejected' \/ Buffered(mem', r.drop, {"pending", "acknowledged"})
    BY DEF Echoes
  <2>1. /\ pass \in {"off", "draining"}
        /\ r.drop \in rejected \/ Buffered(mem, r.drop, {"pending", "acknowledged"})
    BY DEF OutboxInv, HoldInv, Echoes
  <2> QED BY <2>1 DEF FlushMarks, Buffered
<1>6. Marks'
  <2> SUFFICES ASSUME NEW r \in Requests', r.by = "mark"
               PROVE  /\ pass = "sweeping" /\ r.row.id = Head(sweep)
                      /\ r.row.id \in rejected' \/ Buffered(mem', r.row.id, {"conflicted"})
    BY DEF Marks
  <2>1. /\ pass = "sweeping" /\ r.row.id = Head(sweep)
        /\ r.row.id \in rejected \/ Buffered(mem, r.row.id, {"conflicted"})
    BY DEF OutboxInv, HoldInv, Marks
  <2> QED BY <2>1 DEF FlushMarks, Buffered
<1>7. LosersWait'
  <2> SUFFICES ASSUME NEW k \in DOMAIN sweep, k > 1 \/ (\A r \in Requests' : r.by # "mark"),
                      NEW x, x = sweep[k], x \notin rejected', NEW e \in Range(mem'), e.id = x
               PROVE  e.status \in {"pending", "acknowledged"}
    BY DEF LosersWait, Only
  <2>1. Only(x, {"pending", "acknowledged"})
    BY DEF OutboxInv, HoldInv, LosersWait
  <2> QED BY <2>1 DEF FlushMarks, Only
<1>8. RowsHeld'
  <2> SUFFICES ASSUME NEW e \in store', e.status = "conflicted", e.id \notin rejected'
               PROVE  Only(e.id, {"conflicted"})'
    BY DEF RowsHeld
  <2>1. Only(e.id, {"conflicted"})
    BY <1>2 DEF OutboxInv, HoldInv, RowsHeld
  <2> QED BY <1>1, <2>1
<1>9. SweepForm'
  BY DEF OutboxInv, HoldInv, SweepForm
<1> QED BY <1>3, <1>4, <1>5, <1>6, <1>7, <1>8, <1>9

\* What the flush stores as acknowledged is queued by nobody.
LEMMA FlushRevives ==
  ASSUME OutboxInv, FlushMarks, dropped' = dropped,
         \/ store' = store
         \/ \E h \in Requests : h.by = "flush" /\ store' = StoreAfter(h),
         \A s \in Requests' : \/ s \in Requests /\ s.by # "flush"
                              \/ s.by = "flush" /\ (FlushPut(s) => s.row.id \notin Settled'),
         \/ acked' = acked
         \/ \E x : /\ acked' = acked \union {x} /\ Persisting(x)
                   /\ \A e \in Range(mem') \union store' : e.id = x => e.status \notin {"pending", "error"}
  PROVE  NoneRevived'
<1> HIDE DEF Requests
<1>1. \A y \in Settled' :
        \/ y \in Settled
        \/ /\ Persisting(y)
           /\ \A e \in Range(mem') \union store' : e.id = y => e.status \notin {"pending", "error"}
  BY DEF Settled
<1>2. ASSUME NEW e \in Range(mem') \union store', e.status \in {"pending", "error"}, e.id \in Settled'
      PROVE  FALSE
  <2>1. e.id \in Settled
    BY <1>1, <1>2
  <2>2. e \notin store /\ e \notin Range(mem)
    BY <1>2, <2>1 DEF OutboxInv, SettleInv, NoneRevived
  <2>3. e \in store'
    BY <1>2, <2>2 DEF FlushMarks
  <2>4. PICK h \in Requests : h.by = "flush" /\ store' = StoreAfter(h)
    BY <2>2, <2>3
  <2>5. h \in RequestType /\ FormOf(h)
    BY HeldType DEF OutboxInv, KeepInv, RequestForms
  <2>6. e = h.row /\ h.op = "put"
    BY <2>2, <2>3, <2>4, <2>5, StoreAfterIs DEF OutboxInv, KeepInv, FormOf, RequestType
  <2>7. e.status = "error"
    BY <1>2, <2>4, <2>6 DEF OutboxInv, KeepInv, FlushForm, SettleInv, RepairForm
  <2> QED BY <2>1, <2>4, <2>6, <2>7 DEF OutboxInv, SettleInv, NoneRevived, FlushPut
<1>3. ASSUME NEW r \in Requests', r.by = "retry", r.row.id \in Settled' PROVE FALSE
  <2>1. r \in Requests
    BY <1>3
  <2>2. r.row.id \notin Settled
    BY <1>3, <2>1 DEF OutboxInv, SettleInv, NoneRevived
  <2>3. Persisting(r.row.id)
    BY <1>1, <1>3, <2>2
  <2>4. flush.at >= flush.at
    BY DEF OutboxInv, KeepInv, TypeInv, FlushType
  <2> QED BY <1>3, <2>1, <2>3, <2>4 DEF OutboxInv, SettleInv, AheadUnsettled, Persisting
<1>4. \A r \in Requests' : FlushPut(r) => r.row.id \notin Settled'
  BY DEF FlushPut
<1> QED BY <1>2, <1>3, <1>4 DEF NoneRevived, FlushPut

LEMMA FlushFromSettles ==
  ASSUME OutboxInv, KeepInv', FlushMarks, UNCHANGED <<dropped, pass, sweep>>, rejected \subseteq rejected',
         NEW k \in Nat, k >= 1, NEW refused \in SUBSET rejected', NEW q,
         FlushFrom(k, mem', refused, q),
         \/ /\ q = ops /\ flush.phase = "submitting" /\ store' = store
         \/ /\ q = Tail(ops) /\ ops # <<>> /\ Head(ops).by = "flush" /\ k > flush.at
            /\ store' \in {store, StoreAfter(Head(ops))},
         \/ acked' = acked
         \/ \E x : /\ acked' = acked \union {x} /\ Persisting(x)
                   /\ \A e \in Range(mem') \union store' : e.id = x => e.status \notin {"pending", "error"}
  PROVE  SettleInv' /\ HoldInv'
<1>1. /\ TypeInv /\ ops \in Seq(RequestType) /\ OneOf("flush") /\ FlushForm
      /\ mem' \in Seq(OutboxEntry) /\ refused \in SUBSET Ids /\ flush.at \in Nat
  BY DEF OutboxInv, KeepInv, TypeInv, FlushType
<1>2. /\ \A x, S : "pending" \notin S /\ Only(x, S) => Only(x, S)'
      /\ \A x, S : Only(x, S) /\ ~Persisting(x) => Only(x, S)'
  BY FlushOnly
<1>3. /\ q \in Seq(RequestType)
      /\ \A r \in Range(q) : r \in Requests /\ r.by # "flush"
      /\ \A r \in Requests : r.by = "flush" \/ r \in Range(q)
  <2>1. CASE q = ops /\ flush.phase = "submitting"
    BY <1>1, <2>1 DEF Requests, FlushForm
  <2>2. CASE q = Tail(ops) /\ ops # <<>> /\ Head(ops).by = "flush"
    <3>1. /\ q \in Seq(RequestType) /\ Head(ops) = ops[1] /\ 1 \in DOMAIN ops
          /\ \A i \in DOMAIN q : i \in Nat /\ i + 1 \in DOMAIN ops /\ q[i] = ops[i + 1]
          /\ Range(ops) = Range(q) \union {Head(ops)}
      BY <1>1, <2>2, TailOf
    <3>2. \A i \in DOMAIN q : i + 1 # 1
      BY <3>1
    <3>3. \A i \in DOMAIN q : q[i] \in Requests /\ q[i].by # "flush"
      BY <1>1, <2>2, <3>1, <3>2 DEF OneOf, Requests, Range
    <3>4. \A r \in Range(q) : r \in Requests /\ r.by # "flush"
      BY <3>3, Zenon DEF Range
    <3>5. \A r \in Requests : r \in Range(q) \/ r = Head(ops)
      BY <3>1 DEF Requests
    <3> QED BY <2>2, <3>1, <3>4, <3>5
  <2> QED BY <2>1, <2>2
<1>4. store' = store \/ \E h \in Requests : h.by = "flush" /\ store' = StoreAfter(h)
  <2>1. ops # <<>> => Head(ops) \in Requests
    BY <1>1 DEF Requests, Range
  <2> QED BY <2>1
<1>5. CASE flush' = NoFlush /\ ops' = q
  <2>1. Requests' = Range(q)
    BY <1>5 DEF Requests
  <2> HIDE DEF Requests
  <2>2. /\ DropsBehindFlush' /\ MarksFirst' /\ MarksBehindFlush' /\ OneOf("echo")' /\ OneOf("mark")'
    <3>1. CASE ops' = ops
      BY <3>1 DEF OutboxInv, SettleInv, HoldInv, DropsBehindFlush, MarksFirst, MarksBehindFlush,
                  Echoes, Marks, OneOf, Drops, FlushPut
    <3>2. CASE ops' = Tail(ops) /\ ops # <<>>
      BY <1>1, <3>2, PoppedOrder, PoppedKeeps DEF OutboxInv, SettleInv, HoldInv, Echoes, Marks
    <3> QED BY <1>5, <3>1, <3>2
  <2>3. /\ ErrorsRejected' /\ ResolvedAreHeld' /\ Echoes' /\ SweepForm' /\ Marks' /\ LosersWait'
        /\ RowsHeld'
    BY <1>3, <1>4, <2>1, <2>2, FlushFrame
  <2>4. NoneRevived'
    BY <1>3, <1>4, <2>1, FlushRevives
  <2>5. RepairForm' /\ AheadUnsettled' /\ FlushHolds'
    BY <1>3, <1>5, <2>1 DEF RepairForm, AheadUnsettled, FlushHolds, NoFlush
  <2> QED BY <2>2, <2>3, <2>4, <2>5 DEF SettleInv, HoldInv
<1>6. ASSUME NEW j \in DOMAIN flush.batch, j >= k, NEW id, id = flush.batch[j].id,
             Buffered(mem', id, {"pending"}), NEW r, r = AnswerPut(j, refused),
             flush' = StoringAt(j, refused), ops' = Append(q, r)
      PROVE  SettleInv' /\ HoldInv'
  <2>1. /\ r \in RequestType /\ r.by = "flush" /\ r.op = "put" /\ r.drop = r.row.id /\ FormOf(r)
        /\ r.row.status \in {"acknowledged", "error"} /\ r.row.id = id /\ FlushPut(r)
    <3>1. /\ r \in RequestType /\ r.by = "flush" /\ r.op = "put" /\ r.drop = r.row.id /\ FormOf(r)
          /\ Alike(r.row, flush.batch[j]) /\ r.row.status \in {"acknowledged", "error"}
      BY <1>1, <1>6, FlushPutIs
    <3> QED BY <1>6, <3>1 DEF Alike, FlushPut
  <2>2. /\ flush'.phase = "storing" /\ flush'.at = j /\ flush'.batch = flush.batch
    BY <1>1, <1>6, FlushAt
  <2>3. /\ \A s \in Requests' : s \in Range(q) \/ s = r
        /\ \A s \in Range(q) : s \in Requests'
    <3>1. Range(Append(q, r)) = Range(q) \union {r}
      BY <1>3, <2>1, RangeAppend
    <3> QED BY <1>6, <3>1 DEF Requests
\* Where the persist loop goes on, the entry is behind the one just persisted.
  <2>4. \A m \in DOMAIN flush.batch : m >= j => m >= flush.at /\ ~Persisting(flush.batch[m].id)
    <3> SUFFICES ASSUME NEW m \in DOMAIN flush.batch, m >= j
                 PROVE  m >= flush.at /\ ~Persisting(flush.batch[m].id)
      OBVIOUS
    <3>1. m \in Nat /\ j \in Nat
      BY <1>1 DEF TypeInv, FlushType
    <3>2. CASE flush.phase = "submitting"
      BY <1>1, <3>1, <3>2 DEF OutboxInv, SettleInv, RepairForm, Persisting
    <3>3. CASE k > flush.at
      <4>1. m > flush.at
        BY <1>1, <1>6, <3>1, <3>3
      <4>2. \A i \in DOMAIN flush.batch : flush.batch[i].id = flush.batch[m].id => i = m
        BY <1>1 DEF FlushForm
      <4>3. m >= flush.at /\ m # flush.at
        BY <1>1, <3>1, <4>1
      <4> QED BY <4>2, <4>3 DEF Persisting
    <3> QED BY <3>2, <3>3
  <2> HIDE DEF Requests
  <2>5. \A S : Only(id, S)' => "pending" \in S
    BY <1>6 DEF Only, Buffered
  <2>6. \A s \in Requests : Drops(s) => s.drop # id
    <3> SUFFICES ASSUME NEW s \in Requests, Drops(s), s.drop = id PROVE FALSE
      OBVIOUS
    <3>1. Only(id, {"error", "conflicted"})'
      BY <1>2 DEF OutboxInv, SettleInv, ResolvedAreHeld
    <3> QED BY <2>5, <3>1
  <2>7. id \in rejected' \/ \A s \in Requests : s.by = "mark" => s.row.id # id
    <3> SUFFICES ASSUME id \notin rejected', NEW s \in Requests, s.by = "mark", s.row.id = id PROVE FALSE
      OBVIOUS
    <3>1. Buffered(mem, id, {"conflicted"})
      BY DEF OutboxInv, HoldInv, Marks
    <3>2. Only(id, {"conflicted"})
      BY <3>1, OnlyOne DEF OutboxInv
    <3> QED BY <1>2, <2>5, <3>2
  <2>8. /\ DropsBehindFlush' /\ MarksFirst' /\ MarksBehindFlush' /\ OneOf("echo")' /\ OneOf("mark")'
    <3>1. CASE q = ops
      BY <1>1, <1>6, <2>1, <2>6, <2>7, <3>1, PushedOrder, PushedKeeps
         DEF OutboxInv, SettleInv, HoldInv, Echoes, Marks
    <3>2. CASE q = Tail(ops) /\ ops # <<>> /\ Head(ops).by = "flush"
      BY <1>1, <1>6, <2>1, <2>6, <2>7, <3>2, TurnedOrder, TurnedKeeps
         DEF OutboxInv, SettleInv, HoldInv, Echoes, Marks
    <3> QED BY <3>1, <3>2
  <2>9. /\ ErrorsRejected' /\ ResolvedAreHeld' /\ Echoes' /\ SweepForm' /\ Marks' /\ LosersWait'
        /\ RowsHeld'
    BY <1>3, <1>4, <2>1, <2>3, <2>8, FlushFrame
  <2>10. id \notin Settled'
    <3>1. PICK e \in Range(mem') : e.id = id /\ e.status = "pending"
      BY <1>6 DEF Buffered
    <3>2. e \in Range(mem) /\ ~Persisting(id)
      <4>1. j >= j
        BY <1>1 DEF TypeInv, FlushType
      <4>2. ~Persisting(id)
        BY <1>6, <2>4, <4>1
      <4> QED BY <3>1, <4>2 DEF FlushMarks
    <3>3. id \notin Settled
      BY <3>1, <3>2 DEF OutboxInv, SettleInv, NoneRevived
    <3> QED BY <3>2, <3>3 DEF Settled
  <2>11. NoneRevived'
    BY <1>3, <1>4, <2>1, <2>3, <2>10, FlushRevives
  <2>12. AheadUnsettled'
    <3> SUFFICES ASSUME NEW m \in DOMAIN flush.batch, m >= j, NEW x, x = flush.batch[m].id
                 PROVE  /\ Only(x, {"pending", "conflicted"})'
                        /\ \A s \in Requests' : s.by = "retry" => s.row.id # x
      BY <2>2 DEF AheadUnsettled, Only
    <3>1. m >= flush.at /\ ~Persisting(x)
      BY <2>4
    <3>2. /\ Only(x, {"pending", "conflicted"})
          /\ \A s \in Requests : s.by = "retry" => s.row.id # x
      BY <3>1 DEF OutboxInv, SettleInv, AheadUnsettled
    <3> QED BY <1>2, <1>3, <2>1, <2>3, <3>1, <3>2
  <2>13. RepairForm'
    BY <2>2 DEF RepairForm
  <2>14. FlushHolds'
    <3>1. \A s \in Requests' : s.by = "flush" => s = r
      BY <1>3, <2>3
    <3>2. id \notin rejected' => ~HeldRow(id)'
      BY <2>5, <2>9 DEF RowsHeld, HeldRow
    <3> QED BY <2>1, <3>1, <3>2 DEF FlushHolds, FlushPut, HeldRow
  <2> QED BY <2>8, <2>9, <2>11, <2>12, <2>13, <2>14 DEF SettleInv, HoldInv
<1>7. \/ flush' = NoFlush /\ ops' = q
      \/ \E j \in DOMAIN flush.batch :
           /\ j >= k /\ Buffered(mem', flush.batch[j].id, {"pending"})
           /\ flush' = StoringAt(j, refused)
           /\ ops' = Append(q, AnswerPut(j, refused))
  <2>1. GoesOn(k, mem', refused, q)
    BY <1>1, FlushGoes
  <2> QED BY <2>1, Zenon DEF GoesOn
<1> QED BY <1>5, <1>6, <1>7, Zenon

LEMMA SameMemMarks == mem' = mem => FlushMarks
BY DEF FlushMarks

LEMMA AnsweredSettles == OutboxInv => \A refused \in SUBSET Ids : Answered(refused) => SettleInv' /\ HoldInv'
<1> SUFFICES ASSUME OutboxInv, NEW refused \in SUBSET Ids, Answered(refused) PROVE SettleInv' /\ HoldInv'
  OBVIOUS
<1>1. /\ flush.phase = "submitting" /\ rejected' = rejected \union refused
      /\ FlushFrom(1, mem, refused, ops) /\ UNCHANGED <<mem, store, pass, sweep, dropped, acked>>
  BY DEF Answered, session
<1>2. KeepInv' /\ FlushMarks
  BY <1>1, AnsweredKeeps, SameMemMarks DEF OutboxInv
<1>3. refused \in SUBSET rejected' /\ rejected \subseteq rejected' /\ FlushFrom(1, mem', refused, ops)
  BY <1>1
<1> QED BY <1>1, <1>2, <1>3, FlushFromSettles

LEMMA FlushRepairedSettles == OutboxInv /\ FlushRepaired => SettleInv' /\ HoldInv'
<1> SUFFICES ASSUME OutboxInv, FlushRepaired PROVE SettleInv' /\ HoldInv'
  OBVIOUS
<1>1. /\ ops # <<>> /\ Head(ops).by = "flush" /\ store' = StoreAfter(Head(ops))
      /\ FlushFrom(flush.at + 1, mem, flush.refused, Tail(ops))
      /\ UNCHANGED <<mem, pass, sweep, dropped, acked, rejected>>
  BY DEF FlushRepaired, Completes, session, history
<1>2. KeepInv' /\ FlushMarks
  BY <1>1, FlushRepairedKeeps, SameMemMarks DEF OutboxInv
<1>3. /\ flush.at + 1 \in Nat /\ flush.at + 1 >= 1 /\ flush.at + 1 > flush.at
      /\ flush.refused \in SUBSET rejected' /\ FlushFrom(flush.at + 1, mem', flush.refused, Tail(ops))
  BY <1>1 DEF OutboxInv, KeepInv, TypeInv, FlushType, FlushForm
<1> QED BY <1>1, <1>2, <1>3, FlushFromSettles

LEMMA FlushEndsSettles == OutboxInv /\ (Unreachable \/ FlushFault) => SettleInv' /\ HoldInv'
<1> SUFFICES ASSUME OutboxInv, Unreachable \/ FlushFault PROVE SettleInv' /\ HoldInv'
  OBVIOUS
<1>1. /\ flush' = NoFlush /\ UNCHANGED <<mem, store, pass, sweep, dropped, acked, rejected>>
      /\ \/ ops' = ops /\ flush.phase = "submitting"
         \/ ops # <<>> /\ Head(ops).by = "flush" /\ ops' = Tail(ops)
  BY DEF Unreachable, FlushFault, Fails, session, history
<1>2. ops \in Seq(RequestType) /\ OneOf("flush") /\ FlushForm
  BY DEF OutboxInv, KeepInv, TypeInv
<1>3. /\ \A r \in Requests' : r \in Requests /\ r.by # "flush"
      /\ \A r \in Requests : r.by # "flush" => r \in Requests'
  <2>1. CASE ops' = ops /\ flush.phase = "submitting"
    BY <1>2, <2>1 DEF Requests, FlushForm
  <2>2. CASE ops # <<>> /\ Head(ops).by = "flush" /\ ops' = Tail(ops)
    BY <1>2, <2>2, Popped, PoppedKeeps
  <2> QED BY <1>1, <2>1, <2>2
<1>4. /\ DropsBehindFlush' /\ MarksFirst' /\ MarksBehindFlush' /\ OneOf("echo")' /\ OneOf("mark")'
  <2>1. CASE ops' = ops
    BY <1>1, <2>1 DEF OutboxInv, SettleInv, HoldInv, DropsBehindFlush, MarksFirst, MarksBehindFlush,
                Echoes, Marks, OneOf, Drops, FlushPut
  <2>2. CASE ops' = Tail(ops) /\ ops # <<>>
    BY <1>1, <1>2, <2>2, PoppedOrder, PoppedKeeps DEF OutboxInv, SettleInv, HoldInv, Echoes, Marks
  <2> QED BY <1>1, <2>1, <2>2
<1> HIDE DEF Requests
<1>5. /\ ErrorsRejected' /\ ResolvedAreHeld' /\ Echoes' /\ SweepForm' /\ Marks' /\ LosersWait'
      /\ RowsHeld'
  BY <1>1, <1>3, <1>4, SameMemMarks, FlushFrame
<1>6. NoneRevived'
  BY <1>1, <1>3, SameMemMarks, FlushRevives
<1>7. RepairForm' /\ AheadUnsettled' /\ FlushHolds'
  BY <1>1, <1>3 DEF RepairForm, AheadUnsettled, FlushHolds, NoFlush
<1> QED BY <1>4, <1>5, <1>6, <1>7 DEF SettleInv, HoldInv

LEMMA StartFlushSettles == OutboxInv /\ StartFlush => SettleInv' /\ HoldInv'
<1> SUFFICES ASSUME OutboxInv, StartFlush PROVE SettleInv' /\ HoldInv'
  OBVIOUS
<1>1. /\ flush.phase = "idle" /\ flush' = [NoFlush EXCEPT !.phase = "submitting", !.batch = Pending]
      /\ UNCHANGED <<mem, store, ops, pass, sweep, dropped, acked, rejected>>
  BY DEF StartFlush, session, history
<1>2. flush'.phase = "submitting" /\ flush'.batch = Pending /\ flush'.at = 0
  BY <1>1 DEF NoFlush
<1>3. Requests' = Requests /\ \A r \in Requests : r.by # "flush"
  BY <1>1 DEF Requests, OutboxInv, KeepInv, FlushForm
<1>4. /\ DropsBehindFlush' /\ MarksFirst' /\ MarksBehindFlush' /\ OneOf("echo")' /\ OneOf("mark")'
  BY <1>1 DEF OutboxInv, SettleInv, HoldInv, DropsBehindFlush, MarksFirst, MarksBehindFlush,
              Echoes, Marks, OneOf, Drops, FlushPut
<1> HIDE DEF Requests
<1>5. /\ ErrorsRejected' /\ ResolvedAreHeld' /\ Echoes' /\ SweepForm' /\ Marks' /\ LosersWait'
      /\ RowsHeld'
  BY <1>1, <1>3, <1>4, SameMemMarks, FlushFrame
<1>6. NoneRevived'
  BY <1>1, <1>3, SameMemMarks, FlushRevives
<1>7. RepairForm' /\ FlushHolds'
  BY <1>2, <1>3 DEF RepairForm, FlushHolds
<1>8. AheadUnsettled'
  <2> SUFFICES ASSUME NEW k \in DOMAIN Pending, NEW x, x = Pending[k].id
               PROVE  /\ Only(x, {"pending", "conflicted"})'
                      /\ \A r \in Requests : r.by = "retry" => r.row.id # x
    BY <1>2, <1>3 DEF AheadUnsettled, Only
  <2>1. PICK e \in Range(mem) : e.status = "pending" /\ e.id = x
    <3>1. Pending[k] \in Range(Pending)
      BY DEF Range
    <3>2. Range(Pending) = {e \in Range(mem) : e.status = "pending"}
      BY PendingIs DEF OutboxInv, KeepInv, TypeInv
    <3> QED BY <3>1, <3>2
  <2>2. Only(x, {"pending"})
    BY <2>1, OnlyOne DEF OutboxInv, Buffered
  <2>3. \A r \in Requests : r.by = "retry" => r.row.id # x
    <3> SUFFICES ASSUME NEW r \in Requests, r.by = "retry", r.row.id = x PROVE FALSE
      OBVIOUS
    <3>1. r.drop = x
      BY DEF OutboxInv, KeepInv, RequestForms, FormOf
    <3>2. Only(x, {"error", "conflicted"})
      BY <3>1 DEF OutboxInv, SettleInv, ResolvedAreHeld
    <3> QED BY <2>1, <3>2 DEF Only
  <2> QED BY <1>1, <2>2, <2>3 DEF Only
<1> QED BY <1>4, <1>5, <1>6, <1>7, <1>8 DEF SettleInv, HoldInv

LEMMA FlushStoredSettles == OutboxInv /\ FlushStored => SettleInv' /\ HoldInv'
<1> SUFFICES ASSUME OutboxInv, FlushStored PROVE SettleInv' /\ HoldInv'
  OBVIOUS
<1> DEFINE h == Head(ops)
           row == h.row
           id == row.id
           Repairs(r) == /\ flush' = [flush EXCEPT !.phase = "repairing"]
                         /\ ops' = Append(Tail(ops), r) /\ mem' = mem
<1>1. /\ ops # <<>> /\ h.by = "flush" /\ flush.phase = "storing" /\ store' = StoreAfter(h)
      /\ acked' = IF row.status = "acknowledged" THEN acked \union {id} ELSE acked
      /\ UNCHANGED <<pass, sweep, dropped, rejected>>
      /\ \/ ~Known(id) /\ Repairs(DeleteReq(row, "flush"))
         \/ /\ Known(id) /\ EntryOf(mem, id).status # "pending"
            /\ Repairs(PutReq(EntryOf(mem, id), "flush"))
         \/ /\ Buffered(mem, id, {"pending"}) /\ mem' = WithStatus(mem, id, row.status)
            /\ FlushFrom(flush.at + 1, mem', flush.refused, Tail(ops))
  BY DEF FlushStored, Completes, session
<1>2. /\ h \in RequestType /\ h \in Requests /\ FormOf(h) /\ row \in OutboxEntry /\ id \in Ids
  BY <1>1, HeadIs DEF OutboxInv
<1> HIDE DEF h
<1>3. /\ h.drop = id /\ h.op = "put" /\ row.status \in {"acknowledged", "error"} /\ Persisting(id)
      /\ FlushPut(h)
      /\ row.status = "error" => id \in rejected
  BY <1>1, <1>2 DEF FormOf, OutboxInv, KeepInv, FlushForm, Persisting, FlushPut
<1>4. TypeInv /\ mem \in Seq(OutboxEntry) /\ ops \in Seq(RequestType) /\ OneOf("flush") /\ flush \in FlushType
  BY DEF OutboxInv, KeepInv, TypeInv
<1>5. \A e \in store' : (e \in store /\ e.id # id) \/ e = row
  BY <1>1, <1>2, <1>4, StoreAfterIs DEF Touches
<1>6. \A e \in store' : e.id = id => e = row
  BY <1>5
<1>7. Only(id, {"pending", "conflicted"})
  <2>1. flush.at >= flush.at
    BY <1>4 DEF FlushType
  <2> QED BY <1>3, <2>1 DEF OutboxInv, SettleInv, AheadUnsettled, Persisting
<1>8. KeepInv'
  BY FlushStoredKeeps DEF OutboxInv
\* The entry is repaired: the flush stays with it.
<1>9. ASSUME NEW r \in RequestType, FormOf(r), r.by = "flush", ~FlushPut(r), r.drop = r.row.id, r.row.id = id,
             r.op = "delete" \/ r.row.status = "conflicted",
             Only(id, IF r.op = "put" THEN {"conflicted"} ELSE {}), Repairs(r)
      PROVE  SettleInv' /\ HoldInv'
  <2>1. /\ flush'.phase = "repairing" /\ flush'.at = flush.at /\ flush'.batch = flush.batch
    BY <1>4, <1>9 DEF FlushType
  <2>2. /\ \A s \in Requests' : s.by = "flush" => s = r
        /\ \A s \in Requests' : s \in Requests \/ s = r
        /\ \A s \in Requests : s.by # "flush" => s \in Requests'
    BY <1>1, <1>4, <1>9, Turned, TurnedKeeps DEF h
  <2>3. /\ DropsBehindFlush' /\ MarksFirst' /\ MarksBehindFlush' /\ OneOf("echo")' /\ OneOf("mark")'
    BY <1>1, <1>4, <1>9, TurnedOrder, TurnedKeeps DEF OutboxInv, SettleInv, HoldInv, Echoes, Marks, h
  <2>4. FlushMarks
    BY <1>9, SameMemMarks
  <2> HIDE DEF Requests
  <2>5. /\ ErrorsRejected' /\ ResolvedAreHeld' /\ Echoes' /\ SweepForm' /\ Marks' /\ LosersWait'
        /\ RowsHeld'
    BY <1>1, <1>2, <1>9, <2>2, <2>3, <2>4, FlushFrame
  <2>6. \A e \in Range(mem') \union store' : e.id = id /\ row.status = "acknowledged"
          => e.status \notin {"pending", "error"}
    BY <1>6, <1>9 DEF Only
  <2>7. NoneRevived'
    <3>1. \A s \in Requests' : (s \in Requests /\ s.by # "flush") \/ (s.by = "flush" /\ ~FlushPut(s))
      BY <1>9, <2>2
    <3> QED BY <1>1, <1>2, <1>3, <2>4, <2>6, <3>1, FlushRevives
  <2>8. AheadUnsettled'
    <3>1. \A x, S : Only(x, S) => Only(x, S)'
      BY <1>9 DEF Only
    <3>2. \A s \in Requests' : s.by = "retry" => s \in Requests
      BY <1>9, <2>2
    <3> QED BY <2>1, <3>1, <3>2 DEF OutboxInv, SettleInv, AheadUnsettled, Only
  <2>9. RepairForm'
    BY <1>9, <2>1, <2>2 DEF RepairForm
  <2>10. FlushHolds'
    <3> SUFFICES ASSUME NEW x, x = r.row.id, x \notin rejected
                 PROVE  /\ r.op = "put" => Only(x, {"conflicted"})'
                        /\ r.op = "delete" => Only(x, {})' /\ ~HeldRow(x)' /\ ~Marking(x)'
      BY <1>1, <1>9, <2>2 DEF FlushHolds, FlushPut, HeldRow, Only, Marking
    <3>1. x = id
      BY <1>9
    <3>2. ~HeldRow(x)'
      BY <1>3, <1>6, <3>1 DEF HeldRow
    <3>3. Only(x, IF r.op = "put" THEN {"conflicted"} ELSE {})
      BY <1>9, <3>1
    <3>4. Only(x, IF r.op = "put" THEN {"conflicted"} ELSE {})'
      BY <1>9, <3>3 DEF Only
    <3>5. ASSUME r.op = "delete", NEW s \in Requests', s.by = "mark", s.row.id = x PROVE FALSE
      BY <1>9, <2>2, <3>3, <3>5 DEF OutboxInv, HoldInv, Marks, Only, Buffered
    <3> QED BY <3>2, <3>4, <3>5 DEF Marking, Only
  <2> QED BY <2>3, <2>5, <2>7, <2>8, <2>9, <2>10 DEF SettleInv, HoldInv
<1>10. CASE ~Known(id) /\ Repairs(DeleteReq(row, "flush"))
  <2> DEFINE r == DeleteReq(row, "flush")
  <2>1. r \in RequestType /\ r.row = row /\ r.drop = id /\ r.op = "delete" /\ r.by = "flush"
    BY <1>2, RequestIs
  <2>2. Repairs(r)
    BY <1>10
  <2>3. Only(id, {})
    BY <1>4, <1>10, BufferedIs DEF Known, Only
  <2> HIDE DEF r, Repairs
  <2>4. FormOf(r) /\ ~FlushPut(r)
    BY <2>1 DEF FormOf, FlushPut
  <2> QED BY <1>9, <2>1, <2>2, <2>3, <2>4
<1>11. CASE /\ Known(id) /\ EntryOf(mem, id).status # "pending"
            /\ Repairs(PutReq(EntryOf(mem, id), "flush"))
  <2> DEFINE e == EntryOf(mem, id)  r == PutReq(e, "flush")
  <2>1. /\ e \in OutboxEntry /\ e \in Range(mem) /\ e.id = id
        /\ \A f \in Range(mem) : f.id = id => f = e
    BY <1>11, HeldEntry DEF Known, OutboxInv
  <2>2. e.status = "conflicted" /\ Repairs(r)
    BY <1>7, <1>11, <2>1 DEF Only
  <2> HIDE DEF e
  <2>3. r \in RequestType /\ r.row = e /\ r.drop = id /\ r.op = "put" /\ r.by = "flush"
    BY <1>2, <2>1, RequestIs
  <2> HIDE DEF r, Repairs
  <2>4. FormOf(r) /\ ~FlushPut(r)
    BY <2>1, <2>2, <2>3 DEF FormOf, FlushPut
  <2>5. Only(id, {"conflicted"})
    BY <2>1, <2>2 DEF Only
  <2> QED BY <1>9, <2>1, <2>2, <2>3, <2>4, <2>5
<1>12. CASE /\ Buffered(mem, id, {"pending"}) /\ mem' = WithStatus(mem, id, row.status)
            /\ FlushFrom(flush.at + 1, mem', flush.refused, Tail(ops))
  <2>1. Only(id, {"pending"}) /\ row.status \in OutboxStatus
    BY <1>3, <1>12, OnlyOne DEF OutboxInv, OutboxStatus
  <2>2. row.status = "error" => id \notin Settled'
    BY <1>1, <1>2, <1>3 DEF OutboxInv, SettleInv, NoneRevived, Settled
  <2> DEFINE w == WithStatus(mem, id, row.status)
  <2>3. /\ \A e \in Range(w) : \E f \in Range(mem) :
             Alike(e, f) /\ IF e.id = id THEN e.status = row.status ELSE e = f
        /\ \A f \in Range(mem) : \E e \in Range(w) :
             Alike(e, f) /\ IF e.id = id THEN e.status = row.status ELSE e = f
    <3> HIDE DEF row, id
    <3> QED BY <1>4, <2>1, WithStatusIs, SMTT(30)
  <2>4. mem' = w
    BY <1>12
  <2> HIDE DEF w
  <2>5. FlushMarks
    <3>1. ASSUME NEW e \in Range(mem'), e \notin Range(mem)
          PROVE  /\ Persisting(e.id) /\ Buffered(mem, e.id, {"pending"})
                 /\ e.status \in {"acknowledged", "error"}
                 /\ e.status = "error" => e.id \in rejected' /\ e.id \notin Settled'
      <4>1. e.id = id /\ e.status = row.status
        BY <2>3, <2>4, <3>1
      <4> QED BY <1>1, <1>3, <1>12, <2>2, <4>1
    <3>2. ASSUME NEW e \in Range(mem)
          PROVE  \E f \in Range(mem') :
                   /\ f.id = e.id
                   /\ f = e \/ (e.status = "pending" /\ (f.status = "acknowledged" \/ f.id \in rejected'))
      <4>1. PICK f \in Range(mem') : Alike(f, e) /\ IF f.id = id THEN f.status = row.status ELSE f = e
        BY <2>3, <2>4
      <4>2. CASE f.id = id
        BY <1>1, <1>3, <2>1, <4>1, <4>2 DEF Alike, Only
      <4> QED BY <4>1, <4>2 DEF Alike
    <3> QED BY <3>1, <3>2 DEF FlushMarks
  <2>6. \A e \in Range(mem') \union store' : e.id = id => e.status = row.status
    BY <1>6, <2>3, <2>4
  <2>7. \/ acked' = acked
        \/ \E x : /\ acked' = acked \union {x} /\ Persisting(x)
                  /\ \A e \in Range(mem') \union store' : e.id = x => e.status \notin {"pending", "error"}
    BY <1>1, <1>3, <2>6
  <2>8. /\ flush.at + 1 \in Nat /\ flush.at + 1 >= 1 /\ flush.at + 1 > flush.at
        /\ flush.refused \in SUBSET rejected'
    BY <1>1, <1>4 DEF FlushType, OutboxInv, KeepInv, FlushForm
  <2> QED BY <1>1, <1>8, <1>12, <2>5, <2>7, <2>8, FlushFromSettles DEF h
<1> QED BY <1>1, <1>10, <1>11, <1>12

-----------------------------------------------------------------------------
(* Start, rehydration and reload *)

\* With nothing in flight, memory holds no more than the rows.
LEMMA QuietSettles ==
  ASSUME ops' = <<>>, flush' = NoFlush, pass' = "off", sweep' = <<>>, UNCHANGED <<store, acked, dropped, rejected>>,
         OutboxInv, Range(mem') \subseteq store
  PROVE  SettleInv' /\ HoldInv'
<1>1. Requests' = {} /\ DOMAIN ops' = {} /\ DOMAIN flush'.batch = {} /\ flush'.phase = "idle"
  BY DEF Requests, Range, NoFlush
<1>2. RepairForm' /\ AheadUnsettled' /\ ResolvedAreHeld' /\ DropsBehindFlush'
  BY <1>1 DEF RepairForm, AheadUnsettled, ResolvedAreHeld, DropsBehindFlush
<1>3. NoneRevived' /\ ErrorsRejected'
  BY <1>1 DEF OutboxInv, SettleInv, NoneRevived, ErrorsRejected, Settled
<1>4. Echoes' /\ Marks' /\ MarksFirst' /\ MarksBehindFlush' /\ FlushHolds'
  BY <1>1 DEF Echoes, Marks, OneOf, MarksFirst, MarksBehindFlush, FlushHolds
<1>5. <<>> \in Seq(Ids) /\ DOMAIN sweep' = {}
  OBVIOUS
<1>6. SweepForm' /\ LosersWait'
  BY <1>5 DEF SweepForm, LosersWait
<1>7. RowsHeld'
  BY DEF OutboxInv, KeepInv, RowsApart, RowsHeld, Only
<1> QED BY <1>2, <1>3, <1>4, <1>6, <1>7 DEF SettleInv, HoldInv

LEMMA LoadSettles == OutboxInv /\ (Rehydrate \/ Reload) => SettleInv' /\ HoldInv'
<1> SUFFICES ASSUME OutboxInv, Rehydrate \/ Reload PROVE SettleInv' /\ HoldInv'
  OBVIOUS
<1>1. CASE Rehydrate
  <2>1. /\ ops' = <<>> /\ flush' = NoFlush /\ pass' = "off" /\ sweep' = <<>>
        /\ UNCHANGED <<store, acked, dropped, rejected>>
    BY <1>1 DEF Rehydrate, session, history, OutboxInv, KeepInv, Unloaded
  <2>2. Range(mem') \subseteq store
    BY <1>1, RehydratedIs DEF OutboxInv
  <2> QED BY <2>1, <2>2, QuietSettles
<1>2. CASE Reload
  <2>1. /\ ops' = <<>> /\ flush' = NoFlush /\ pass' = "off" /\ sweep' = <<>> /\ mem' = <<>>
        /\ UNCHANGED <<store, acked, dropped, rejected>>
    BY <1>2 DEF Reload
  <2>2. Range(mem') \subseteq store
    BY <2>1 DEF Range
  <2> QED BY <2>1, <2>2, QuietSettles
<1> QED BY <1>1, <1>2

LEMMA OutboxStarts == Init => OutboxInv
<1> SUFFICES ASSUME Init PROVE OutboxInv
  OBVIOUS
<1>1. Requests = {} /\ DOMAIN ops = {} /\ DOMAIN flush.batch = {} /\ Range(mem) = {} /\ store = {}
      /\ flush.phase = "idle" /\ sweep = <<>> /\ pass = "off"
  BY DEF Init, Requests, Range, NoFlush
<1>2. SettleInv
  BY <1>1 DEF SettleInv, RepairForm, AheadUnsettled, NoneRevived, ErrorsRejected, ResolvedAreHeld,
              DropsBehindFlush
<1>3. <<>> \in Seq(Ids) /\ DOMAIN sweep = {}
  BY <1>1
<1>4. HoldInv
  BY <1>1, <1>3 DEF HoldInv, Echoes, SweepForm, Marks, LosersWait, MarksFirst, MarksBehindFlush, RowsHeld,
                    FlushHolds, OneOf
<1> QED BY <1>2, <1>4, KeepStarts DEF OutboxInv

LEMMA OutboxKeeps == OutboxInv /\ [Next]_vars => OutboxInv'
<1> SUFFICES ASSUME OutboxInv, [Next]_vars PROVE OutboxInv'
  OBVIOUS
<1>1. KeepInv'
  BY Keeps DEF OutboxInv
<1> SUFFICES SettleInv' /\ HoldInv'
  BY <1>1 DEF OutboxInv
<1>2. CASE Rehydrate \/ Reload
  BY <1>2, LoadSettles
<1>3. ASSUME NEW id \in Ids, Enqueue(id) \/ Retry(id) \/ ClearError(id) \/ ClearConflict(id)
      PROVE  SettleInv' /\ HoldInv'
  BY <1>3, EnqueueSettles, RetrySettles, ClearSettles DEF ClearError, ClearConflict
<1>4. ASSUME NEW id \in Ids, NEW new \in Ids, RetryConflicted(id, new) PROVE SettleInv' /\ HoldInv'
  BY <1>4, RetryConflictedSettles
<1>5. CASE EnqueueStored \/ RetryStored \/ ClearStored \/ RetryConflictedStored
  BY <1>5, EnqueueStoredSettles, RetryStoredSettles, ClearStoredSettles, RetryConflictedStoredSettles
<1>6. CASE StartFlush \/ Unreachable \/ FlushStored \/ FlushRepaired \/ FlushFault
  BY <1>6, StartFlushSettles, FlushEndsSettles, FlushStoredSettles, FlushRepairedSettles
<1>7. ASSUME NEW refused \in SUBSET Ids, Answered(refused) PROVE SettleInv' /\ HoldInv'
  BY <1>7, AnsweredSettles
<1>8. CASE Deliver \/ MatchEchoStored \/ MarkConflicted \/ MarkStored
  BY <1>8, DeliverSettles, MatchEchoStoredSettles, MarkConflictedSettles, MarkStoredSettles
<1>9. CASE StartPass \/ PageFails \/ Drained \/ (\E s \in Subjects : ForeignCommit(s)) \/ UNCHANGED vars
  BY <1>9, PassSettles
<1>10. CASE DetectConflicts
  BY <1>10, DetectSettles
<1> QED BY <1>2, <1>3, <1>4, <1>5, <1>6, <1>7, <1>8, <1>9, <1>10, Zenon DEF Next

-----------------------------------------------------------------------------
(* What the invariant gives *)

\* No action but StartFlush submits, and the batch it submits is what is pending.
LEMMA OnlyStartSubmits ==
  ASSUME Next \/ UNCHANGED vars, flush.phase = "idle", flush'.phase = "submitting"
  PROVE  flush'.batch = Pending /\ UNCHANGED <<acked, dropped>>
<1>1. flush' # flush /\ flush' # NoFlush
  BY DEF NoFlush
<1>2. CASE StartFlush
  BY <1>2 DEF StartFlush, NoFlush, history
<1>3. ASSUME Rehydrate \/ Reload \/ UNCHANGED vars PROVE FALSE
  BY <1>1, <1>3 DEF Rehydrate, Reload, vars
<1>4. ASSUME NEW id \in Ids, Enqueue(id) \/ Retry(id) \/ ClearError(id) \/ ClearConflict(id) PROVE FALSE
  BY <1>1, <1>4 DEF Enqueue, Retry, ClearError, ClearConflict, Clear
<1>5. ASSUME NEW id \in Ids, NEW new \in Ids, RetryConflicted(id, new) PROVE FALSE
  BY <1>1, <1>5 DEF RetryConflicted
<1>6. ASSUME EnqueueStored \/ RetryStored \/ ClearStored \/ RetryConflictedStored PROVE FALSE
  BY <1>1, <1>6 DEF EnqueueStored, RetryStored, ClearStored, RetryConflictedStored
<1>7. ASSUME Unreachable \/ FlushStored \/ FlushRepaired \/ FlushFault PROVE FALSE
  BY <1>1, <1>7 DEF Unreachable, FlushStored, FlushRepaired, FlushFault
<1>8. ASSUME NEW refused \in SUBSET Ids, Answered(refused) PROVE FALSE
  BY <1>8 DEF Answered
<1>9. ASSUME NEW s \in Subjects, ForeignCommit(s) PROVE FALSE
  BY <1>1, <1>9 DEF ForeignCommit
<1>10. ASSUME Deliver \/ MatchEchoStored \/ MarkConflicted \/ MarkStored PROVE FALSE
  BY <1>1, <1>10 DEF Deliver, MatchEchoStored, MarkConflicted, MarkStored
<1>11. ASSUME StartPass \/ PageFails \/ Drained \/ DetectConflicts PROVE FALSE
  BY <1>1, <1>11 DEF StartPass, PageFails, Drained, DetectConflicts
<1> QED BY <1>2, <1>3, <1>4, <1>5, <1>6, <1>7, <1>8, <1>9, <1>10, <1>11, Zenon DEF Next

LEMMA SubmitsUnsettled ==
  ASSUME OutboxInv, Next \/ UNCHANGED vars
  PROVE  NeverResubmitted
<1> SUFFICES ASSUME flush.phase = "idle", flush'.phase = "submitting", NEW e \in Range(flush'.batch)
             PROVE  e.id \notin acked \union dropped
  BY DEF NeverResubmitted
<1>1. flush'.batch = Pending
  BY OnlyStartSubmits
<1>2. Range(Pending) = {f \in Range(mem) : f.status = "pending"}
  BY PendingIs DEF OutboxInv, KeepInv, TypeInv
<1> QED BY <1>1, <1>2 DEF OutboxInv, SettleInv, NoneRevived, Settled

\* The store changes only as the request at the head of the queue says.
LEMMA OnlyHeadStores ==
  ASSUME Next \/ UNCHANGED vars
  PROVE  store' = store \/ (ops # <<>> /\ store' = StoreAfter(Head(ops)))
<1>1. CASE Rehydrate \/ Reload \/ UNCHANGED vars
  BY <1>1 DEF Rehydrate, Reload, vars
<1>2. ASSUME NEW id \in Ids, Enqueue(id) \/ Retry(id) \/ ClearError(id) \/ ClearConflict(id)
      PROVE  store' = store
  BY <1>2 DEF Enqueue, Retry, ClearError, ClearConflict, Clear
<1>3. ASSUME NEW id \in Ids, NEW new \in Ids, RetryConflicted(id, new) PROVE store' = store
  BY <1>3 DEF RetryConflicted
<1>4. ASSUME EnqueueStored \/ RetryStored \/ ClearStored \/ RetryConflictedStored \/ MatchEchoStored
               \/ MarkStored \/ FlushStored \/ FlushRepaired \/ FlushFault
      PROVE  store' = store \/ (ops # <<>> /\ store' = StoreAfter(Head(ops)))
  BY <1>4 DEF EnqueueStored, RetryStored, ClearStored, RetryConflictedStored, MatchEchoStored,
              MarkStored, FlushStored, FlushRepaired, FlushFault, Completes, Fails
<1>5. ASSUME NEW refused \in SUBSET Ids, Answered(refused) PROVE store' = store
  BY <1>5 DEF Answered
<1>6. ASSUME NEW s \in Subjects, ForeignCommit(s) PROVE store' = store
  BY <1>6 DEF ForeignCommit
<1>7. CASE StartFlush \/ Unreachable \/ Deliver \/ MarkConflicted \/ StartPass \/ PageFails \/ Drained
             \/ DetectConflicts
  BY <1>7 DEF StartFlush, Unreachable, Deliver, MarkConflicted, StartPass, PageFails, Drained,
              DetectConflicts
<1> QED BY <1>1, <1>2, <1>3, <1>4, <1>5, <1>6, <1>7, Zenon DEF Next

LEMMA HoldsStand ==
  ASSUME OutboxInv, Next \/ UNCHANGED vars
  PROVE  StoredConflictHolds
<1> SUFFICES ASSUME NEW e \in store, e.status = "conflicted", e.id \notin rejected,
                    ~\E f \in store' : f.id = e.id /\ f.status = "conflicted"
             PROVE  ops # <<>> /\ Head(ops).by \in {"clear", "retryConflicted"}
  BY DEF StoredConflictHolds
<1> DEFINE h == Head(ops)
<1>1. ops # <<>> /\ store' = StoreAfter(h)
  BY OnlyHeadStores
<1>2. h \in Requests /\ h \in RequestType /\ FormOf(h)
  BY <1>1, HeadIs DEF OutboxInv
<1> HIDE DEF h, Requests
<1>3. /\ e.id \notin Touches(h) => e \in store'
      /\ h.op # "delete" => h.row \in store'
  BY <1>1, <1>2, StoreAfterIs DEF OutboxInv, KeepInv
<1>4. e.id \in Touches(h) /\ ~(h.op # "delete" /\ h.row.id = e.id /\ h.row.status = "conflicted")
  BY <1>3
<1>5. Only(e.id, {"conflicted"}) /\ e.id \in authored /\ HeldRow(e.id)
  BY DEF OutboxInv, HoldInv, RowsHeld, KeepInv, IdsAuthored, HeldRow
<1>6. CASE h.by = "enqueue"
  BY <1>2, <1>4, <1>5, <1>6 DEF FormOf, Touches, OutboxInv, KeepInv, IdsAuthored, Authors
<1>7. CASE h.by = "retry"
  BY <1>2, <1>4, <1>7 DEF FormOf, Touches, OutboxInv, SettleInv, ErrorsRejected
<1>8. CASE h.by = "echo"
  BY <1>2, <1>4, <1>5, <1>8 DEF FormOf, Touches, OutboxInv, HoldInv, Echoes, Buffered, Only
<1>9. CASE h.by = "mark"
  BY <1>2, <1>4, <1>9 DEF FormOf, Touches
<1>10. CASE h.by = "flush"
  <2>1. h.row.id = e.id /\ h.drop = e.id /\ h.op \in {"put", "delete"}
    BY <1>2, <1>4, <1>10 DEF FormOf, Touches
  <2>2. h.op = "put" => FlushPut(h)
    BY <1>4, <1>10, <2>1 DEF FlushPut
  <2> QED BY <1>2, <1>5, <1>10, <2>1, <2>2 DEF OutboxInv, HoldInv, FlushHolds
<1> QED BY <1>1, <1>2, <1>6, <1>7, <1>8, <1>9, <1>10 DEF RequestType, AppOps, h

\* outbox.ts, runFlush and markConflicted: a flush never submits an action whose
\* acknowledgement is stored or that the application dropped, and a stored conflict the
\* server never refused ends only by the application's clear or retry; no echo, flush,
\* repair, reload or store fault that runs meanwhile undoes either.
THEOREM SettledStaySettled == SumSpec => BufferStaysSettled
<1> DEFINE SumInv == part = "outbox" => OutboxInv
<1>1. SumInit => SumInv
  BY OutboxStarts DEF SumInit
<1>2. SumInv /\ [SumNext]_allVars => SumInv'
  BY SumSteps, OutboxKeeps
<1>3. SumInv /\ [SumNext]_allVars
        => [part = "outbox" => NeverResubmitted /\ StoredConflictHolds]_allVars
  BY SumSteps, SubmitsUnsettled, HoldsStand
<1> QED BY <1>1, <1>2, <1>3, PTL DEF SumSpec, BufferStaysSettled

-----------------------------------------------------------------------------
(* The session *)

\* client.ts, runLiveLoop and catchUp: in the instance that the run checks as well, a
\* session that rebases holds the wire and skips nothing it is not told of, however many
\* commits the server has stored and not resolved.
THEOREM SessionSkips == ASSUME Session!SessionConstants PROVE SumSpec => []SessionSkipsNothing
<1> DEFINE Inv == part = "session" => Session!SessionInv
<1>1. SumInit => Inv
  BY Session!SessionStarts DEF SumInit
<1>2. Inv /\ [SumNext]_allVars => Inv'
  <2> SUFFICES ASSUME Inv, [SumNext]_allVars, part' = "session" PROVE Session!SessionInv'
    OBVIOUS
  <2>1. part = "session"
    BY DEF SumNext, allVars
  <2>2. [Session!Next]_(Session!vars)
    BY <2>1 DEF SumNext, allVars, loopVars, Session!vars
  <2> QED BY <2>1, <2>2, Session!SessionStep
<1>3. Inv => SessionSkipsNothing
  BY Session!SessionClaims DEF SessionSkipsNothing
<1> QED BY <1>1, <1>2, <1>3, PTL DEF SumSpec
=============================================================================

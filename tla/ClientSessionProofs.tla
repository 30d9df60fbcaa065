------------------------ MODULE ClientSessionProofs ------------------------
(***************************************************************************)
(* A session that rebases holds the wire, and it skips nothing it is not   *)
(* told of: for any number of subscriptions, groups, faults, commits, and  *)
(* commits that are stored and not resolved.                               *)
(***************************************************************************)
EXTENDS ClientSession, FiniteSetTheorems, WellFoundedInduction, TLAPS

-----------------------------------------------------------------------------
(* The inductive invariant *)

Phases ==
  {"new", "greeting", "asking", "seed", "rebase", "opening", "resuming", "live", "closing",
   "backoff", "ended"}
LoopType ==
  [phase : Phases, cancelled : BOOLEAN, groups : Groups, at : Nat, offset : Nat \cup {NoCursor},
   todo : SUBSET Nat, half : Nat, stream : Seq(Nat), call : {"no", "asked", "answered"},
   sent : [Groups -> Nat \cup {NoCursor, Rejected}], roster : Groups]
SessionType ==
  /\ None \notin Subs /\ NGroups \in Nat
  /\ active \in Subs \cup {None} /\ sub \in [Subs -> LoopType] /\ gate \in BOOLEAN
  /\ log \in Seq(Groups) /\ watermark \in Nat /\ watermark <= Len(log)
  /\ members \in Groups /\ pageSize \in Nat \ {0}

\* No cursor is above what was stored.
CursorForm ==
  /\ durable \in [Groups -> Nat \cup {NoCursor}] /\ cursor \in [Groups -> Nat]
  /\ \A g \in Groups : durable[g] <= Len(log) /\ cursor[g] <= Len(log)

Covered == applied \cup escaped
Running(r) == r.phase \notin {"new", "ended"}
Rebases(r) == r.phase \in {"asking", "seed", "rebase"}
Streams(r) == r.phase \in {"live", "closing"}
Sent(r, n) == \E i \in DOMAIN r.stream : r.stream[i] = n

\* What a loop holds of the handshake under way: a cursor that was answered is resolved.
CallForm(r) ==
  /\ r.phase \in {"greeting", "asking"} => r.call # "no"
  /\ r.call # "no" => /\ r.phase \in {"greeting", "asking"} \/ (Streams(r) /\ r.half = 0)
                      /\ \A g \in Groups : r.sent[g] <= Len(log)
  /\ r.call = "answered" => \A g \in Groups : r.sent[g] <= watermark

\* Of its group's page.
PageForm(r) ==
  /\ r.at \in 1..(r.groups + 1) /\ r.offset <= Len(log)
  /\ r.at > r.groups => r.todo = {} /\ r.offset = NoCursor
  /\ \A n \in r.todo : n \in DOMAIN log /\ log[n] = r.at
  /\ r.half # 0 => r.half \in r.todo /\ \A n \in r.todo : r.half <= n

\* Of its stream: events that were resolved, in that order.
StreamForm(r) ==
  /\ \A i \in DOMAIN r.stream : r.stream[i] <= watermark
  /\ \A i, j \in DOMAIN r.stream : i < j /\ r.stream[i] # WakeUp /\ r.stream[j] # WakeUp =>
       r.stream[i] < r.stream[j]
  /\ r.half # 0 => /\ r.half <= watermark
                   /\ \A i \in DOMAIN r.stream : r.stream[i] # WakeUp => r.half < r.stream[i]

LoopForm(r) ==
  /\ r.phase = "new" => r = ActiveSubscription
  /\ CallForm(r)
  /\ r.phase = "rebase" => PageForm(r)
  /\ Streams(r) => StreamForm(r)
  /\ r.phase # "rebase" => r.todo = {}
  /\ r.phase \notin {"rebase", "opening", "resuming"} => r.offset = NoCursor
  /\ r.half # 0 => r.phase = "rebase" \/ Streams(r)
  /\ ~Streams(r) => r.stream = <<>>
  /\ r.phase = "seed" => r.at >= 1
  /\ r.phase \in {"opening", "resuming"} => r.offset \in 0..Len(log)
  /\ r.phase \in {"opening", "resuming"} => r.at \in 1..r.groups
  /\ r.cancelled /\ Running(r) =>
       \/ Rebases(r) \/ r.phase = "resuming"
       \/ Streams(r) /\ r.stream = <<>> /\ (r.half # 0 \/ r.call # "no")
LoopForms == \A s \in Subs : LoopForm(sub[s])

\* One loop runs that is neither cancelled nor yet to subscribe: the current one.
OneLoop ==
  /\ \A s \in Subs : Running(sub[s]) /\ ~sub[s].cancelled /\ sub[s].phase # "greeting" => active = s
  /\ \A s \in Subs : sub[s].phase = "greeting" => ~sub[s].cancelled
  /\ active # None => ~sub[active].cancelled /\ sub[active].phase \notin {"new", "greeting"}

\* A loop goes on as if Action n were in the log: one at or below the cursor of its page
\* or of the events it applies, one that was resolved in a group it has drained, and one
\* that its stream should have carried.
Needs(r, n) ==
  \/ /\ r.phase = "rebase" /\ log[n] = r.at
     /\ n = r.half \/ (n \notin r.todo /\ (n <= r.offset \/ \E m \in r.todo : n <= m))
  \/ /\ r.phase = "rebase" /\ ~r.cancelled /\ n <= watermark
     /\ log[n] < r.at \/ (log[n] = r.at /\ r.todo # {} /\ r.offset = NoCursor /\ n \notin r.todo)
  \/ r.phase = "opening" /\ ~r.cancelled /\ n <= watermark /\ log[n] <= r.groups
  \/ r.phase = "resuming" /\ n <= r.offset /\ log[n] <= r.groups
  \/ Streams(r) /\ n <= r.half /\ log[n] = 1
  \/ r.phase = "live" /\ ~r.cancelled /\ n <= watermark /\ log[n] <= r.groups /\ ~Sent(r, n)
  \/ /\ r.phase = "closing" /\ ~r.cancelled /\ log[n] = 1 /\ ~Sent(r, n)
     /\ \E i \in DOMAIN r.stream : n <= r.stream[i]
LoopsSound == \A s \in Subs, n \in DOMAIN log : Needs(sub[s], n) \/ Carries(sub[s], n) => n \in Covered

\* What the cursors claim: the durable ones always; the memory ones of what is not yet
\* resolved, and of the groups of a current loop that has caught up.
DurableSound == \A n \in DOMAIN log : n <= durable[log[n]] => n \in Covered
MemorySound ==
  \A n \in DOMAIN log : n <= cursor[log[n]] =>
    /\ n > watermark => n \in Covered
    /\ active # None /\ sub[active].phase \in {"opening", "live"} /\ log[n] <= sub[active].groups =>
         n \in Covered

\* The last event of a loop that was taken over is older than the current stream.
LastEventBehind ==
  \A s \in Subs : Streams(sub[s]) /\ sub[s].cancelled /\ active # None /\ Streams(sub[active]) =>
    \A i \in DOMAIN sub[active].stream :
      sub[active].stream[i] # WakeUp => sub[s].half < sub[active].stream[i]

Cursors == CursorForm /\ DurableSound /\ MemorySound
Loops == LoopForms /\ OneLoop /\ RebaseHoldsGate /\ LoopsSound /\ LastEventBehind
SessionInv == SessionType /\ Cursors /\ Loops

-----------------------------------------------------------------------------
(* Pages *)

\* A set of natural numbers has a least element.
LEMMA LeastOf ==
  ASSUME NEW S \in SUBSET Nat, S # {}
  PROVE  \E m \in S : \A n \in S : m <= n
<1> DEFINE LT == {ss \in Nat \X Nat : ss[1] < ss[2]}
<1>1. OpToRel(<, Nat) = LT
  BY Zenon DEF OpToRel
<1>2. IsWellFoundedOn(LT, Nat)
  BY <1>1, NatLessThanWellFounded, Zenon
<1>3. PICK m \in S : \A y \in S : ~(<<y, m>> \in LT)
  <2> HIDE DEF LT
  <2> QED BY <1>2, WFMin
<1>4. ASSUME NEW n \in S, n < m PROVE FALSE
  <2>1. <<n, m>> \in Nat \X Nat /\ <<n, m>>[1] < <<n, m>>[2]
    BY <1>4
  <2>2. <<n, m>> \in LT
    BY <2>1
  <2> QED BY <1>3, <2>2, Zenon
<1>5. \A n \in S : m <= n
  BY <1>4
<1> QED BY <1>5

\* A bounded one has a greatest.
LEMMA GreatestOf ==
  ASSUME NEW S \in SUBSET Nat, S # {}, NEW b \in Nat, \A n \in S : n <= b
  PROVE  \E m \in S : \A n \in S : n <= m
<1> DEFINE T == {d \in Nat : b - d \in S}
<1>1. T # {}
  <2>1. PICK n \in S : TRUE
    OBVIOUS
  <2>2. b - n \in Nat /\ b - (b - n) = n
    BY <2>1
  <2>3. b - n \in T
    BY <2>1, <2>2
  <2> QED BY <2>3
<1>2. PICK d \in T : \A e \in T : d <= e
  <2> HIDE DEF T
  <2>1. T \in SUBSET Nat
    BY DEF T
  <2> QED BY <1>1, <2>1, LeastOf
<1>3. ASSUME NEW n \in S PROVE n <= b - d
  <2>1. n \in Nat /\ b - n \in Nat /\ b - (b - n) = n
    OBVIOUS
  <2>2. b - n \in T
    BY <2>1
  <2>3. d <= b - n
    BY <1>2, <2>2
  <2> QED BY <2>1, <2>3
<1> QED BY <1>2, <1>3

LEMMA MinOf ==
  ASSUME NEW S \in SUBSET Nat, S # {}
  PROVE  Min(S) \in S /\ \A n \in S : Min(S) <= n
<1>1. \E m \in S : \A n \in S : m <= n
  BY LeastOf
<1> QED BY <1>1 DEF Min

LEMMA MaxOf ==
  ASSUME NEW S \in SUBSET Nat, S # {}, NEW b \in Nat, \A n \in S : n <= b
  PROVE  Max(S) \in S /\ \A n \in S : n <= Max(S)
<1>1. PICK m \in S : \A n \in S : n <= m
  BY GreatestOf
<1>2. \E x \in S : \A y \in S : x >= y
  BY <1>1
<1>3. Max(S) \in S /\ \A n \in S : Max(S) >= n
  BY <1>2 DEF Max
<1> QED BY <1>3

\* A page has the first rows after its offset, and one that is not full has all of them.
LEMMA PageRows ==
  ASSUME log \in Seq(Groups), Bound \in Nat, pageSize \in Nat \ {0}, NEW g \in Groups,
         NEW offset \in Nat \cup {NoCursor}
  PROVE  /\ RowsAfter(g, offset) \subseteq Nat /\ PageAfter(g, offset) \subseteq RowsAfter(g, offset)
         /\ Cardinality(PageAfter(g, offset)) \in Nat
         /\ \A m \in PageAfter(g, offset), n \in RowsAfter(g, offset) : n <= m => n \in PageAfter(g, offset)
         /\ Cardinality(PageAfter(g, offset)) < pageSize => PageAfter(g, offset) = RowsAfter(g, offset)
         /\ PageAfter(g, offset) = {} => Cardinality(PageAfter(g, offset)) < pageSize
         /\ PageAfter(g, offset) # {} =>
              /\ Max(PageAfter(g, offset)) \in PageAfter(g, offset)
              /\ \A n \in PageAfter(g, offset) : n <= Max(PageAfter(g, offset))
<1> DEFINE rows == RowsAfter(g, offset)
           page == PageAfter(g, offset)
           below(n) == {m \in rows : m < n}
<1>1. rows \in SUBSET Nat /\ \A n \in rows : n <= Bound
  BY DEF RowsAfter
<1>2. page = {n \in rows : Cardinality(below(n)) < pageSize}
  BY DEF PageAfter
<1>3. page \in SUBSET rows /\ \A n \in rows : below(n) \in SUBSET rows
  BY <1>2
<1> HIDE DEF rows, page
<1>4. IsFiniteSet(rows)
  BY <1>1, FS_BoundedSetOfNaturals
<1>5. IsFiniteSet(page) /\ \A n \in rows : IsFiniteSet(below(n))
  <2>1. IsFiniteSet(page)
    BY <1>3, <1>4, FS_Subset
  <2>2. ASSUME NEW n \in rows PROVE IsFiniteSet(below(n))
    BY <1>3, <1>4, FS_Subset
  <2> QED BY <2>1, <2>2
<1>6. Cardinality(page) \in Nat /\ \A n \in rows : Cardinality(below(n)) \in Nat
  BY <1>5, FS_CardinalityType
<1>7. ASSUME NEW m \in page, NEW n \in rows, n <= m
      PROVE  n \in page
  <2>1. m \in rows /\ below(n) \in SUBSET below(m)
    <3>1. m \in rows /\ m \in Nat /\ n \in Nat
      BY <1>1, <1>3
    <3>2. ASSUME NEW k \in rows, k < n PROVE k < m
      BY <1>1, <1>7, <3>1, <3>2
    <3> QED BY <3>1, <3>2
  <2>2. Cardinality(below(n)) <= Cardinality(below(m))
    BY <1>5, <2>1, FS_Subset
  <2>3. Cardinality(below(m)) < pageSize
    BY <1>2
  <2> QED BY <1>2, <1>6, <2>1, <2>2, <2>3
<1>8. ASSUME Cardinality(page) < pageSize
      PROVE  page = rows
  <2> SUFFICES ASSUME rows \ page # {} PROVE FALSE
    BY <1>3
  <2>1. rows \ page \in SUBSET Nat
    BY <1>1
  <2>2. PICK n \in rows \ page : \A m \in rows \ page : n <= m
    BY <2>1, LeastOf
  <2>3. below(n) \in SUBSET page
    <3>1. ASSUME NEW k \in rows, k < n PROVE k \in page
      BY <1>1, <2>2, <3>1
    <3> QED BY <3>1
  <2>4. Cardinality(below(n)) <= Cardinality(page)
    BY <1>5, <2>3, FS_Subset
  <2> QED BY <1>2, <1>6, <1>8, <2>2, <2>4
<1>9. page = {} => Cardinality(page) < pageSize
  BY FS_EmptySet
<1>10. ASSUME page # {}
       PROVE  Max(page) \in page /\ \A n \in page : n <= Max(page)
  <2>1. page \in SUBSET Nat /\ \A n \in page : n <= Bound
    BY <1>1, <1>3
  <2> QED BY <1>10, <2>1, MaxOf
<1> QED BY <1>1, <1>3, <1>6, <1>7, <1>8, <1>9, <1>10 DEF rows, page

-----------------------------------------------------------------------------
(* Steps of one loop *)
-----------------------------------------------------------------------------
(* Steps of one loop *)

\* What covers an action stays when no cursor is reset.
Grows == \A n \in Covered : n \in Covered'

\* What loops other than s build on stays whatever s does.
Kept(s) ==
  \A t \in Subs \ {s}, n \in DOMAIN log :
    n \in Covered /\ (BuildsOn(sub[t], n) \/ Carries(sub[t], n)) => n \in Covered'

LEMMA GroupsAreNumbers == Groups \subseteq Nat
BY DEF Groups

LEMMA GroupsBelow ==
  ASSUME NGroups \in Nat, NEW h \in Groups
  PROVE  1..h \subseteq Groups /\ 1 \in 1..h /\ h \in 1..h
BY DEF Groups

LEMMA SessionTypes ==
  ASSUME SessionInv
  PROVE  /\ log \in Seq(Groups) /\ watermark \in Nat /\ members \in Groups
         /\ watermark <= Len(log) /\ DOMAIN log = 1..Len(log)
         /\ Len(log) \in Nat /\ Bound \in Nat /\ Bound <= Len(log) /\ watermark <= Bound
         /\ durable \in [Groups -> Nat \cup {NoCursor}] /\ cursor \in [Groups -> Nat]
         /\ Groups \subseteq Nat \ {0} /\ 1 \in Groups /\ pageSize \in Nat \ {0}
         /\ sub \in [Subs -> LoopType] /\ active \in Subs \cup {None} /\ None \notin Subs
         /\ \A n \in DOMAIN log : n \in Nat \ {0} /\ n <= Len(log) /\ log[n] \in Groups
         /\ \A g \in Groups : durable[g] <= Len(log) /\ cursor[g] <= Len(log)
<1>1. /\ log \in Seq(Groups) /\ watermark \in Nat /\ watermark <= Len(log) /\ members \in Groups
      /\ NGroups \in Nat
  BY DEF SessionInv, SessionType
<1>2. /\ Len(log) \in Nat /\ DOMAIN log = 1..Len(log)
      /\ \A n \in DOMAIN log : n \in Nat \ {0} /\ n <= Len(log) /\ log[n] \in Groups
  BY <1>1
<1>3. Groups \subseteq Nat \ {0} /\ 1 \in Groups
  BY <1>1 DEF Groups
<1>4. Bound \in Nat /\ watermark <= Bound /\ Bound <= Len(log)
  BY <1>1, <1>2 DEF Bound
<1> QED BY <1>1, <1>2, <1>3, <1>4 DEF SessionInv, SessionType, Cursors, CursorForm

\* A loop goes on from what it needs.
LEMMA NeedsBuild ==
  ASSUME log \in Seq(Groups), NEW r \in LoopType, LoopForm(r), NEW n \in DOMAIN log, Needs(r, n)
  PROVE  BuildsOn(r, n)
<1>1. n \in Nat \ {0} /\ log[n] \in Groups
  OBVIOUS
<1>2. CASE r.phase = "rebase"
  <2>1. PageForm(r)
    BY <1>2 DEF LoopForm
  <2>2. CASE log[n] = r.at
    <3>1. r.todo # {} \/ r.half # 0 \/ r.offset # NoCursor
      <4>1. r.at \in Nat /\ ~(log[n] < r.at)
        BY <2>2, <1>1 DEF LoopType
      <4>2. r.offset = NoCursor => ~(n <= r.offset)
        BY <1>1 DEF NoCursor
      <4> QED BY <1>1, <1>2, <2>2, <4>1, <4>2 DEF Needs, Streams
    <3> QED BY <1>2, <2>2, <3>1 DEF BuildsOn, MidGroup
  <2>3. CASE log[n] # r.at
    BY <1>2, <2>3 DEF Needs, BuildsOn, Streams
  <2> QED BY <2>2, <2>3
<1>3. CASE r.phase # "rebase"
  BY <1>3 DEF Needs, BuildsOn, Streams
<1> QED BY <1>2, <1>3

LEMMA GrowsKeeps == ASSUME NEW s \in Subs, Grows PROVE Kept(s)
BY DEF Grows, Kept

\* A step of the loop s keeps what is said of all loops if it keeps what is said of s.
LEMMA FormsStay ==
  ASSUME SessionInv, NEW s \in Subs, NEW q \in LoopType, sub' = [sub EXCEPT ![s] = q],
         UNCHANGED server, Kept(s), LoopForm(q),
         \A n \in DOMAIN log : Needs(q, n) \/ Carries(q, n) => n \in Covered'
  PROVE  LoopForms' /\ LoopsSound'
<1>1. /\ sub'[s] = q /\ \A t \in Subs \ {s} : sub'[t] = sub[t]
      /\ sub \in [Subs -> LoopType] /\ log \in Seq(Groups) /\ log' = log /\ watermark' = watermark
  BY SessionTypes DEF server
<1>2. ASSUME NEW t \in Subs PROVE LoopForm(sub[t])'
  <2>1. PICK x \in LoopType : x = sub'[t] /\ LoopForm(x)
    BY <1>1 DEF SessionInv, Loops, LoopForms
  <2>2. LoopForm(x)'
    BY <1>1, <2>1 DEF LoopForm, CallForm, PageForm, StreamForm, Running, Rebases, Streams, WakeUp
  <2>3. sub[t]' = x
    BY <2>1
  <2> QED BY <2>2, <2>3
<1>3. ASSUME NEW t \in Subs, NEW n \in DOMAIN log, (Needs(sub[t], n) \/ Carries(sub[t], n))'
      PROVE  n \in Covered'
  <2>1. PICK x \in LoopType : x = sub'[t]
    BY <1>1
  <2>2. (Needs(x, n) \/ Carries(x, n))'
    BY <1>3, <2>1
  <2>3. Needs(x, n) \/ Carries(x, n)
    BY <1>1, <2>2 DEF Needs, Carries, Streams, Sent
  <2>4. CASE t = s
    BY <1>1, <2>1, <2>3, <2>4
  <2>5. CASE t # s
    <3>1. x = sub[t] /\ LoopForm(x)
      BY <1>1, <2>1, <2>5 DEF SessionInv, Loops, LoopForms
    <3>2. n \in Covered
      BY <2>3, <3>1 DEF SessionInv, Loops, LoopsSound
    <3>3. BuildsOn(x, n) \/ Carries(x, n)
      BY <1>1, <2>3, <3>1, NeedsBuild
    <3> QED BY <2>5, <3>1, <3>2, <3>3 DEF Kept
  <2> QED BY <2>4, <2>5
<1> QED BY <1>1, <1>2, <1>3 DEF LoopForms, LoopsSound

\* A loop is where it was, or goes on, or is told to greet.
Follows(q, r) ==
  \/ q.phase = r.phase
  \/ r.phase \notin {"new", "greeting", "ended"} /\ q.phase \notin {"new", "greeting"}
  \/ r.phase = "new" /\ q.phase = "greeting" /\ ~q.cancelled

LEMMA OneLoopStays ==
  ASSUME SessionInv, NEW s \in Subs, NEW q \in LoopType, sub' = [sub EXCEPT ![s] = q],
         active' = active, q.cancelled = sub[s].cancelled, Follows(q, sub[s]),
         active = s /\ Rebases(q) => ~gate', active # s /\ gate' => gate
  PROVE  OneLoop' /\ RebaseHoldsGate'
<1>1. /\ sub'[s] = q /\ \A t \in Subs \ {s} : sub'[t] = sub[t]
      /\ active \in Subs \cup {None} /\ None \notin Subs
  BY SessionTypes
<1>2. OneLoop /\ RebaseHoldsGate
  BY DEF SessionInv, Loops
<1>3. OneLoop'
  BY <1>1, <1>2 DEF OneLoop, Running, Follows
<1>4. RebaseHoldsGate'
  BY <1>1, <1>2 DEF RebaseHoldsGate, Rebases
<1> QED BY <1>3, <1>4

LEMMA NothingSent == <<>> \in Seq(Nat) /\ Len(<<>>) = 0 /\ DOMAIN <<>> = {}
OBVIOUS

LEMMA TailOf ==
  ASSUME NEW e \in Seq(Nat), e # <<>>
  PROVE  /\ Head(e) \in Nat /\ Tail(e) \in Seq(Nat) /\ 1 \in DOMAIN e /\ e[1] = Head(e)
         /\ \A i \in DOMAIN Tail(e) : i \in Nat /\ i + 1 \in DOMAIN e /\ e[i + 1] = Tail(e)[i] /\ 1 < i + 1
         /\ \A j \in DOMAIN e : j = 1 \/ (j - 1 \in DOMAIN Tail(e) /\ Tail(e)[j - 1] = e[j])
OBVIOUS

\* The streams only lose events, and a loop that was taken over keeps its last.
Narrows(q, r) ==
  Streams(q) => /\ q.cancelled => Streams(r) /\ q.half = r.half
                /\ q.stream = <<>> \/ (Streams(r) /\ \A i \in DOMAIN q.stream : Sent(r, q.stream[i]))

LEMMA EventsStay ==
  ASSUME SessionInv, NEW s \in Subs, NEW q \in LoopType, sub' = [sub EXCEPT ![s] = q],
         active' = active, q.cancelled = sub[s].cancelled, Narrows(q, sub[s])
  PROVE  LastEventBehind'
<1>1. /\ sub'[s] = q /\ \A t \in Subs \ {s} : sub'[t] = sub[t]
      /\ active \in Subs \cup {None} /\ None \notin Subs /\ sub \in [Subs -> LoopType]
  BY SessionTypes
<1> SUFFICES ASSUME NEW t \in Subs, Streams(sub'[t]), sub'[t].cancelled, active # None,
                    Streams(sub'[active]), NEW i \in DOMAIN sub'[active].stream,
                    sub'[active].stream[i] # WakeUp
             PROVE  sub'[t].half < sub'[active].stream[i]
  BY DEF LastEventBehind
<1>2. Streams(sub[t]) /\ sub[t].cancelled /\ sub'[t].half = sub[t].half
  BY <1>1 DEF Narrows
<1>3. Streams(sub[active]) /\ \E j \in DOMAIN sub[active].stream : sub[active].stream[j] = sub'[active].stream[i]
  BY <1>1, NothingSent DEF Narrows, Sent
<1> QED BY <1>2, <1>3 DEF SessionInv, Loops, LastEventBehind

\* A step of the loop s that changes neither the current subscription nor the server.
LEMMA LoopKeeps ==
  ASSUME SessionInv, NEW s \in Subs, NEW q \in LoopType, sub' = [sub EXCEPT ![s] = q],
         UNCHANGED <<active, server>>, Kept(s), LoopForm(q),
         \A n \in DOMAIN log : Needs(q, n) \/ Carries(q, n) => n \in Covered',
         q.cancelled = sub[s].cancelled, Follows(q, sub[s]), Narrows(q, sub[s]),
         gate' \in BOOLEAN, active = s /\ Rebases(q) => ~gate', active # s /\ gate' => gate
  PROVE  SessionType' /\ Loops'
<1>1. UNCHANGED server /\ active' = active
  OBVIOUS
<1>2. LoopForms' /\ LoopsSound'
  BY <1>1, FormsStay
<1>3. OneLoop' /\ RebaseHoldsGate'
  BY <1>1, OneLoopStays
<1>4. LastEventBehind'
  BY <1>1, EventsStay
<1>5. SessionType'
  BY <1>1 DEF SessionInv, SessionType, server
<1> QED BY <1>2, <1>3, <1>4, <1>5 DEF Loops

\* What the memory cursors have to cover of the groups of a loop that has caught up.
CaughtUp(r) == r.phase \in {"opening", "live"}

LEMMA CursorsStay ==
  ASSUME SessionInv, NEW s \in Subs, NEW q \in LoopType, sub' = [sub EXCEPT ![s] = q],
         UNCHANGED <<active, server, durable, cursor>>, Grows,
         active = s /\ CaughtUp(q) =>
           \A n \in DOMAIN log : log[n] <= q.groups /\ n <= cursor[log[n]] => n \in Covered'
  PROVE  Cursors'
<1>1. /\ sub'[s] = q /\ \A t \in Subs \ {s} : sub'[t] = sub[t]
      /\ active \in Subs \cup {None} /\ None \notin Subs /\ sub \in [Subs -> LoopType]
      /\ log' = log /\ watermark' = watermark /\ durable' = durable /\ cursor' = cursor /\ active' = active
  BY SessionTypes DEF server
<1>2. CursorForm'
  BY <1>1 DEF SessionInv, Cursors, CursorForm
<1>3. DurableSound'
  BY <1>1 DEF SessionInv, Cursors, DurableSound, Grows
<1>4. MemorySound'
  <2> SUFFICES ASSUME NEW n \in DOMAIN log, n <= cursor[log[n]]
               PROVE  /\ n > watermark => n \in Covered'
                      /\ active # None /\ sub'[active].phase \in {"opening", "live"}
                           /\ log[n] <= sub'[active].groups => n \in Covered'
    BY <1>1 DEF MemorySound
  <2>1. MemorySound
    BY DEF SessionInv, Cursors
  <2>2. n > watermark => n \in Covered'
    BY <2>1 DEF MemorySound, Grows
  <2>3. CASE active = s
    BY <1>1, <2>2, <2>3 DEF CaughtUp
  <2>4. CASE active # s
    BY <1>1, <2>1, <2>2, <2>4 DEF MemorySound, Grows
  <2> QED BY <2>2, <2>3, <2>4
<1> QED BY <1>2, <1>3, <1>4 DEF Cursors

\* The durable cursor of a group moves to d, and its memory cursor may follow.
LEMMA CursorMoves ==
  ASSUME SessionInv, NEW s \in Subs, NEW q \in LoopType, sub' = [sub EXCEPT ![s] = q],
         UNCHANGED <<active, server>>, Grows, ~CaughtUp(q),
         NEW g \in Groups, NEW d \in Nat \cup {NoCursor}, d <= Len(log),
         \A n \in DOMAIN log : log[n] = g /\ n <= d => n \in Covered',
         durable' = [durable EXCEPT ![g] = d],
         cursor' = cursor \/ cursor' = [cursor EXCEPT ![g] = Max2(@, d)]
  PROVE  Cursors'
<1>1. /\ sub'[s] = q /\ \A t \in Subs \ {s} : sub'[t] = sub[t]
      /\ active \in Subs \cup {None} /\ None \notin Subs /\ sub \in [Subs -> LoopType]
      /\ log' = log /\ watermark' = watermark /\ active' = active
      /\ log \in Seq(Groups) /\ \A n \in DOMAIN log : log[n] \in Groups /\ n \in Nat
  BY SessionTypes DEF server
<1>2. /\ durable \in [Groups -> Nat \cup {NoCursor}] /\ cursor \in [Groups -> Nat]
      /\ Len(log) \in Nat /\ \A h \in Groups : durable[h] <= Len(log) /\ cursor[h] <= Len(log)
  BY SessionTypes
<1>3. /\ durable'[g] = d /\ \A h \in Groups \ {g} : durable'[h] = durable[h] /\ cursor'[h] = cursor[h]
      /\ cursor'[g] = cursor[g] \/ cursor'[g] = Max2(cursor[g], d)
  BY <1>2
<1>4. Max2(cursor[g], d) \in Nat /\ Max2(cursor[g], d) <= Len(log)
      /\ \A n \in Nat : n <= Max2(cursor[g], d) => n <= cursor[g] \/ n <= d
  BY <1>2 DEF Max2, NoCursor
<1>5. CursorForm'
  <2>1. durable' \in [Groups -> Nat \cup {NoCursor}]
    BY <1>2
  <2>2. cursor' \in [Groups -> Nat]
    BY <1>2, <1>4
  <2>3. \A h \in Groups : durable'[h] <= Len(log) /\ cursor'[h] <= Len(log)
    BY <1>2, <1>3, <1>4
  <2> QED BY <1>1, <2>1, <2>2, <2>3 DEF CursorForm
<1>6. DurableSound'
  <2> SUFFICES ASSUME NEW n \in DOMAIN log, n <= durable'[log[n]] PROVE n \in Covered'
    BY <1>1 DEF DurableSound
  <2>1. CASE log[n] = g
    BY <1>3, <2>1
  <2>2. CASE log[n] # g
    BY <1>1, <1>3, <2>2 DEF SessionInv, Cursors, DurableSound, Grows
  <2> QED BY <2>1, <2>2
<1>7. MemorySound'
  <2> SUFFICES ASSUME NEW n \in DOMAIN log, n <= cursor'[log[n]]
               PROVE  /\ n > watermark => n \in Covered'
                      /\ active # None /\ sub'[active].phase \in {"opening", "live"}
                           /\ log[n] <= sub'[active].groups => n \in Covered'
    BY <1>1 DEF MemorySound
  <2>1. CASE log[n] = g /\ n <= d
    BY <2>1
  <2>2. CASE n <= cursor[log[n]]
    <3>1. MemorySound
      BY DEF SessionInv, Cursors
    <3>2. active = s => ~(sub'[active].phase \in {"opening", "live"})
      BY <1>1 DEF CaughtUp
    <3> QED BY <1>1, <2>2, <3>1, <3>2 DEF MemorySound, Grows
  <2> QED BY <1>1, <1>3, <1>4, <2>1, <2>2
<1> QED BY <1>5, <1>6, <1>7 DEF Cursors

-----------------------------------------------------------------------------
(* Loops that end, and handshakes that begin *)

\* A loop that is over, or sleeps, needs nothing.
Ends(r, q) ==
  /\ q \in LoopType /\ q.phase \in {"ended", "backoff"} /\ q.cancelled = r.cancelled
  /\ q.groups = r.groups /\ q.half = 0 /\ q.call = "no"
  /\ LoopForm(q) /\ \A n \in DOMAIN log : ~Needs(q, n) /\ ~Carries(q, n)

LEMMA OverType ==
  ASSUME SessionInv, NEW r \in LoopType
  PROVE  /\ Over(r) \in LoopType /\ Over(r).phase = "ended" /\ Over(r).cancelled = r.cancelled
         /\ Over(r).groups = r.groups /\ Over(r).half = 0 /\ Over(r).call = "no"
         /\ Over(r).stream = <<>> /\ Over(r).todo = {} /\ Over(r).offset = NoCursor
<1>1. ActiveSubscription \in LoopType
  BY SessionTypes, NothingSent DEF ActiveSubscription, LoopType, Phases
<1> QED BY <1>1 DEF Over, LoopType, Phases, ActiveSubscription

LEMMA OverEnds ==
  ASSUME SessionInv, NEW r \in LoopType, NEW p \in {"ended", "backoff"}, p = "backoff" => ~r.cancelled
  PROVE  Ends(r, [Over(r) EXCEPT !.phase = p])
<1>1. PICK o \in LoopType : o = Over(r)
  BY OverType
<1>2. PICK q \in LoopType : q = [o EXCEPT !.phase = p]
  BY DEF LoopType, Phases
<1>3. /\ q.phase = p /\ q.cancelled = r.cancelled /\ q.groups = r.groups /\ q.half = 0 /\ q.call = "no"
      /\ q.stream = <<>> /\ q.todo = {} /\ q.offset = NoCursor
  BY <1>1, <1>2, OverType DEF LoopType
<1>4. LoopForm(q)
  BY <1>3 DEF LoopForm, CallForm, Running, Rebases, Streams
<1>5. \A n \in DOMAIN log : ~Needs(q, n) /\ ~Carries(q, n)
  BY <1>3 DEF Needs, Carries, Streams
<1>6. Ends(r, q)
  BY <1>3, <1>4, <1>5 DEF Ends
<1> QED BY <1>1, <1>2, <1>6

LEMMA OverEnded ==
  ASSUME SessionInv, NEW r \in LoopType
  PROVE  Ends(r, Over(r))
<1>1. Over(r) = [Over(r) EXCEPT !.phase = "ended"]
  BY OverType DEF LoopType
<1>2. Ends(r, [Over(r) EXCEPT !.phase = "ended"])
  BY OverEnds
<1> QED BY <1>1, <1>2

\* A loop ends, and the gate opens when it is the current one.
LEMMA EndsKeeps ==
  ASSUME SessionInv, NEW s \in Subs, NEW q, Ends(sub[s], q), sub' = [sub EXCEPT ![s] = q],
         Running(sub[s]), sub[s].phase # "greeting", UNCHANGED <<active, server>>, Kept(s),
         gate' \in BOOLEAN, active # s /\ gate' => gate
  PROVE  SessionType' /\ Loops'
<1>1. q \in LoopType /\ UNCHANGED server /\ active' = active
  BY DEF Ends
<1>2. Follows(q, sub[s]) /\ Narrows(q, sub[s]) /\ ~Rebases(q)
  BY DEF Ends, Follows, Narrows, Streams, Rebases, Running
<1>3. LoopForm(q) /\ q.cancelled = sub[s].cancelled
      /\ \A n \in DOMAIN log : Needs(q, n) \/ Carries(q, n) => n \in Covered'
  BY DEF Ends
<1> QED BY <1>1, <1>2, <1>3, LoopKeeps

LEMMA DisconnectedEnds ==
  ASSUME SessionInv, NEW s \in Subs, Disconnected(s), Running(sub[s]), sub[s].phase # "greeting"
  PROVE  \E q : /\ Ends(sub[s], q) /\ sub' = [sub EXCEPT ![s] = q]
                /\ gate' \in BOOLEAN /\ (active # s /\ gate' => gate)
<1>1. sub[s] \in LoopType /\ gate \in BOOLEAN /\ (~sub[s].cancelled => active = s)
  BY SessionTypes DEF SessionInv, SessionType, Loops, OneLoop
<1>2. CASE sub[s].cancelled /\ Loop(s, Over(sub[s])) /\ gate' = gate
  BY <1>1, <1>2, OverEnded DEF Loop
<1>3. CASE ~sub[s].cancelled /\ Loop(s, Over(sub[s])) /\ gate' = TRUE
  BY <1>1, <1>3, OverEnded DEF Loop
<1>4. CASE ~sub[s].cancelled /\ Loop(s, [Over(sub[s]) EXCEPT !.phase = "backoff"]) /\ gate' = gate
  <2>1. Ends(sub[s], [Over(sub[s]) EXCEPT !.phase = "backoff"])
    BY <1>1, <1>4, OverEnds
  <2> QED BY <1>1, <1>4, <2>1 DEF Loop
<1> QED BY <1>2, <1>3, <1>4 DEF Disconnected

\* The end of a connection, for any reason.
LEMMA DisconnectedKeeps ==
  ASSUME SessionInv, NEW s \in Subs, Disconnected(s), Running(sub[s]), sub[s].phase # "greeting",
         UNCHANGED <<active, cursors, server, escaped>>
  PROVE  SessionInv'
<1>1. UNCHANGED <<active, server, durable, cursor>> /\ Grows /\ Kept(s)
  BY GrowsKeeps DEF cursors, Grows, Covered
<1>2. PICK q : /\ Ends(sub[s], q) /\ sub' = [sub EXCEPT ![s] = q]
               /\ gate' \in BOOLEAN /\ (active # s /\ gate' => gate)
  BY DisconnectedEnds
<1>3. SessionType' /\ Loops'
  BY <1>1, <1>2, EndsKeeps
<1>4. Cursors'
  <2>1. q \in LoopType /\ ~CaughtUp(q)
    BY <1>2 DEF Ends, CaughtUp
  <2> QED BY <1>1, <1>2, <2>1, CursorsStay
<1> QED BY <1>3, <1>4 DEF SessionInv

LEMMA CatchUpFailsKeeps ==
  ASSUME SessionInv, NEW s \in Subs, CatchUpFails(s)
  PROVE  SessionInv'
<1>1. Running(sub[s]) /\ sub[s].phase # "greeting" /\ Disconnected(s)
      /\ UNCHANGED <<active, cursors, server, escaped>>
  BY DEF CatchUpFails, Running
<1> QED BY <1>1, DisconnectedKeeps

LEMMA ClosedKeeps ==
  ASSUME SessionInv, NEW s \in Subs, Closed(s)
  PROVE  SessionInv'
<1>1. Running(sub[s]) /\ sub[s].phase # "greeting" /\ Disconnected(s)
      /\ UNCHANGED <<active, cursors, server, escaped>>
  BY DEF Closed, Running
<1> QED BY <1>1, DisconnectedKeeps

LEMMA StreamBreaksKeeps ==
  ASSUME SessionInv, NEW s \in Subs, StreamBreaks(s)
  PROVE  SessionInv'
<1>1. Running(sub[s]) /\ sub[s].phase # "greeting" /\ Disconnected(s)
      /\ UNCHANGED <<active, cursors, server, escaped>>
  BY DEF StreamBreaks, Running
<1> QED BY <1>1, DisconnectedKeeps

\* A step of the loop s that touches no cursor and claims no more of them.
LEMMA QuietStep ==
  ASSUME SessionInv, NEW s \in Subs, NEW q \in LoopType, sub' = [sub EXCEPT ![s] = q],
         UNCHANGED <<active, durable, cursor, server>>, Grows, LoopForm(q),
         \A n \in DOMAIN log : Needs(q, n) \/ Carries(q, n) => n \in Covered',
         q.cancelled = sub[s].cancelled, Follows(q, sub[s]), Narrows(q, sub[s]),
         gate' \in BOOLEAN, active = s /\ Rebases(q) => ~gate', active # s /\ gate' => gate,
         active = s /\ CaughtUp(q) =>
           \A n \in DOMAIN log : log[n] <= q.groups /\ n <= cursor[log[n]] => n \in Covered'
  PROVE  SessionInv'
<1>1. UNCHANGED <<active, server>> /\ Kept(s)
  BY GrowsKeeps
<1>2. SessionType' /\ Loops'
  BY <1>1, LoopKeeps
<1>3. Cursors'
  BY <1>1, CursorsStay
<1> QED BY <1>2, <1>3 DEF SessionInv

\* What a loop's state says of the step it is about to take.
LEMMA LoopFacts ==
  ASSUME SessionInv, NEW s \in Subs
  PROVE  /\ sub[s] \in LoopType /\ LoopForm(sub[s]) /\ gate \in BOOLEAN
         /\ \A n \in DOMAIN log : Needs(sub[s], n) \/ Carries(sub[s], n) => n \in Covered
         /\ Running(sub[s]) /\ ~sub[s].cancelled /\ sub[s].phase # "greeting" => active = s
         /\ active = s => ~sub[s].cancelled /\ sub[s].phase # "new" /\ sub[s].phase # "greeting"
         /\ active = s /\ Rebases(sub[s]) => ~gate
         /\ active = s /\ CaughtUp(sub[s]) =>
              \A n \in DOMAIN log : log[n] <= sub[s].groups /\ n <= cursor[log[n]] => n \in Covered
<1>1. sub \in [Subs -> LoopType] /\ gate \in BOOLEAN /\ None \notin Subs
  BY SessionTypes DEF SessionInv, SessionType
<1>2. s # None
  BY <1>1
<1>3. LoopForms /\ OneLoop /\ RebaseHoldsGate /\ LoopsSound /\ MemorySound
  BY DEF SessionInv, Loops, Cursors
<1> QED BY <1>1, <1>2, <1>3
        DEF LoopForms, LoopsSound, OneLoop, RebaseHoldsGate, Rebases, CaughtUp, MemorySound

\* The handshake of r has been asked for.
LEMMA AskedForm ==
  ASSUME SessionInv, NEW r \in LoopType, NEW q, q = Asked(r)
  PROVE  /\ q \in LoopType /\ q = [r EXCEPT !.call = "asked", !.sent = durable]
         /\ \A g \in Groups : q.sent[g] <= Len(log)
         /\ \A n \in DOMAIN log : Carries(q, n) => n \in Covered
<1>1. /\ durable \in [Groups -> Nat \cup {NoCursor}] /\ \A n \in DOMAIN log : log[n] \in Groups
      /\ \A g \in Groups : durable[g] <= Len(log)
  BY SessionTypes
<1>2. q \in LoopType /\ q.sent = durable
  BY <1>1 DEF Asked, LoopType
<1>3. ASSUME NEW n \in DOMAIN log, Carries(q, n) PROVE n \in Covered
  BY <1>2, <1>3 DEF Carries, SessionInv, Cursors, DurableSound
<1>4. q = [r EXCEPT !.call = "asked", !.sent = durable]
  BY DEF Asked
<1>5. \A g \in Groups : q.sent[g] <= Len(log)
  BY <1>1, <1>2
<1> QED BY <1>2, <1>3, <1>4, <1>5, Zenon

\* handshake, of an application that is about to subscribe.
LEMMA GreetKeeps ==
  ASSUME SessionInv, NEW s \in Subs, Greet(s)
  PROVE  SessionInv'
<1>1. UNCHANGED <<active, durable, cursor, server>> /\ gate' = gate /\ Grows /\ sub[s].phase = "new"
  BY DEF Greet, cursors, Grows, Covered
<1>2. sub[s] = ActiveSubscription /\ sub[s] \in LoopType
  BY <1>1, LoopFacts DEF LoopForm
<1>3. PICK r \in LoopType : r = [sub[s] EXCEPT !.phase = "greeting"]
  BY <1>2 DEF LoopType, Phases
<1>4. PICK q \in LoopType : q = Asked(r)
  BY AskedForm
<1>5. /\ q.phase = "greeting" /\ ~q.cancelled /\ q.todo = {} /\ q.half = 0 /\ q.stream = <<>>
      /\ q.offset = NoCursor /\ q.call = "asked" /\ q.cancelled = sub[s].cancelled
  BY <1>2, <1>3, <1>4 DEF Asked, ActiveSubscription, LoopType
<1>6. /\ \A g \in Groups : q.sent[g] <= Len(log)
      /\ \A n \in DOMAIN log : Carries(q, n) => n \in Covered
  BY <1>4, AskedForm
<1>7. LoopForm(q)
  BY <1>5, <1>6 DEF LoopForm, CallForm, Running, Rebases, Streams
<1>8. \A n \in DOMAIN log : Needs(q, n) \/ Carries(q, n) => n \in Covered'
  BY <1>1, <1>5, <1>6 DEF Needs, Streams, Grows
<1>9. sub' = [sub EXCEPT ![s] = q]
  BY <1>3, <1>4 DEF Greet, Loop
<1>10. Follows(q, sub[s]) /\ Narrows(q, sub[s]) /\ ~Rebases(q) /\ ~CaughtUp(q)
  BY <1>1, <1>5 DEF Follows, Narrows, Streams, Rebases, CaughtUp
<1>11. gate' \in BOOLEAN /\ (active # s /\ gate' => gate)
  BY <1>1, LoopFacts
<1> QED BY <1>1, <1>5, <1>7, <1>8, <1>9, <1>10, <1>11, QuietStep

\* The timer of scheduleReconnect: the gate closes before anything is awaited.
LEMMA ReconnectKeeps ==
  ASSUME SessionInv, NEW s \in Subs, Reconnect(s)
  PROVE  SessionInv'
<1>1. UNCHANGED <<active, durable, cursor, server>> /\ Grows /\ sub[s].phase = "backoff" /\ gate' = FALSE
  BY DEF Reconnect, cursors, Grows, Covered
<1>2. sub[s] \in LoopType /\ LoopForm(sub[s])
  BY LoopFacts
<1>3. PICK r \in LoopType : r = [sub[s] EXCEPT !.phase = "asking"]
  BY <1>2 DEF LoopType, Phases
<1>4. PICK q \in LoopType : q = Asked(r)
  BY AskedForm
<1>5. /\ q.phase = "asking" /\ q.todo = {} /\ q.half = 0 /\ q.stream = <<>>
      /\ q.offset = NoCursor /\ q.call = "asked" /\ q.cancelled = sub[s].cancelled
  BY <1>1, <1>2, <1>3, <1>4 DEF Asked, LoopType, LoopForm, Streams
<1>6. /\ \A g \in Groups : q.sent[g] <= Len(log)
      /\ \A n \in DOMAIN log : Carries(q, n) => n \in Covered
  BY <1>4, AskedForm
<1>7. LoopForm(q)
  BY <1>5, <1>6 DEF LoopForm, CallForm, Running, Rebases, Streams
<1>8. \A n \in DOMAIN log : Needs(q, n) \/ Carries(q, n) => n \in Covered'
  BY <1>1, <1>5, <1>6 DEF Needs, Streams, Grows
<1>9. sub' = [sub EXCEPT ![s] = q]
  BY <1>3, <1>4 DEF Reconnect, Loop
<1>10. Follows(q, sub[s]) /\ Narrows(q, sub[s]) /\ ~CaughtUp(q)
  BY <1>1, <1>5 DEF Follows, Narrows, Streams, CaughtUp
<1> QED BY <1>1, <1>5, <1>7, <1>8, <1>9, <1>10, QuietStep

\* The server's answer: a cursor above its watermark is rejected.
LEMMA AnswerKeeps ==
  ASSUME SessionInv, NEW s \in Subs, Answer(s)
  PROVE  SessionInv'
<1> DEFINE r == sub[s]
<1>1. /\ UNCHANGED <<active, durable, cursor, server>> /\ gate' = gate /\ Grows /\ r.call = "asked"
      /\ members \in Groups /\ watermark \in Nat /\ \A n \in DOMAIN log : log[n] \in Groups
  BY SessionTypes DEF Answer, cursors, Grows, Covered
<1>2. /\ r \in LoopType /\ LoopForm(r) /\ (active = s /\ Rebases(r) => ~gate) /\ gate \in BOOLEAN
      /\ \A n \in DOMAIN log : Needs(r, n) \/ Carries(r, n) => n \in Covered
      /\ active = s /\ CaughtUp(r) =>
           \A n \in DOMAIN log : log[n] <= r.groups /\ n <= cursor[log[n]] => n \in Covered
  BY LoopFacts
<1> DEFINE b == [g \in Groups |-> IF r.sent[g] > watermark THEN Rejected ELSE r.sent[g]]
<1>3. b \in [Groups -> Nat \cup {NoCursor, Rejected}] /\ r.sent \in [Groups -> Nat \cup {NoCursor, Rejected}]
  BY <1>2 DEF LoopType
<1>4. PICK q \in LoopType : q = [r EXCEPT !.call = "answered", !.roster = members, !.sent = b]
  <2> HIDE DEF b, r
  <2> QED BY <1>1, <1>2, <1>3 DEF LoopType
<1>5. sub' = [sub EXCEPT ![s] = q]
  BY <1>4 DEF Answer, Loop
<1>6. \A g \in Groups : b[g] <= watermark /\ b[g] <= r.sent[g] /\ b[g] \in Int
  BY <1>1, <1>3 DEF Rejected, NoCursor
<1> HIDE DEF b, r
<1>7. /\ q.phase = r.phase /\ q.cancelled = r.cancelled /\ q.groups = r.groups /\ q.at = r.at
      /\ q.offset = r.offset /\ q.todo = r.todo /\ q.half = r.half /\ q.stream = r.stream
      /\ q.call = "answered" /\ q.sent = b
  BY <1>2, <1>4 DEF LoopType
<1>8. LoopForm(q)
  <2>1. CallForm(q)
    <3>1. /\ r.phase \in {"greeting", "asking"} \/ (Streams(r) /\ r.half = 0)
          /\ \A g \in Groups : r.sent[g] <= Len(log)
      BY <1>1, <1>2 DEF LoopForm, CallForm
    <3>2. \A g \in Groups : q.sent[g] <= Len(log) /\ q.sent[g] <= watermark
      <4>1. watermark <= Len(log) /\ Len(log) \in Nat
        BY SessionTypes
      <4> QED BY <1>1, <1>6, <1>7, <4>1
    <3> QED BY <1>7, <3>1, <3>2 DEF CallForm, Streams
  <2>2. r.phase # "new" /\ r.phase # "rebase"
    BY <1>1, <1>2 DEF LoopForm, CallForm, Streams
  <2> QED BY <1>2, <1>7, <2>1, <2>2, <1>1 DEF LoopForm, StreamForm, Running, Rebases, Streams
<1>9. \A n \in DOMAIN log : Needs(q, n) \/ Carries(q, n) => n \in Covered'
  <2> SUFFICES ASSUME NEW n \in DOMAIN log, Needs(q, n) \/ Carries(q, n) PROVE n \in Covered
    BY <1>1 DEF Grows
  <2>1. CASE Needs(q, n)
    BY <1>2, <1>7, <2>1 DEF Needs, Streams, Sent
  <2>2. CASE Carries(q, n)
    <3>1. n \in Nat /\ log[n] \in Groups
      BY SessionTypes
    <3>3. r.sent[log[n]] \in Int
      BY <1>3, <3>1 DEF NoCursor, Rejected
    <3>2. n <= r.sent[log[n]]
      BY <1>6, <1>7, <2>2, <3>1, <3>3 DEF Carries
    <3> QED BY <1>1, <1>2, <3>2 DEF Carries
  <2> QED BY <2>1, <2>2
<1>10. Follows(q, r) /\ Narrows(q, r)
  BY <1>7 DEF Follows, Narrows, Streams, Sent
<1>11. /\ gate' \in BOOLEAN /\ (active # s /\ gate' => gate) /\ (active = s /\ Rebases(q) => ~gate')
  BY <1>1, <1>2, <1>7 DEF Rebases
<1>12. active = s /\ CaughtUp(q) =>
         \A n \in DOMAIN log : log[n] <= q.groups /\ n <= cursor[log[n]] => n \in Covered'
  BY <1>1, <1>2, <1>7 DEF CaughtUp, Grows
<1> QED BY <1>1, <1>5, <1>7, <1>8, <1>9, <1>10, <1>11, <1>12, QuietStep DEF r

\* A groups_changed event: the loop asks for the new set.
LEMMA GroupsChangedKeeps ==
  ASSUME SessionInv, NEW s \in Subs, GroupsChanged(s)
  PROVE  SessionInv'
<1> DEFINE r == sub[s]
<1>1. /\ UNCHANGED <<active, durable, cursor, server>> /\ gate' = gate /\ Grows /\ Drains(r)
      /\ r.stream # <<>> /\ Head(r.stream) = WakeUp /\ watermark \in Nat
  BY SessionTypes DEF GroupsChanged, cursors, Grows, Covered
<1>2. /\ r \in LoopType /\ LoopForm(r) /\ gate \in BOOLEAN
      /\ \A n \in DOMAIN log : Needs(r, n) \/ Carries(r, n) => n \in Covered
      /\ active = s /\ CaughtUp(r) =>
           \A n \in DOMAIN log : log[n] <= r.groups /\ n <= cursor[log[n]] => n \in Covered
  BY LoopFacts
<1>3. r.stream \in Seq(Nat) /\ Tail(r.stream) \in Seq(Nat)
  BY <1>1, <1>2, TailOf DEF LoopType
<1>4. PICK p \in LoopType : p = [r EXCEPT !.stream = Tail(@)]
  <2> HIDE DEF r
  <2> QED BY <1>2, <1>3 DEF LoopType
<1>5. PICK q \in LoopType : q = Asked(p)
  BY AskedForm
<1>6. sub' = [sub EXCEPT ![s] = q]
  BY <1>4, <1>5 DEF GroupsChanged, Loop
<1> HIDE DEF r
<1>7. /\ q.phase = r.phase /\ q.cancelled = r.cancelled /\ q.groups = r.groups /\ q.at = r.at
      /\ q.offset = r.offset /\ q.todo = r.todo /\ q.half = r.half /\ q.stream = Tail(r.stream)
      /\ q.call = "asked"
  BY <1>2, <1>4, <1>5 DEF LoopType, Asked
<1>8. /\ \A g \in Groups : q.sent[g] <= Len(log)
      /\ \A n \in DOMAIN log : Carries(q, n) => n \in Covered
  BY <1>5, AskedForm
<1>9. /\ \A i \in DOMAIN q.stream : /\ i \in Nat /\ i + 1 \in DOMAIN r.stream
                                    /\ r.stream[i + 1] = q.stream[i]
      /\ \A j \in DOMAIN r.stream : j = 1 \/ (j - 1 \in DOMAIN q.stream /\ q.stream[j - 1] = r.stream[j])
      /\ r.stream[1] = WakeUp
  BY <1>1, <1>3, <1>7, TailOf
<1>10. Streams(r) /\ r.half = 0 /\ ~r.cancelled
  BY <1>1, <1>2 DEF Drains, Streams, LoopForm, Running, Rebases
<1>11. LoopForm(q)
  <2>1. StreamForm(q)
    <3>1. StreamForm(r)
      BY <1>2, <1>10 DEF LoopForm
    <3>2. \A i \in DOMAIN q.stream : q.stream[i] <= watermark
      BY <1>9, <3>1 DEF StreamForm
    <3>3. ASSUME NEW i \in DOMAIN q.stream, NEW j \in DOMAIN q.stream, i < j,
                 q.stream[i] # WakeUp, q.stream[j] # WakeUp
          PROVE  q.stream[i] < q.stream[j]
      <4>1. i + 1 < j + 1 /\ i + 1 \in DOMAIN r.stream /\ j + 1 \in DOMAIN r.stream
            /\ r.stream[i + 1] = q.stream[i] /\ r.stream[j + 1] = q.stream[j]
        BY <1>9, <3>3
      <4> QED BY <3>1, <3>3, <4>1 DEF StreamForm
    <3> QED BY <1>7, <1>10, <3>2, <3>3 DEF StreamForm
  <2>2. CallForm(q)
    BY <1>7, <1>8, <1>10 DEF CallForm, Streams
  <2> QED BY <1>2, <1>7, <1>10, <2>1, <2>2 DEF LoopForm, Running, Rebases, Streams
<1>12. \A n \in DOMAIN log : Needs(q, n) \/ Carries(q, n) => n \in Covered'
  <2> SUFFICES ASSUME NEW n \in DOMAIN log, Needs(q, n) PROVE n \in Covered
    BY <1>1, <1>8 DEF Grows
  <2>1. n \in Nat \ {0}
    BY SessionTypes
  <2>2. Sent(r, n) => Sent(q, n)
    BY <1>9, <2>1 DEF Sent, WakeUp
  <2>3. (\E i \in DOMAIN q.stream : n <= q.stream[i]) => \E i \in DOMAIN r.stream : n <= r.stream[i]
    BY <1>9
  <2>4. Needs(r, n)
    BY <1>7, <1>10, <2>2, <2>3 DEF Needs, Streams
  <2> QED BY <1>2, <2>4
<1>13. Follows(q, r) /\ Narrows(q, r) /\ ~Rebases(q)
  BY <1>7, <1>9, <1>10 DEF Follows, Narrows, Streams, Sent, Rebases
<1>14. gate' \in BOOLEAN /\ (active # s /\ gate' => gate)
  BY <1>1, <1>2
<1>15. active = s /\ CaughtUp(q) =>
         \A n \in DOMAIN log : log[n] <= q.groups /\ n <= cursor[log[n]] => n \in Covered'
  BY <1>1, <1>2, <1>7 DEF CaughtUp, Grows
<1> QED BY <1>1, <1>6, <1>7, <1>11, <1>12, <1>13, <1>14, <1>15, QuietStep DEF r

-----------------------------------------------------------------------------
(* The stream *)

\* connectAndDrain, the end of the rebase phase: every group is drained.
LEMMA CheckpointKeeps ==
  ASSUME SessionInv, NEW s \in Subs, Checkpoint(s)
  PROVE  SessionInv'
<1> DEFINE r == sub[s]
<1>1. /\ UNCHANGED <<active, durable, cursor, server>> /\ Grows /\ r.phase = "rebase" /\ r.at > r.groups
      /\ Running(r)
  BY DEF Checkpoint, cursors, Grows, Covered, Running
<1>2. /\ r \in LoopType /\ LoopForm(r) /\ gate \in BOOLEAN /\ (~r.cancelled => active = s)
      /\ (active = s => ~r.cancelled)
      /\ \A n \in DOMAIN log : Needs(r, n) \/ Carries(r, n) => n \in Covered
  BY <1>1, LoopFacts
<1>3. CASE r.cancelled /\ Loop(s, Over(r)) /\ gate' = gate
  <2>1. Ends(r, Over(r)) /\ UNCHANGED <<active, server>> /\ Kept(s)
    BY <1>1, <1>2, OverEnded, GrowsKeeps
  <2>2. PICK q : q = Over(r)
    OBVIOUS
  <2>3. Ends(r, q) /\ sub' = [sub EXCEPT ![s] = q] /\ q \in LoopType /\ ~CaughtUp(q)
    BY <1>3, <2>1, <2>2 DEF Loop, Ends, CaughtUp
  <2>4. gate' \in BOOLEAN /\ (active # s /\ gate' => gate) /\ r.phase # "greeting"
    BY <1>1, <1>2, <1>3
  <2>5. SessionType' /\ Loops'
    BY <1>1, <2>1, <2>3, <2>4, EndsKeeps
  <2>6. Cursors'
    BY <1>1, <2>1, <2>3, CursorsStay
  <2> QED BY <2>5, <2>6 DEF SessionInv
<1>4. CASE ~r.cancelled /\ Loop(s, Opening(r)) /\ gate' = TRUE
  <2>1. /\ ResumeCursor(r) \in Nat /\ ResumeCursor(r) <= Len(log)
    <3> DEFINE S == {cursor[g] : g \in 1..r.groups}
    <3>1. r.groups \in Groups /\ 1..r.groups \subseteq Groups /\ 1 \in 1..r.groups
      <4>1. r.groups \in Groups /\ NGroups \in Nat
        BY <1>2 DEF LoopType, SessionInv, SessionType
      <4> QED BY <4>1, GroupsBelow
    <3>2. /\ cursor \in [Groups -> Nat] /\ Len(log) \in Nat
          /\ \A g \in Groups : cursor[g] <= Len(log)
      BY SessionTypes
    <3>3. S \in SUBSET Nat /\ S # {} /\ \A n \in S : n <= Len(log)
      BY <3>1, <3>2
    <3> HIDE DEF S
    <3>4. Max(S) \in S
      BY <3>2, <3>3, MaxOf
    <3>5. Max(S) \in Nat /\ Max(S) <= Len(log)
      BY <3>3, <3>4
    <3> QED BY <3>5 DEF ResumeCursor, S
  <2>2. PICK c \in Nat : c = ResumeCursor(r) /\ c <= Len(log)
    BY <2>1
  <2>3. PICK q \in LoopType : q = [r EXCEPT !.phase = "opening", !.at = 1, !.offset = c]
    <3> HIDE DEF r
    <3> QED BY <1>2 DEF LoopType, Phases
  <2>4. sub' = [sub EXCEPT ![s] = q]
    BY <1>4, <2>2, <2>3 DEF Loop, Opening
  <2> HIDE DEF r
  <2>5. /\ q.phase = "opening" /\ q.offset = c /\ ~q.cancelled /\ q.cancelled = r.cancelled
        /\ q.groups = r.groups /\ q.todo = r.todo /\ q.half = r.half /\ q.stream = r.stream
        /\ q.call = r.call /\ q.sent = r.sent
    BY <1>2, <1>4, <2>3 DEF LoopType
  <2>6. PageForm(r) /\ CallForm(r) /\ r.stream = <<>> /\ r.todo = {} /\ r.half = 0 /\ r.call = "no"
    BY <1>1, <1>2 DEF LoopForm, PageForm, CallForm, Streams
  <2>7. LoopForm(q)
    <3>1. Len(log) \in Nat /\ c \in 0..Len(log)
      BY <2>2, SessionTypes
    <3>2. q.at \in 1..q.groups
      <4>1. q.at = 1
        BY <1>2, <2>3 DEF LoopType
      <4>2. q.groups \in Groups /\ NGroups \in Nat
        BY <1>2, <2>5 DEF LoopType, SessionInv, SessionType
      <4> QED BY <4>1, <4>2, GroupsBelow
    <3> QED BY <2>5, <2>6, <3>1, <3>2 DEF LoopForm, CallForm, Running, Rebases, Streams
  <2>8. \A n \in DOMAIN log : n <= watermark /\ log[n] <= r.groups => n \in Covered
    <3> SUFFICES ASSUME NEW n \in DOMAIN log, n <= watermark, log[n] <= r.groups PROVE n \in Covered
      OBVIOUS
    <3>1. log[n] < r.at
      <4>1. log[n] \in Nat /\ r.at \in Nat /\ r.groups \in Nat
        BY <1>2, SessionTypes, GroupsAreNumbers DEF LoopType
      <4> QED BY <1>1, <4>1
    <3>2. Needs(r, n)
      BY <1>1, <1>4, <3>1 DEF Needs
    <3> QED BY <1>2, <3>2
  <2>9. \A n \in DOMAIN log : Needs(q, n) \/ Carries(q, n) => n \in Covered'
    BY <1>1, <2>5, <2>6, <2>8 DEF Needs, Carries, Streams, Grows
  <2>10. \A n \in DOMAIN log : log[n] <= q.groups /\ n <= cursor[log[n]] => n \in Covered'
    <3> SUFFICES ASSUME NEW n \in DOMAIN log, log[n] <= r.groups, n <= cursor[log[n]]
                 PROVE  n \in Covered
      BY <1>1, <2>5 DEF Grows
    <3>1. n \in Nat /\ watermark \in Nat
      BY SessionTypes
    <3>2. CASE n <= watermark
      BY <2>8, <3>2
    <3>3. CASE n > watermark
      BY <3>3 DEF SessionInv, Cursors, MemorySound
    <3> QED BY <3>1, <3>2, <3>3
  <2>11. Follows(q, r) /\ Narrows(q, r) /\ ~Rebases(q)
    BY <1>1, <2>5 DEF Follows, Narrows, Streams, Rebases
  <2>12. gate' \in BOOLEAN /\ (active # s /\ gate' => gate)
    BY <1>2, <1>4
  <2> QED BY <1>1, <2>4, <2>5, <2>7, <2>9, <2>10, <2>11, <2>12, QuietStep DEF r
<1> QED BY <1>3, <1>4 DEF Checkpoint

\* The server takes the connection: what was resolved by then is covered.
LEMMA OpenKeeps ==
  ASSUME SessionInv, NEW s \in Subs, Open(s)
  PROVE  SessionInv'
<1> DEFINE r == sub[s]
<1>1. /\ UNCHANGED <<active, durable, cursor, server>> /\ Grows /\ r.phase = "opening" /\ gate' = gate
  BY DEF Open, cursors, Grows, Covered
<1>2. /\ r \in LoopType /\ LoopForm(r) /\ gate \in BOOLEAN
      /\ \A n \in DOMAIN log : Needs(r, n) \/ Carries(r, n) => n \in Covered
      /\ active = s /\ CaughtUp(r) =>
           \A n \in DOMAIN log : log[n] <= r.groups /\ n <= cursor[log[n]] => n \in Covered
  BY LoopFacts
<1>3. PICK q \in LoopType : q = [r EXCEPT !.phase = "live", !.offset = NoCursor]
  <2> HIDE DEF r
  <2> QED BY <1>2 DEF LoopType, Phases
<1>4. sub' = [sub EXCEPT ![s] = q]
  BY <1>3 DEF Open, Loop
<1> HIDE DEF r
<1>5. /\ q.phase = "live" /\ q.offset = NoCursor /\ q.cancelled = r.cancelled
      /\ q.groups = r.groups /\ q.todo = r.todo /\ q.half = r.half /\ q.stream = r.stream
      /\ q.call = r.call /\ q.sent = r.sent
  BY <1>2, <1>3 DEF LoopType
<1>6. ~r.cancelled /\ r.stream = <<>> /\ r.todo = {} /\ r.half = 0 /\ r.call = "no"
  BY <1>1, <1>2 DEF LoopForm, CallForm, Running, Rebases, Streams
<1>7. LoopForm(q)
  BY <1>5, <1>6, NothingSent DEF LoopForm, CallForm, StreamForm, Running, Rebases, Streams
<1>8. \A n \in DOMAIN log : Needs(q, n) \/ Carries(q, n) => n \in Covered'
  <2> SUFFICES ASSUME NEW n \in DOMAIN log, Needs(q, n) PROVE n \in Covered
    BY <1>1, <1>5, <1>6 DEF Carries, Grows
  <2>1. n \in Nat \ {0}
    BY SessionTypes
  <2>2. n <= watermark /\ log[n] <= r.groups
    BY <1>5, <1>6, <2>1 DEF Needs, Streams
  <2>3. Needs(r, n)
    BY <1>1, <1>6, <2>2 DEF Needs
  <2> QED BY <1>2, <2>3
<1>9. Follows(q, r) /\ Narrows(q, r) /\ ~Rebases(q)
  BY <1>1, <1>5, <1>6 DEF Follows, Narrows, Streams, Rebases
<1>10. gate' \in BOOLEAN /\ (active # s /\ gate' => gate)
  BY <1>1, <1>2
<1>11. active = s /\ CaughtUp(q) =>
         \A n \in DOMAIN log : log[n] <= q.groups /\ n <= cursor[log[n]] => n \in Covered'
  BY <1>1, <1>2, <1>5 DEF CaughtUp, Grows
<1> QED BY <1>1, <1>4, <1>5, <1>7, <1>8, <1>9, <1>10, <1>11, QuietStep DEF r

\* handleSSEEvent, first half: the action of the event is in the log.
LEMMA ReceiveKeeps ==
  ASSUME SessionInv, NEW s \in Subs, Receive(s)
  PROVE  SessionInv'
<1> DEFINE r == sub[s]
           h == Head(r.stream)
<1>1. /\ UNCHANGED <<active, durable, cursor, server>> /\ gate' = gate /\ Drains(r)
      /\ r.stream # <<>> /\ h # WakeUp /\ watermark \in Nat
      /\ Covered' = Covered \cup {h} /\ Grows
  BY SessionTypes DEF Receive, Append1, cursors, Grows, Covered
<1>2. /\ r \in LoopType /\ LoopForm(r) /\ gate \in BOOLEAN
      /\ \A n \in DOMAIN log : Needs(r, n) \/ Carries(r, n) => n \in Covered
      /\ active = s /\ CaughtUp(r) =>
           \A n \in DOMAIN log : log[n] <= r.groups /\ n <= cursor[log[n]] => n \in Covered
  BY LoopFacts
<1>3. r.stream \in Seq(Nat) /\ Tail(r.stream) \in Seq(Nat) /\ h \in Nat
  BY <1>1, <1>2, TailOf DEF LoopType
<1>4. PICK q \in LoopType : q = [r EXCEPT !.half = h, !.stream = Tail(@)]
  <2> HIDE DEF r, h
  <2> QED BY <1>2, <1>3 DEF LoopType
<1>5. sub' = [sub EXCEPT ![s] = q]
  BY <1>4 DEF Receive, Loop
<1>6. /\ \A i \in DOMAIN Tail(r.stream) : /\ i \in Nat /\ i + 1 \in DOMAIN r.stream /\ 1 < i + 1
                                          /\ r.stream[i + 1] = Tail(r.stream)[i]
      /\ \A j \in DOMAIN r.stream :
           j = 1 \/ (j - 1 \in DOMAIN Tail(r.stream) /\ Tail(r.stream)[j - 1] = r.stream[j])
      /\ 1 \in DOMAIN r.stream /\ r.stream[1] = h
  BY <1>1, <1>3, TailOf
<1> HIDE DEF r, h
<1>7. /\ q.phase = r.phase /\ q.cancelled = r.cancelled /\ q.groups = r.groups /\ q.at = r.at
      /\ q.offset = r.offset /\ q.todo = r.todo /\ q.half = h /\ q.stream = Tail(r.stream)
      /\ q.call = r.call /\ q.sent = r.sent
  BY <1>2, <1>4 DEF LoopType
<1>8. Streams(r) /\ r.half = 0 /\ ~r.cancelled /\ r.call = "no" /\ StreamForm(r)
  BY <1>1, <1>2 DEF Drains, Streams, LoopForm, Running, Rebases
<1>9. \A i \in DOMAIN q.stream : q.stream[i] # WakeUp => h < q.stream[i]
  BY <1>1, <1>6, <1>7, <1>8 DEF StreamForm
<1>10. LoopForm(q)
  <2>1. StreamForm(q)
    <3>1. \A i \in DOMAIN q.stream : q.stream[i] <= watermark
      BY <1>6, <1>7, <1>8 DEF StreamForm
    <3>2. h <= watermark
      BY <1>6, <1>8 DEF StreamForm
    <3>3. ASSUME NEW i \in DOMAIN q.stream, NEW j \in DOMAIN q.stream, i < j,
                 q.stream[i] # WakeUp, q.stream[j] # WakeUp
          PROVE  q.stream[i] < q.stream[j]
      <4>1. i + 1 < j + 1 /\ i + 1 \in DOMAIN r.stream /\ j + 1 \in DOMAIN r.stream
            /\ r.stream[i + 1] = q.stream[i] /\ r.stream[j + 1] = q.stream[j]
        BY <1>6, <1>7, <3>3
      <4> QED BY <1>8, <3>3, <4>1 DEF StreamForm
    <3> QED BY <1>7, <1>9, <3>1, <3>2, <3>3 DEF StreamForm
  <2>2. CallForm(q)
    BY <1>7, <1>8 DEF CallForm, Streams
  <2> QED BY <1>2, <1>7, <1>8, <2>1, <2>2 DEF LoopForm, Running, Rebases, Streams
<1>11. \A n \in DOMAIN log : Needs(q, n) \/ Carries(q, n) => n \in Covered'
  <2> SUFFICES ASSUME NEW n \in DOMAIN log, Needs(q, n), n # h PROVE n \in Covered
    BY <1>1, <1>7, <1>8 DEF Carries, Grows
  <2>1. n \in Nat \ {0} /\ log[n] \in Nat /\ r.groups \in Nat /\ 1 <= r.groups
    <3>1. n \in Nat \ {0} /\ log[n] \in Groups /\ r.groups \in Groups /\ Groups \subseteq Nat \ {0}
      BY <1>2, SessionTypes DEF LoopType
    <3>2. n \in Nat \ {0} /\ log[n] \in Nat \ {0} /\ r.groups \in Nat \ {0}
      BY <3>1, Zenon
    <3>3. \A g \in Nat \ {0} : g \in Nat /\ 1 <= g
      OBVIOUS
    <3> QED BY <3>2, <3>3, Zenon
  <2>2. Sent(r, n) => Sent(q, n)
    BY <1>6, <1>7 DEF Sent
  <2>3. \A i \in DOMAIN q.stream : q.stream[i] # WakeUp => h < q.stream[i]
    BY <1>9
  <2>4. Sent(q, n) => h < n
    BY <2>1, <2>3 DEF Sent, WakeUp
  <2>5. Needs(r, n)
    <3>1. h <= watermark
      BY <1>6, <1>8 DEF StreamForm
    <3>2. (\E i \in DOMAIN q.stream : n <= q.stream[i]) => \E i \in DOMAIN r.stream : n <= r.stream[i]
      BY <1>6, <1>7
    <3>3. n <= h => ~Sent(r, n)
      <4> SUFFICES ASSUME n <= h, Sent(r, n) PROVE FALSE
        OBVIOUS
      <4>1. h < n
        BY <2>2, <2>4
      <4> QED BY <1>3, <2>1, <4>1 DEF h
    <3>4. n <= h => \E i \in DOMAIN r.stream : n <= r.stream[i]
      BY <1>6
    <3>5. CASE n <= h /\ log[n] = 1
      <4>1. n <= watermark
        BY <1>1, <1>3, <2>1, <3>1, <3>5 DEF h
      <4> QED BY <1>8, <2>1, <3>3, <3>4, <3>5, <4>1 DEF Needs, Streams
    <3>6. CASE ~(n <= h /\ log[n] = 1)
      BY <1>7, <1>8, <2>2, <3>2, <3>6 DEF Needs, Streams
    <3> QED BY <3>5, <3>6
  <2> QED BY <1>2, <2>5
<1>12. Follows(q, r) /\ Narrows(q, r) /\ ~Rebases(q)
  BY <1>6, <1>7, <1>8 DEF Follows, Narrows, Streams, Sent, Rebases
<1>13. gate' \in BOOLEAN /\ (active # s /\ gate' => gate)
  BY <1>1, <1>2
<1>14. active = s /\ CaughtUp(q) =>
         \A n \in DOMAIN log : log[n] <= q.groups /\ n <= cursor[log[n]] => n \in Covered'
  BY <1>1, <1>2, <1>7 DEF CaughtUp, Grows
<1> QED BY <1>1, <1>5, <1>7, <1>10, <1>11, <1>12, <1>13, <1>14, QuietStep DEF r

\* The second half: the event's cursor is claimed of every group of the loop, and is
\* sound of the first; and of all groups of the current loop if it is caught up.
LEMMA EventCovers ==
  ASSUME SessionInv, NEW s \in Subs, Streams(sub[s]), sub[s].half # 0,
         NEW n \in DOMAIN log, n <= sub[s].half
  PROVE  /\ n <= watermark
         /\ log[n] = 1 => n \in Covered
         /\ active # None /\ CaughtUp(sub[active]) /\ log[n] <= sub[active].groups => n \in Covered
<1>1. /\ sub[s] \in LoopType /\ LoopForm(sub[s]) /\ n \in Nat \ {0} /\ watermark \in Nat
      /\ Needs(sub[s], n) => n \in Covered
  BY SessionTypes, LoopFacts
<1>2. n <= watermark
  <2>1. sub[s].half <= watermark /\ sub[s].half \in Nat
    BY <1>1 DEF LoopForm, StreamForm, LoopType
  <2> QED BY <1>1, <2>1
<1>3. log[n] = 1 => n \in Covered
  BY <1>1 DEF Needs
<1>4. ASSUME active # None, CaughtUp(sub[active]), log[n] <= sub[active].groups
      PROVE  n \in Covered
  <2>1. active \in Subs /\ ~sub[active].cancelled
    BY <1>4 DEF SessionInv, SessionType, Loops, OneLoop
  <2>2. Needs(sub[active], n) => n \in Covered
    BY <2>1, LoopFacts
  <2>3. CASE sub[active].phase = "opening"
    BY <1>2, <1>4, <2>1, <2>2, <2>3 DEF Needs
  <2>4. CASE sub[active].phase = "live"
    <3>1. ~Sent(sub[active], n)
      <4> SUFFICES ASSUME NEW i \in DOMAIN sub[active].stream, sub[active].stream[i] = n PROVE FALSE
        BY DEF Sent
      <4>1. sub[s].half < sub[active].stream[i]
        <5>1. CASE s = active
          BY <1>1, <2>4, <5>1 DEF LoopForm, StreamForm, Streams, WakeUp
        <5>2. CASE s # active
          <6>1. sub[s].cancelled
            BY <5>2 DEF SessionInv, Loops, OneLoop, Running, Streams
          <6> QED BY <1>1, <1>4, <2>4, <6>1 DEF SessionInv, Loops, LastEventBehind, Streams, WakeUp
        <5> QED BY <5>1, <5>2
      <4>2. sub[s].half \in Nat
        BY <1>1 DEF LoopType
      <4> QED BY <1>1, <4>1, <4>2
    <3> QED BY <1>2, <1>4, <2>1, <2>2, <2>4, <3>1 DEF Needs
  <2> QED BY <1>4, <2>3, <2>4 DEF CaughtUp
<1> QED BY <1>2, <1>3, <1>4

LEMMA ReceivedKeeps ==
  ASSUME SessionInv, NEW s \in Subs, Received(s)
  PROVE  SessionInv'
<1> DEFINE r == sub[s]
<1>1. /\ UNCHANGED <<active, server>> /\ gate' = gate /\ Grows /\ Streams(r) /\ r.half # 0
      /\ durable' = [durable EXCEPT ![1] = Max2(@, r.half)] /\ Kept(s)
      /\ cursor' = [g \in Groups |-> IF g <= r.groups THEN Max2(cursor[g], r.half) ELSE cursor[g]]
  BY GrowsKeeps DEF Received, Streams, Advance, Grows, Covered
<1>2. /\ r \in LoopType /\ LoopForm(r) /\ gate \in BOOLEAN
      /\ \A n \in DOMAIN log : Needs(r, n) \/ Carries(r, n) => n \in Covered
  BY LoopFacts
<1>3. /\ log' = log /\ watermark' = watermark /\ active' = active /\ 1 \in Groups
      /\ watermark \in Nat /\ watermark <= Len(log) /\ Len(log) \in Nat
      /\ durable \in [Groups -> Nat \cup {NoCursor}] /\ cursor \in [Groups -> Nat]
      /\ \A g \in Groups : durable[g] <= Len(log) /\ cursor[g] <= Len(log)
      /\ sub \in [Subs -> LoopType] /\ active \in Subs \cup {None} /\ None \notin Subs
  BY <1>1, SessionTypes DEF server
<1>4. r.half \in Nat /\ r.half <= watermark /\ r.half <= Len(log) /\ StreamForm(r) /\ r.call = "no"
  <2>1. StreamForm(r) /\ r.call = "no" /\ r.half <= watermark /\ r.half \in Nat
    BY <1>1, <1>2 DEF LoopForm, CallForm, StreamForm, LoopType, Streams
  <2> QED BY <1>3, <2>1
<1>5. \A n \in DOMAIN log : n \in Nat /\ log[n] \in Groups
  BY SessionTypes
<1>6. \A m \in Nat \cup {NoCursor}, h \in Nat : /\ Max2(m, h) \in Nat /\ Max2(m, h) \in {m, h}
  BY DEF Max2, NoCursor
<1>7. \A n \in DOMAIN log : n <= r.half =>
        /\ n <= watermark /\ (log[n] = 1 => n \in Covered)
        /\ active # None /\ CaughtUp(sub[active]) /\ log[n] <= sub[active].groups => n \in Covered
  BY <1>1, EventCovers
<1>8. CursorForm'
  <2>1. durable' \in [Groups -> Nat \cup {NoCursor}] /\ cursor' \in [Groups -> Nat]
    BY <1>1, <1>3, <1>4, <1>6
  <2>2. ASSUME NEW g \in Groups PROVE durable'[g] <= Len(log) /\ cursor'[g] <= Len(log)
    <3>1. durable'[g] \in {durable[g], r.half} /\ cursor'[g] \in {cursor[g], r.half}
      BY <1>1, <1>3, <1>4, <1>6
    <3> QED BY <1>3, <1>4, <3>1
  <2> QED BY <1>3, <2>1, <2>2 DEF CursorForm
<1>9. DurableSound'
  <2> SUFFICES ASSUME NEW n \in DOMAIN log, n <= durable'[log[n]] PROVE n \in Covered
    BY <1>1, <1>3 DEF DurableSound, Grows
  <2>1. n <= durable[log[n]] \/ (log[n] = 1 /\ n <= r.half)
    BY <1>1, <1>3, <1>4, <1>5, <1>6
  <2> QED BY <1>7, <2>1 DEF SessionInv, Cursors, DurableSound
<1>10. \A n \in DOMAIN log : n <= cursor'[log[n]] => n <= cursor[log[n]] \/ n <= r.half
  BY <1>1, <1>3, <1>4, <1>5, <1>6
<1>11. \E q \in LoopType :
         /\ sub' = [sub EXCEPT ![s] = q] /\ LoopForm(q) /\ q.cancelled = r.cancelled
         /\ \A n \in DOMAIN log : Needs(q, n) \/ Carries(q, n) => n \in Covered'
         /\ Follows(q, r) /\ Narrows(q, r) /\ ~Rebases(q)
         /\ CaughtUp(q) => CaughtUp(r) /\ q.groups = r.groups
  <2>1. CASE r.cancelled
    <3>1. Ends(r, Over(r))
      BY <1>2, OverEnded
    <3>2. PICK q : q = Over(r)
      OBVIOUS
    <3>3. q \in LoopType /\ sub' = [sub EXCEPT ![s] = q] /\ Ends(r, q)
      BY <2>1, <3>1, <3>2 DEF Received, Loop, Ends
    <3>4. Follows(q, r) /\ Narrows(q, r) /\ ~Rebases(q) /\ ~CaughtUp(q)
      BY <1>1, <3>3 DEF Ends, Follows, Narrows, Streams, Rebases, CaughtUp
    <3> QED BY <3>3, <3>4 DEF Ends
  <2>2. CASE ~r.cancelled
    <3>1. PICK q \in LoopType : q = [r EXCEPT !.half = 0]
      <4> HIDE DEF r
      <4> QED BY <1>2 DEF LoopType
    <3>2. sub' = [sub EXCEPT ![s] = q]
      BY <2>2, <3>1 DEF Received, Loop
    <3> HIDE DEF r
    <3>3. /\ q.phase = r.phase /\ q.cancelled = r.cancelled /\ q.groups = r.groups /\ q.at = r.at
          /\ q.offset = r.offset /\ q.todo = r.todo /\ q.half = 0 /\ q.stream = r.stream
          /\ q.call = r.call /\ q.sent = r.sent
      BY <1>2, <3>1 DEF LoopType
    <3>4. LoopForm(q)
      <4>1. StreamForm(q)
        BY <1>4, <3>3 DEF StreamForm
      <4> QED BY <1>1, <1>2, <1>4, <2>2, <3>3, <4>1 DEF LoopForm, CallForm, Running, Rebases, Streams
    <3>5. \A n \in DOMAIN log : Needs(q, n) \/ Carries(q, n) => n \in Covered'
      <4> SUFFICES ASSUME NEW n \in DOMAIN log, Needs(q, n) PROVE n \in Covered
        BY <1>1, <1>4, <3>3 DEF Carries, Grows
      <4>1. n \in Nat \ {0}
        BY SessionTypes
      <4>2. Needs(r, n)
        BY <1>1, <3>3, <4>1 DEF Needs, Streams, Sent
      <4> QED BY <1>2, <4>2
    <3>6. Follows(q, r) /\ Narrows(q, r) /\ ~Rebases(q)
      BY <1>1, <2>2, <3>3 DEF Follows, Narrows, Streams, Sent, Rebases
    <3>7. CaughtUp(q) => CaughtUp(r) /\ q.groups = r.groups
      BY <3>3 DEF CaughtUp
    <3> QED BY <3>2, <3>3, <3>4, <3>5, <3>6, <3>7
  <2> QED BY <2>1, <2>2
<1>12. PICK q \in LoopType :
         /\ sub' = [sub EXCEPT ![s] = q] /\ LoopForm(q) /\ q.cancelled = r.cancelled
         /\ \A n \in DOMAIN log : Needs(q, n) \/ Carries(q, n) => n \in Covered'
         /\ Follows(q, r) /\ Narrows(q, r) /\ ~Rebases(q)
         /\ CaughtUp(q) => CaughtUp(r) /\ q.groups = r.groups
  BY <1>11
<1>13. SessionType' /\ Loops'
  <2>1. gate' \in BOOLEAN /\ (active # s /\ gate' => gate)
    BY <1>1, <1>2
  <2> QED BY <1>1, <1>12, <2>1, LoopKeeps
<1>14. MemorySound'
  <2> SUFFICES ASSUME NEW n \in DOMAIN log, n <= cursor'[log[n]]
               PROVE  /\ n > watermark => n \in Covered
                      /\ active # None /\ sub'[active].phase \in {"opening", "live"}
                           /\ log[n] <= sub'[active].groups => n \in Covered
    BY <1>1, <1>3 DEF MemorySound, Grows
  <2>1. active # None /\ sub'[active].phase \in {"opening", "live"} /\ log[n] <= sub'[active].groups =>
          CaughtUp(sub[active]) /\ log[n] <= sub[active].groups
    BY <1>3, <1>12 DEF CaughtUp
  <2>2. CASE n <= r.half
    BY <1>3, <1>5, <1>7, <2>1, <2>2
  <2>3. CASE n <= cursor[log[n]]
    BY <2>1, <2>3 DEF SessionInv, Cursors, MemorySound, CaughtUp
  <2> QED BY <1>10, <2>2, <2>3
<1> QED BY <1>8, <1>9, <1>13, <1>14 DEF SessionInv, Cursors

-----------------------------------------------------------------------------
(* Handshakes that end *)

\* What a handshake's answer leaves of the cursors: resetSyncState drops what the other
\* loops do not build on, and no cursor is restored above the watermark.
LEMMA AdoptKeeps ==
  ASSUME SessionInv, NEW s \in Subs, Adopt(s), UNCHANGED server
  PROVE  /\ \A t \in Subs, n \in DOMAIN log :
              n \in Covered /\ (BuildsOn(sub[t], n) \/ (t # s /\ Carries(sub[t], n))) => n \in Covered'
         /\ Kept(s) /\ CursorForm' /\ DurableSound'
         /\ \A n \in DOMAIN log : n <= cursor'[log[n]] => n <= watermark /\ n \in Covered
<1> DEFINE r == sub[s]
           of == [g \in Groups |-> IF g <= r.roster THEN r.sent[g] ELSE NoCursor]
           lost == \E g \in Groups : of[g] = Rejected
<1>1. /\ log' = log /\ watermark' = watermark /\ watermark \in Nat /\ Len(log) \in Nat /\ watermark <= Len(log)
      /\ durable \in [Groups -> Nat \cup {NoCursor}] /\ \A g \in Groups : durable[g] <= Len(log)
  BY SessionTypes DEF server
<1>2. \A n \in DOMAIN log : n \in Nat \ {0} /\ log[n] \in Groups
  BY SessionTypes
<1>3. /\ r \in LoopType /\ LoopForm(r) /\ r.call = "answered"
      /\ \A n \in DOMAIN log : Carries(r, n) => n \in Covered
  BY LoopFacts DEF Adopt
<1>4. of \in [Groups -> Nat \cup {NoCursor, Rejected}] /\ \A g \in Groups : of[g] <= watermark
  <2>1. \A g \in Groups : r.sent[g] \in Nat \cup {NoCursor, Rejected} /\ r.sent[g] <= watermark
    BY <1>3 DEF LoopType, LoopForm, CallForm
  <2> HIDE DEF r
  <2> QED BY <1>1, <2>1 DEF NoCursor
<1>5. /\ cursor' = [g \in Groups |-> Max2(of[g], 0)]
      /\ IF lost
         THEN /\ applied' = {} /\ durable' = [g \in Groups |-> NoCursor]
              /\ escaped' = escaped \cup {n \in applied :
                   \E t \in Subs : BuildsOn(sub[t], n) \/ (t # s /\ Carries(sub[t], n))}
         ELSE UNCHANGED <<applied, durable, escaped>>
  BY DEF Adopt
<1>6. \A g \in Groups : /\ cursor'[g] \in Nat /\ cursor'[g] <= watermark
                        /\ cursor'[g] = of[g] \/ cursor'[g] = 0
  <2> HIDE DEF of, lost
  <2>1. ASSUME NEW g \in Groups
        PROVE  /\ cursor'[g] \in Nat /\ cursor'[g] <= watermark
               /\ cursor'[g] = of[g] \/ cursor'[g] = 0
    <3>1. of[g] \in Nat \cup {NoCursor, Rejected} /\ of[g] <= watermark /\ cursor'[g] = Max2(of[g], 0)
      BY <1>4, <1>5
    <3> QED BY <1>1, <3>1 DEF Max2, NoCursor, Rejected
  <2> QED BY <2>1
<1>7. ASSUME NEW t \in Subs, NEW n \in DOMAIN log, n \in Covered,
             BuildsOn(sub[t], n) \/ (t # s /\ Carries(sub[t], n))
      PROVE  n \in Covered'
  <2> HIDE DEF of, lost, r
  <2> QED BY <1>5, <1>7 DEF Covered
<1>8. CursorForm'
  <2>1. cursor' \in [Groups -> Nat]
    <3>1. cursor' = [g \in Groups |-> cursor'[g]]
      BY <1>5
    <3> QED BY <1>6, <3>1
  <2>2. durable' \in [Groups -> Nat \cup {NoCursor}] /\ \A g \in Groups : durable'[g] <= Len(log)
    <3> HIDE DEF lost, of
    <3> QED BY <1>1, <1>5 DEF NoCursor
  <2>3. \A g \in Groups : cursor'[g] <= Len(log)
    BY <1>1, <1>6
  <2> QED BY <1>1, <2>1, <2>2, <2>3 DEF CursorForm
<1>9. DurableSound'
  <2> HIDE DEF lost, of, r
  <2> SUFFICES ASSUME NEW n \in DOMAIN log, n <= durable'[log[n]] PROVE n \in Covered'
    BY <1>1 DEF DurableSound
  <2>1. CASE lost
    BY <1>2, <1>5, <2>1 DEF NoCursor
  <2>2. CASE ~lost
    BY <1>5, <2>2 DEF SessionInv, Cursors, DurableSound, Covered
  <2> QED BY <2>1, <2>2
<1>10. ASSUME NEW n \in DOMAIN log, n <= cursor'[log[n]]
       PROVE  n <= watermark /\ n \in Covered
  <2>1. n \in Nat \ {0} /\ log[n] \in Groups
    BY <1>2
  <2>2. cursor'[log[n]] \in Nat /\ cursor'[log[n]] <= watermark /\ cursor'[log[n]] = of[log[n]]
    <3> HIDE DEF of
    <3> QED BY <1>6, <1>10, <2>1
  <2>3. of[log[n]] = r.sent[log[n]]
    <3>1. of[log[n]] # NoCursor
      <4> HIDE DEF of
      <4> QED BY <2>2 DEF NoCursor
    <3> QED BY <2>1, <3>1
  <2>4. n <= r.sent[log[n]]
    <3> HIDE DEF r, of
    <3> QED BY <1>10, <2>2, <2>3
  <2>5. Carries(r, n)
    BY <1>3, <2>4 DEF Carries
  <2>6. n <= watermark
    BY <1>1, <1>10, <2>1, <2>2
  <2> QED BY <1>3, <2>5, <2>6
<1> QED BY <1>7, <1>8, <1>9, <1>10 DEF Kept

\* A loop that was caught up and still is finds what it claims.
LEMMA AdoptCursors ==
  ASSUME SessionInv, NEW s \in Subs, Adopt(s), UNCHANGED server,
         active' # None /\ CaughtUp(sub'[active']) =>
           /\ active' \in Subs /\ CaughtUp(sub[active']) /\ ~sub[active'].cancelled
           /\ sub[active'].groups = sub'[active'].groups
  PROVE  Cursors'
<1>1. /\ CursorForm' /\ DurableSound' /\ log' = log /\ watermark' = watermark /\ watermark \in Nat
      /\ \A n \in DOMAIN log : n \in Nat
  BY AdoptKeeps, SessionTypes DEF server
<1>2. \A n \in DOMAIN log : n <= cursor'[log[n]] => n <= watermark /\ n \in Covered
  BY AdoptKeeps
<1>3. \A t \in Subs, n \in DOMAIN log : n \in Covered /\ BuildsOn(sub[t], n) => n \in Covered'
  BY AdoptKeeps
<1>4. MemorySound'
  <2> SUFFICES ASSUME NEW n \in DOMAIN log, n <= cursor'[log[n]]
               PROVE  /\ n > watermark => n \in Covered'
                      /\ active' # None /\ sub'[active'].phase \in {"opening", "live"}
                           /\ log[n] <= sub'[active'].groups => n \in Covered'
    BY <1>1 DEF MemorySound
  <2>1. n <= watermark /\ n \in Covered
    BY <1>2
  <2>2. ASSUME active' # None, sub'[active'].phase \in {"opening", "live"}, log[n] <= sub'[active'].groups
        PROVE  n \in Covered'
    <3>1. /\ active' \in Subs /\ CaughtUp(sub[active']) /\ ~sub[active'].cancelled
          /\ log[n] <= sub[active'].groups
      BY <2>2 DEF CaughtUp
    <3>2. BuildsOn(sub[active'], n)
      BY <3>1 DEF BuildsOn, CaughtUp
    <3> QED BY <1>3, <2>1, <3>1, <3>2
  <2> QED BY <1>1, <2>1, <2>2
<1> QED BY <1>1, <1>4 DEF Cursors

LEMMA RebasingForm ==
  ASSUME SessionInv, NEW r \in LoopType, LoopForm(r), r.phase \in {"greeting", "asking"}
  PROVE  \E q \in LoopType :
           /\ q = Rebasing(r) /\ q.phase \in {"seed", "rebase"} /\ q.cancelled = r.cancelled
           /\ LoopForm(q) /\ \A n \in DOMAIN log : ~Needs(q, n) /\ ~Carries(q, n)
<1>1. /\ \A n \in DOMAIN log : n \in Nat \ {0} /\ log[n] \in Groups
      /\ Groups \subseteq Nat \ {0} /\ 1 \in Groups /\ Len(log) \in Nat
  BY SessionTypes
<1>2. PICK p \in {"seed", "rebase"} :
        p = IF ToSeed(1, r.roster, durable') = {} THEN "rebase" ELSE "seed"
  OBVIOUS
<1>3. PICK h \in LoopType : h = Heard(r)
  BY <1>1, SessionTypes DEF Heard, ActiveSubscription, LoopType
<1>4. PICK q \in LoopType : q = [h EXCEPT !.phase = p, !.groups = r.roster, !.at = 1]
  BY DEF LoopType, Phases
<1>5. q = Rebasing(r)
  BY <1>2, <1>3, <1>4 DEF Rebasing
<1>6. /\ q.phase = p /\ q.cancelled = r.cancelled /\ q.groups = r.roster /\ q.at = 1
      /\ q.offset = r.offset /\ q.todo = r.todo /\ q.half = r.half /\ q.stream = r.stream
      /\ q.call = "no"
  BY <1>3, <1>4 DEF Heard, LoopType
<1>7. /\ r.todo = {} /\ r.offset = NoCursor /\ r.half = 0 /\ r.stream = <<>>
      /\ r.cancelled => r.phase = "asking"
  BY DEF LoopForm, Streams, Running, Rebases
<1>8. r.roster \in Nat \ {0}
  BY <1>1 DEF LoopType
<1>9. LoopForm(q)
  <2>1. PageForm(q)
    BY <1>1, <1>6, <1>7, <1>8 DEF PageForm, NoCursor
  <2> QED BY <1>6, <1>7, <2>1 DEF LoopForm, CallForm, Running, Rebases, Streams
<1>10. ASSUME NEW n \in DOMAIN log PROVE ~Needs(q, n) /\ ~Carries(q, n)
  <2>1. n \in Nat \ {0} /\ log[n] \in Nat \ {0}
    BY <1>1, Zenon
  <2>2. ~(log[n] < 1) /\ ~(n <= NoCursor) /\ n # 0
    BY <2>1 DEF NoCursor
  <2> QED BY <1>6, <1>7, <2>2 DEF Needs, Carries, Streams
<1> QED BY <1>5, <1>6, <1>9, <1>10

\* A reconnect's handshake ends, or the loop does with it.
LEMMA ReconnectedKeeps ==
  ASSUME SessionInv, NEW s \in Subs, Reconnected(s)
  PROVE  SessionInv'
<1> DEFINE r == sub[s]
<1>1. UNCHANGED <<active, server>> /\ UNCHANGED server /\ gate' = gate /\ Adopt(s) /\ r.phase = "asking"
  BY DEF Reconnected
<1>2. /\ r \in LoopType /\ LoopForm(r) /\ gate \in BOOLEAN /\ (active = s /\ Rebases(r) => ~gate)
  BY LoopFacts
<1>3. Kept(s)
  BY <1>1, AdoptKeeps
<1>4. gate' \in BOOLEAN /\ (active # s /\ gate' => gate)
  BY <1>1, <1>2
<1>5. \E q \in LoopType : sub' = [sub EXCEPT ![s] = q] /\ ~CaughtUp(q) /\ SessionType' /\ Loops'
  <2>1. CASE r.cancelled
    <3>1. PICK q : q = Over(r)
      OBVIOUS
    <3>2. Ends(r, q) /\ sub' = [sub EXCEPT ![s] = q]
      BY <1>2, <2>1, <3>1, OverEnded DEF Reconnected, Loop
    <3>3. q \in LoopType /\ ~CaughtUp(q) /\ Running(r) /\ r.phase # "greeting"
      BY <1>1, <3>2 DEF Ends, CaughtUp, Running
    <3> QED BY <1>1, <1>3, <1>4, <3>2, <3>3, EndsKeeps
  <2>2. CASE ~r.cancelled
    <3>1. PICK q \in LoopType :
            /\ q = Rebasing(r) /\ q.phase \in {"seed", "rebase"} /\ q.cancelled = r.cancelled
            /\ LoopForm(q) /\ \A n \in DOMAIN log : ~Needs(q, n) /\ ~Carries(q, n)
      BY <1>1, <1>2, RebasingForm
    <3>2. sub' = [sub EXCEPT ![s] = q]
      BY <2>2, <3>1 DEF Reconnected, Loop
    <3>3. Follows(q, r) /\ Narrows(q, r) /\ ~CaughtUp(q)
      BY <1>1, <3>1 DEF Follows, Narrows, Streams, CaughtUp
    <3>4. active = s /\ Rebases(q) => ~gate'
      BY <1>1, <1>2 DEF Rebases
    <3>5. SessionType' /\ Loops'
      BY <1>1, <1>3, <1>4, <3>1, <3>2, <3>3, <3>4, LoopKeeps
    <3> QED BY <3>2, <3>3, <3>5
  <2> QED BY <2>1, <2>2
<1>6. PICK q \in LoopType : sub' = [sub EXCEPT ![s] = q] /\ ~CaughtUp(q) /\ SessionType' /\ Loops'
  BY <1>5
<1>7. Cursors'
  <2>1. /\ sub'[s] = q /\ \A t \in Subs \ {s} : sub'[t] = sub[t]
        /\ active' = active /\ active \in Subs \cup {None} /\ None \notin Subs
    BY <1>1, <1>6, SessionTypes
  <2>2. active # None => ~sub[active].cancelled
    BY DEF SessionInv, Loops, OneLoop
  <2>3. active' # None /\ CaughtUp(sub'[active']) =>
          /\ active' \in Subs /\ CaughtUp(sub[active']) /\ ~sub[active'].cancelled
          /\ sub[active'].groups = sub'[active'].groups
    BY <1>6, <2>1, <2>2
  <2> QED BY <1>1, <2>3, AdoptCursors
<1> QED BY <1>6, <1>7 DEF SessionInv

\* refreshMembership: the stream goes on, or closes, or the loop is over.
LEMMA RefreshedKeeps ==
  ASSUME SessionInv, NEW s \in Subs, Refreshed(s)
  PROVE  SessionInv'
<1> DEFINE r == sub[s]
<1>1. UNCHANGED <<active, server>> /\ UNCHANGED server /\ gate' = gate /\ Adopt(s) /\ Streams(r)
  BY DEF Refreshed, Streams
<1>2. /\ r \in LoopType /\ LoopForm(r) /\ gate \in BOOLEAN
      /\ \A n \in DOMAIN log : Needs(r, n) \/ Carries(r, n) => n \in Covered
      /\ active = s => ~r.cancelled
  BY LoopFacts
<1>3. /\ Kept(s)
      /\ \A n \in DOMAIN log : n \in Covered /\ BuildsOn(r, n) => n \in Covered'
  BY <1>1, AdoptKeeps
<1>4. gate' \in BOOLEAN /\ (active # s /\ gate' => gate)
  BY <1>1, <1>2
<1>5. \E q \in LoopType :
        /\ sub' = [sub EXCEPT ![s] = q] /\ SessionType' /\ Loops'
        /\ CaughtUp(q) => CaughtUp(r) /\ q.groups = r.groups
  <2>1. CASE r.cancelled
    <3>1. PICK q : q = Over(r)
      OBVIOUS
    <3>2. Ends(r, q) /\ sub' = [sub EXCEPT ![s] = q]
      BY <1>2, <2>1, <3>1, OverEnded DEF Refreshed, Loop
    <3>3. q \in LoopType /\ ~CaughtUp(q) /\ Running(r) /\ r.phase # "greeting"
      BY <1>1, <3>2 DEF Ends, CaughtUp, Running, Streams
    <3> QED BY <1>1, <1>3, <1>4, <3>2, <3>3, EndsKeeps
  <2>2. CASE ~r.cancelled
    <3>1. PICK h \in LoopType : h = Heard(r)
      BY <1>2, SessionTypes DEF Heard, ActiveSubscription, LoopType
    <3>2. PICK q \in LoopType :
            q = [h EXCEPT !.groups = r.roster, !.phase = IF r.groups = r.roster THEN @ ELSE "closing"]
      BY <1>2 DEF LoopType, Phases
    <3>3. sub' = [sub EXCEPT ![s] = q]
      BY <2>2, <3>1, <3>2 DEF Refreshed, Loop
    <3> HIDE DEF r
    <3>4. /\ q.phase = (IF r.groups = r.roster THEN r.phase ELSE "closing")
          /\ q.cancelled = r.cancelled /\ q.groups = r.roster /\ q.at = r.at
          /\ q.offset = r.offset /\ q.todo = r.todo /\ q.half = r.half /\ q.stream = r.stream
          /\ q.call = "no"
      BY <1>2, <3>1, <3>2 DEF Heard, LoopType
    <3>5. StreamForm(r) /\ r.half = 0 /\ Streams(q)
      BY <1>1, <1>2, <3>4 DEF LoopForm, CallForm, Streams, Adopt, r
    <3>6. LoopForm(q)
      <4>1. StreamForm(q)
        BY <3>4, <3>5 DEF StreamForm
      <4> QED BY <1>1, <1>2, <2>2, <3>4, <3>5, <4>1 DEF LoopForm, CallForm, Running, Rebases, Streams
    <3>7. ASSUME NEW n \in DOMAIN log, Needs(q, n) \/ Carries(q, n)
          PROVE  n \in Covered'
      <4>1. /\ n \in Nat \ {0} /\ log[n] \in Groups /\ watermark \in Nat /\ log \in Seq(Groups)
            /\ Groups \subseteq Nat \ {0}
        BY SessionTypes
      <4>2. Needs(q, n)
        BY <3>4, <3>7 DEF Carries
      <4>3. Sent(r, n) => Sent(q, n)
        BY <3>4 DEF Sent
      <4>4. Needs(r, n)
        <5>1. CASE r.groups = r.roster
          BY <1>1, <2>2, <3>4, <3>5, <4>1, <4>2, <4>3, <5>1 DEF Needs, Streams
        <5>2. CASE r.groups # r.roster
          <6>1. log[n] = 1 /\ ~Sent(r, n) /\ \E i \in DOMAIN r.stream : n <= r.stream[i]
            BY <3>4, <3>5, <4>1, <4>2, <4>3, <5>2 DEF Needs, Streams
          <6>2. n <= watermark
            <7>1. PICK i \in DOMAIN r.stream : n <= r.stream[i]
              BY <6>1
            <7>2. r.stream[i] \in Nat /\ r.stream[i] <= watermark
              <8>1. r.stream \in Seq(Nat)
                BY <1>2 DEF LoopType
              <8> QED BY <3>5, <8>1 DEF StreamForm
            <7> QED BY <4>1, <7>1, <7>2
          <6>3. 1 <= r.groups
            <7>1. r.groups \in Nat \ {0}
              BY <1>2, <4>1, Zenon DEF LoopType
            <7> QED BY <7>1
          <6> QED BY <1>1, <2>2, <6>1, <6>2, <6>3 DEF Needs, Streams
        <5> QED BY <5>1, <5>2
      <4>5. BuildsOn(r, n)
        BY <1>2, <4>1, <4>4, NeedsBuild
      <4> QED BY <1>2, <1>3, <4>4, <4>5
    <3>8. Follows(q, r) /\ Narrows(q, r) /\ ~Rebases(q)
      BY <1>1, <2>2, <3>4, <3>5 DEF Follows, Narrows, Streams, Sent, Rebases
    <3>9. SessionType' /\ Loops'
      <4>1. \A n \in DOMAIN log : Needs(q, n) \/ Carries(q, n) => n \in Covered'
        BY <3>7
      <4> QED BY <1>1, <1>3, <1>4, <3>3, <3>4, <3>6, <3>8, <4>1, LoopKeeps DEF r
    <3>10. CaughtUp(q) => CaughtUp(r) /\ q.groups = r.groups
      BY <3>4 DEF CaughtUp
    <3> QED BY <3>3, <3>9, <3>10
  <2> QED BY <2>1, <2>2
<1>6. PICK q \in LoopType :
        /\ sub' = [sub EXCEPT ![s] = q] /\ SessionType' /\ Loops'
        /\ CaughtUp(q) => CaughtUp(r) /\ q.groups = r.groups
  BY <1>5
<1>7. Cursors'
  <2>1. /\ sub'[s] = q /\ \A t \in Subs \ {s} : sub'[t] = sub[t]
        /\ active' = active /\ active \in Subs \cup {None} /\ None \notin Subs
    BY <1>1, <1>6, SessionTypes
  <2>2. active # None => ~sub[active].cancelled
    BY DEF SessionInv, Loops, OneLoop
  <2>3. active' # None /\ CaughtUp(sub'[active']) =>
          /\ active' \in Subs /\ CaughtUp(sub[active']) /\ ~sub[active'].cancelled
          /\ sub[active'].groups = sub'[active'].groups
    BY <1>6, <2>1, <2>2
  <2> QED BY <1>1, <2>3, AdoptCursors
<1> QED BY <1>6, <1>7 DEF SessionInv

-----------------------------------------------------------------------------
(* Subscriptions that begin and end *)

LEMMA CancelledForm ==
  ASSUME SessionInv, NEW r \in LoopType, LoopForm(r), r.phase \notin {"new", "greeting"}
  PROVE  \E q \in LoopType :
           /\ q = Cancelled(r) /\ q.cancelled = TRUE /\ LoopForm(q)
           /\ q.phase \in {r.phase, "ended"}
           /\ \A n \in DOMAIN log : (Needs(q, n) => Needs(r, n)) /\ (Carries(q, n) => Carries(r, n))
<1>1. PICK c \in LoopType : c = [r EXCEPT !.cancelled = TRUE]
  BY DEF LoopType
<1>2. c.cancelled = TRUE
  BY <1>1 DEF LoopType
<1>3. CASE r.phase \in {"backoff", "opening", "live", "closing"} /\ r.half = 0 /\ r.call = "no"
  <2>1. PICK q : q = Over(c)
    OBVIOUS
  <2>2. Ends(c, q) /\ q = Cancelled(r)
    BY <1>1, <1>3, <2>1, OverEnded DEF Cancelled
  <2>3. q.phase = "ended"
    BY <2>1, OverType
  <2> QED BY <1>2, <2>2, <2>3 DEF Ends
<1>4. CASE ~(r.phase \in {"backoff", "opening", "live", "closing"} /\ r.half = 0 /\ r.call = "no")
  <2>1. PICK q \in LoopType : q = [r EXCEPT !.cancelled = TRUE, !.stream = <<>>]
    BY NothingSent DEF LoopType
  <2>2. /\ q.phase = r.phase /\ q.cancelled = TRUE /\ q.groups = r.groups /\ q.at = r.at
        /\ q.offset = r.offset /\ q.todo = r.todo /\ q.half = r.half /\ q.stream = <<>>
        /\ q.call = r.call /\ q.sent = r.sent
    BY <2>1 DEF LoopType
  <2>3. LoopForm(q)
    <3>1. StreamForm(r) => StreamForm(q)
      BY <2>2, NothingSent DEF StreamForm
    <3>2. CallForm(q)
      BY <2>2 DEF LoopForm, CallForm, Streams
    <3>3. r.phase = "rebase" => PageForm(q)
      BY <2>2 DEF LoopForm, PageForm
    <3>4. r.phase = "backoff" \/ r.phase = "opening" => FALSE
      BY <1>4 DEF LoopForm, CallForm, Streams
    <3>5. Streams(r) => r.half # 0 \/ r.call # "no"
      BY <1>4 DEF Streams
    <3> QED BY <2>2, <3>1, <3>2, <3>3, <3>4, <3>5 DEF LoopForm, Running, Rebases, Streams, LoopType, Phases
  <2>4. ASSUME NEW n \in DOMAIN log
        PROVE  (Needs(q, n) => Needs(r, n)) /\ (Carries(q, n) => Carries(r, n))
    BY <2>2 DEF Needs, Carries, Streams
  <2>5. q = Cancelled(r)
    BY <1>4, <2>1 DEF Cancelled
  <2> QED BY <2>2, <2>3, <2>4, <2>5
<1> QED BY <1>3, <1>4

\* unsubscribe: the loop is told, and no subscription is current.
LEMMA UnsubscribeKeeps ==
  ASSUME SessionInv, NEW s \in Subs, Unsubscribe(s)
  PROVE  SessionInv'
<1>1. /\ active = s /\ active' = None /\ gate' = TRUE /\ UNCHANGED server /\ Grows /\ Kept(s)
      /\ UNCHANGED <<durable, cursor>>
  BY GrowsKeeps DEF Unsubscribe, cursors, Grows, Covered
<1>2. /\ sub[s] \in LoopType /\ LoopForm(sub[s]) /\ sub[s].phase \notin {"new", "greeting"}
      /\ \A n \in DOMAIN log : Needs(sub[s], n) \/ Carries(sub[s], n) => n \in Covered
  BY <1>1, LoopFacts
<1>3. PICK q \in LoopType :
        /\ q = Cancelled(sub[s]) /\ q.cancelled = TRUE /\ LoopForm(q)
        /\ q.phase \in {sub[s].phase, "ended"}
        /\ \A n \in DOMAIN log : (Needs(q, n) => Needs(sub[s], n)) /\ (Carries(q, n) => Carries(sub[s], n))
  BY <1>2, CancelledForm
<1>4. /\ sub' = [sub EXCEPT ![s] = q] /\ sub'[s] = q /\ \A t \in Subs \ {s} : sub'[t] = sub[t]
      /\ sub \in [Subs -> LoopType] /\ log' = log /\ watermark' = watermark
  BY <1>1, <1>3, SessionTypes DEF Unsubscribe, Loop, server
<1>5. LoopForms' /\ LoopsSound'
  BY <1>1, <1>2, <1>3, <1>4, FormsStay DEF Grows
<1>6. SessionType'
  BY <1>1, <1>4 DEF SessionInv, SessionType, server
<1>7. OneLoop' /\ RebaseHoldsGate' /\ LastEventBehind'
  <2>1. OneLoop
    BY DEF SessionInv, Loops
  <2>2. q.phase # "greeting" /\ q.cancelled
    BY <1>2, <1>3
  <2> QED BY <1>1, <1>4, <2>1, <2>2 DEF OneLoop, RebaseHoldsGate, LastEventBehind
<1>8. Cursors'
  BY <1>1, <1>4 DEF SessionInv, Cursors, CursorForm, DurableSound, MemorySound, Grows
<1> QED BY <1>5, <1>6, <1>7, <1>8 DEF SessionInv, Loops

\* subscribe: the running session is taken over.
LEMMA SubscribeKeeps ==
  ASSUME SessionInv, NEW s \in Subs, Subscribe(s)
  PROVE  SessionInv'
<1>1. /\ active' = s /\ gate' = FALSE /\ UNCHANGED server /\ Adopt(s) /\ sub[s].phase = "greeting"
      /\ log' = log /\ watermark' = watermark
  BY DEF Subscribe, server
<1>2. /\ sub[s] \in LoopType /\ LoopForm(sub[s]) /\ active # s
  BY <1>1, LoopFacts
<1>3. PICK q \in LoopType :
        /\ q = Rebasing(sub[s]) /\ q.phase \in {"seed", "rebase"} /\ q.cancelled = sub[s].cancelled
        /\ LoopForm(q) /\ \A n \in DOMAIN log : ~Needs(q, n) /\ ~Carries(q, n)
  BY <1>1, <1>2, RebasingForm
<1>4. OneLoop /\ active \in Subs \cup {None} /\ None \notin Subs /\ sub \in [Subs -> LoopType] /\ Kept(s)
      /\ log \in Seq(Groups)
  BY <1>1, SessionTypes, AdoptKeeps DEF SessionInv, Loops
<1>5. ASSUME NEW t \in Subs, t # s
      PROVE  /\ sub'[t] \in LoopType /\ LoopForm(sub'[t])
             /\ t = active => sub'[t].cancelled /\ sub'[t].phase # "greeting"
             /\ t # active => sub'[t] = sub[t]
             /\ \A n \in DOMAIN log : (Needs(sub'[t], n) => Needs(sub[t], n))
                                      /\ (Carries(sub'[t], n) => Carries(sub[t], n))
  <2>1. sub[t] \in LoopType /\ LoopForm(sub[t])
    BY LoopFacts
  <2>2. CASE t = active
    <3>1. sub[t].phase \notin {"new", "greeting"}
      BY <2>2, LoopFacts
    <3>2. PICK c \in LoopType :
            /\ c = Cancelled(sub[t]) /\ c.cancelled = TRUE /\ LoopForm(c)
            /\ c.phase \in {sub[t].phase, "ended"}
            /\ \A n \in DOMAIN log : (Needs(c, n) => Needs(sub[t], n)) /\ (Carries(c, n) => Carries(sub[t], n))
      BY <2>1, <3>1, CancelledForm
    <3>3. sub'[t] = c
      BY <1>5, <2>2, <3>2 DEF Subscribe
    <3> QED BY <2>2, <3>1, <3>2, <3>3
  <2>3. CASE t # active
    <3>1. sub'[t] = sub[t]
      BY <1>5, <2>3 DEF Subscribe
    <3> QED BY <2>1, <2>3, <3>1
  <2> QED BY <2>2, <2>3
<1>6. sub'[s] = q /\ sub' = [t \in Subs |-> sub'[t]]
  <2>1. sub' = [t \in Subs |-> CASE t = s -> Rebasing(sub[s])
                                 [] t = active -> Cancelled(sub[t])
                                 [] OTHER -> sub[t]]
    BY DEF Subscribe
  <2>2. sub'[s] = Rebasing(sub[s])
    BY <1>2, <2>1
  <2>3. sub' = [t \in Subs |-> sub'[t]]
    BY <2>1
  <2> QED BY <1>3, <2>2, <2>3
<1>7. SessionType'
  <2>1. sub' \in [Subs -> LoopType]
    <3>1. \A t \in Subs : sub'[t] \in LoopType
      BY <1>5, <1>6
    <3> QED BY <1>6, <3>1
  <2> QED BY <1>1, <2>1 DEF SessionInv, SessionType, server
<1>8. LoopForms'
  <2> SUFFICES ASSUME NEW t \in Subs PROVE LoopForm(sub[t])'
    BY DEF LoopForms
  <2>1. PICK x \in LoopType : x = sub'[t] /\ LoopForm(x)
    BY <1>3, <1>5, <1>6
  <2>2. LoopForm(x)'
    BY <1>1, <2>1 DEF LoopForm, CallForm, PageForm, StreamForm, Running, Rebases, Streams, WakeUp
  <2>3. sub[t]' = x
    BY <2>1
  <2> QED BY <2>2, <2>3
<1>9. LoopsSound'
  <2> SUFFICES ASSUME NEW t \in Subs, NEW n \in DOMAIN log, (Needs(sub[t], n) \/ Carries(sub[t], n))'
               PROVE  n \in Covered'
    BY <1>1 DEF LoopsSound
  <2>1. PICK x \in LoopType : x = sub'[t]
    BY <1>3, <1>5, <1>6
  <2>2. (Needs(x, n) \/ Carries(x, n))'
    BY <2>1
  <2>3. Needs(x, n) \/ Carries(x, n)
    BY <1>1, <2>2 DEF Needs, Carries, Streams, Sent
  <2>4. t # s
    BY <1>3, <1>6, <2>1, <2>3
  <2>5. Needs(sub[t], n) \/ Carries(sub[t], n)
    BY <1>5, <2>1, <2>3, <2>4
  <2>6. n \in Covered /\ sub[t] \in LoopType /\ LoopForm(sub[t])
    BY <2>5, LoopFacts
  <2>7. BuildsOn(sub[t], n) \/ Carries(sub[t], n)
    BY <1>4, <2>5, <2>6, NeedsBuild
  <2> QED BY <1>4, <2>4, <2>6, <2>7 DEF Kept
<1>10. OneLoop' /\ RebaseHoldsGate' /\ LastEventBehind'
  <2>1. ~q.cancelled /\ q.phase \in {"seed", "rebase"}
    BY <1>1, <1>3, <1>4 DEF OneLoop
  <2>2. OneLoop'
    BY <1>1, <1>4, <1>5, <1>6, <2>1 DEF OneLoop, Running
  <2>3. RebaseHoldsGate'
    BY <1>1 DEF RebaseHoldsGate
  <2>4. LastEventBehind'
    BY <1>1, <1>6, <2>1 DEF LastEventBehind, Streams
  <2> QED BY <2>2, <2>3, <2>4
<1>11. Cursors'
  <2>1. ~(active' # None /\ CaughtUp(sub'[active']))
    BY <1>1, <1>3, <1>6 DEF CaughtUp
  <2> QED BY <1>1, <2>1, AdoptCursors
<1> QED BY <1>7, <1>8, <1>9, <1>10, <1>11 DEF SessionInv, Loops

-----------------------------------------------------------------------------
(* The rebase phase *)

\* bootstrapGroupListing: all that is resolved of a group is in the log, and its cursor
\* is the watermark.
LEMMA SeedKeeps ==
  ASSUME SessionInv, NEW s \in Subs, Seed(s)
  PROVE  SessionInv'
<1> DEFINE r == sub[s]
           left == ToSeed(r.at, r.groups, durable)
           next == ToSeed(Min(left) + 1, r.groups, durable)
<1>1. UNCHANGED <<active, server>> /\ gate' = gate /\ r.phase = "seed"
  BY DEF Seed
<1>2. /\ r \in LoopType /\ LoopForm(r) /\ gate \in BOOLEAN /\ (active = s /\ Rebases(r) => ~gate)
  BY LoopFacts
<1>3. /\ r.at \in Nat /\ r.at >= 1 /\ r.groups \in Groups /\ r.todo = {} /\ r.half = 0 /\ r.stream = <<>>
      /\ r.offset = NoCursor /\ r.call = "no" /\ NGroups \in Nat
  BY <1>1, <1>2 DEF LoopForm, CallForm, LoopType, Streams, SessionInv, SessionType
<1>4. /\ \A n \in DOMAIN log : n \in Nat \ {0} /\ log[n] \in Groups /\ n <= Len(log)
      /\ watermark \in Nat /\ watermark <= Len(log) /\ Len(log) \in Nat
      /\ durable \in [Groups -> Nat \cup {NoCursor}] /\ DOMAIN log = 1..Len(log)
      /\ Groups \subseteq Nat \ {0}
  BY SessionTypes
<1>5. left = {} \/ (Min(left) \in Groups /\ Min(left) \in Nat)
  <2>1. left \in SUBSET Nat /\ left \subseteq Groups
    BY <1>3 DEF ToSeed, Groups
  <2> HIDE DEF left
  <2> QED BY <2>1, MinOf
<1>6. left # {} /\ next # {} => Min(next) \in Nat /\ Min(next) >= 1
  <2> SUFFICES ASSUME left # {}, next # {} PROVE Min(next) \in Nat /\ Min(next) >= 1
    OBVIOUS
  <2>1. next \in SUBSET Nat /\ \A g \in next : g >= 1
    BY <1>5 DEF ToSeed
  <2> HIDE DEF next
  <2> QED BY <2>1, MinOf
<1>7. PICK q \in LoopType :
        /\ sub' = [sub EXCEPT ![s] = q] /\ q.phase \in {"seed", "rebase"} /\ q.at \in Nat /\ q.at >= 1
        /\ q.phase = "rebase" => q.at = 1
        /\ q.cancelled = r.cancelled /\ q.groups = r.groups /\ q.todo = {} /\ q.half = 0
        /\ q.stream = <<>> /\ q.offset = NoCursor /\ q.call = "no"
  <2>1. CASE left = {} \/ next = {}
    <3>1. PICK q \in LoopType : q = [r EXCEPT !.phase = "rebase", !.at = 1]
      BY <1>2 DEF LoopType, Phases
    <3>2. sub' = [sub EXCEPT ![s] = q]
      BY <2>1, <3>1 DEF Seed, Loop
    <3> HIDE DEF r, left, next
    <3>3. /\ q.phase = "rebase" /\ q.at = 1 /\ q.cancelled = r.cancelled /\ q.groups = r.groups
          /\ q.todo = {} /\ q.half = 0 /\ q.stream = <<>> /\ q.offset = NoCursor /\ q.call = "no"
      BY <1>2, <1>3, <3>1 DEF LoopType
    <3>4. q.phase \in {"seed", "rebase"} /\ q.at \in Nat /\ q.at >= 1
      BY <3>3
    <3> QED BY <3>2, <3>3, <3>4, Zenon
  <2>2. CASE left # {} /\ next # {}
    <3>1. PICK h \in Nat : h = Min(next) /\ h >= 1
      BY <1>6, <2>2
    <3>2. PICK q \in LoopType : q = [r EXCEPT !.at = h]
      <4> HIDE DEF r
      <4> QED BY <1>2 DEF LoopType
    <3>3. sub' = [sub EXCEPT ![s] = q]
      BY <2>2, <3>1, <3>2 DEF Seed, Loop
    <3> HIDE DEF r, left, next
    <3>4. /\ q.phase = "seed" /\ q.at = h /\ q.cancelled = r.cancelled /\ q.groups = r.groups
          /\ q.todo = {} /\ q.half = 0 /\ q.stream = <<>> /\ q.offset = NoCursor /\ q.call = "no"
      BY <1>1, <1>2, <1>3, <3>2 DEF LoopType, r
    <3> QED BY <3>1, <3>3, <3>4
  <2> QED BY <2>1, <2>2
<1>8. /\ Grows
      /\ \/ durable' = durable /\ cursor' = cursor
         \/ \E g \in Groups : /\ durable' = [durable EXCEPT ![g] = watermark]
                              /\ cursor' = [cursor EXCEPT ![g] = Max2(@, watermark)]
                              /\ \A n \in DOMAIN log : log[n] = g /\ n <= watermark => n \in Covered'
  <2>0. escaped' = escaped
    BY DEF Seed
  <2>1. CASE left = {}
    BY <2>0, <2>1 DEF Seed, cursors, Grows, Covered
  <2>2. CASE left # {}
    <3>1. PICK g \in Groups : g = Min(left)
      BY <1>5, <2>2
    <3>2. Seeded(g)
      BY <2>2, <3>1 DEF Seed
    <3>3. Grows /\ \A n \in DOMAIN log : log[n] = g /\ n <= watermark => n \in Covered'
      BY <1>4, <2>0, <3>2 DEF Seeded, Grows, Covered
    <3>4. durable' = [durable EXCEPT ![g] = watermark] /\ cursor' = [cursor EXCEPT ![g] = Max2(@, watermark)]
      BY <3>2 DEF Seeded
    <3> QED BY <3>3, <3>4
  <2> QED BY <2>1, <2>2
<1> HIDE DEF r, left, next
<1>9. LoopForm(q)
  <2>1. q.phase = "rebase" => PageForm(q)
    <3>1. 1 \in 1..(q.groups + 1) /\ ~(1 > q.groups)
      <4>1. q.groups \in Nat \ {0}
        BY <1>3, <1>4, <1>7, Zenon
      <4> QED BY <4>1
    <3> QED BY <1>4, <1>7, <3>1 DEF PageForm, NoCursor
  <2> QED BY <1>7, <2>1 DEF LoopForm, CallForm, Running, Rebases, Streams
<1>10. ASSUME NEW n \in DOMAIN log PROVE ~Needs(q, n) /\ ~Carries(q, n)
  <2>1. n \in Nat \ {0} /\ log[n] \in Nat \ {0}
    BY <1>4, Zenon
  <2>2. ~(log[n] < 1) /\ ~(n <= NoCursor) /\ n # 0
    BY <2>1 DEF NoCursor
  <2> QED BY <1>7, <2>2 DEF Needs, Carries, Streams
<1>11. SessionType' /\ Loops'
  <2>1. gate' \in BOOLEAN /\ (active # s /\ gate' => gate) /\ (active = s /\ Rebases(q) => ~gate')
    BY <1>1, <1>2 DEF Rebases
  <2>2. Follows(q, sub[s]) /\ Narrows(q, sub[s]) /\ q.cancelled = sub[s].cancelled /\ Kept(s)
    BY <1>1, <1>7, <1>8, GrowsKeeps DEF Follows, Narrows, Streams, r
  <2> QED BY <1>1, <1>7, <1>9, <1>10, <2>1, <2>2, LoopKeeps
<1>12. ~CaughtUp(q)
  BY <1>7 DEF CaughtUp
<1>13. CASE durable' = durable /\ cursor' = cursor
  <2>1. UNCHANGED <<active, server, durable, cursor>>
    BY <1>1, <1>13
  <2>2. Cursors'
    BY <1>7, <1>8, <1>12, <2>1, CursorsStay
  <2> QED BY <1>11, <2>2 DEF SessionInv
<1>14. ASSUME NEW g \in Groups, durable' = [durable EXCEPT ![g] = watermark],
              cursor' = [cursor EXCEPT ![g] = Max2(@, watermark)],
              \A n \in DOMAIN log : log[n] = g /\ n <= watermark => n \in Covered'
       PROVE  SessionInv'
  <2>1. watermark \in Nat \cup {NoCursor}
    BY <1>4
  <2>2. Cursors'
    BY <1>1, <1>4, <1>7, <1>8, <1>12, <1>14, <2>1, CursorMoves
  <2> QED BY <1>11, <2>2 DEF SessionInv
<1> QED BY <1>8, <1>13, <1>14

\* What the page of a group has: its rows from the start, the lowest first.
LEMMA PageNeeds ==
  ASSUME SessionInv, NEW r \in LoopType, LoopForm(r), r.phase = "rebase", r.at <= r.groups,
         r.todo = {}, r.half = 0,
         NEW start \in Nat \cup {NoCursor},
         start = IF r.offset = NoCursor THEN Offset(r.at) ELSE r.offset,
         \A n \in DOMAIN log : Needs(r, n) \/ Carries(r, n) => n \in Covered,
         NEW page, page = PageAfter(r.at, start),
         NEW n \in DOMAIN log, log[n] = r.at, n \notin page,
         (\E m \in page : n <= m) \/ (n <= watermark /\ Cardinality(page) < pageSize)
  PROVE  n \in Covered \/ (r.offset = NoCursor /\ n \in SkippedTo(r.at))
<1>1. /\ n \in Nat \ {0} /\ Bound \in Nat /\ pageSize \in Nat \ {0} /\ log \in Seq(Groups)
      /\ durable \in [Groups -> Nat \cup {NoCursor}] /\ cursor \in [Groups -> Nat]
      /\ watermark \in Nat /\ watermark <= Bound /\ r.at \in Groups
  BY SessionTypes
<1>2. n <= start
  <2> SUFFICES ASSUME ~(n <= start) PROVE FALSE
    OBVIOUS
  <2>1. n > start
    BY <1>1 DEF NoCursor
  <2>2. /\ page \subseteq RowsAfter(r.at, start)
        /\ \A m \in page, k \in RowsAfter(r.at, start) : k <= m => k \in page
        /\ Cardinality(page) < pageSize => page = RowsAfter(r.at, start)
    BY <1>1, PageRows
  <2>3. n <= Bound
    <3>1. ASSUME NEW m \in page, n <= m PROVE n <= Bound
      <4>1. m \in Nat /\ m <= Bound
        BY <1>1, <2>2 DEF RowsAfter
      <4> QED BY <1>1, <3>1, <4>1
    <3>2. n <= watermark => n <= Bound
      BY <1>1
    <3> QED BY <3>1, <3>2
  <2>4. n \in RowsAfter(r.at, start)
    BY <2>1, <2>3 DEF RowsAfter
  <2> QED BY <2>2, <2>4
<1>3. CASE r.offset # NoCursor
  <2>1. n <= r.offset
    BY <1>2, <1>3
  <2>2. Needs(r, n)
    BY <2>1 DEF Needs
  <2> QED BY <2>2
<1>4. CASE r.offset = NoCursor /\ durable[r.at] # NoCursor
  BY <1>2, <1>4 DEF Offset, SessionInv, Cursors, DurableSound
<1>5. CASE r.offset = NoCursor /\ durable[r.at] = NoCursor
  <2>1. n <= cursor[r.at]
    BY <1>2, <1>5 DEF Offset
  <2> QED BY <1>5, <2>1 DEF SkippedTo, Covered
<1> QED BY <1>3, <1>4, <1>5

\* catchUp, one page: it leaves nothing out, and the last of a group nothing resolved.
LEMMA CatchUpKeeps ==
  ASSUME SessionInv, NEW s \in Subs, CatchUp(s)
  PROVE  SessionInv'
<1> DEFINE r == sub[s]
           g == r.at
<1>1. /\ UNCHANGED <<active, server>> /\ gate' = gate /\ r.phase = "rebase" /\ g <= r.groups
      /\ r.todo = {} /\ r.half = 0 /\ durable' = durable
      /\ escaped' = (IF r.offset = NoCursor THEN escaped \cup SkippedTo(g) ELSE escaped)
      /\ applied' = applied
  BY DEF CatchUp
<1>2. /\ r \in LoopType /\ LoopForm(r) /\ gate \in BOOLEAN /\ (active = s /\ Rebases(r) => ~gate)
      /\ \A n \in DOMAIN log : Needs(r, n) \/ Carries(r, n) => n \in Covered
  BY LoopFacts
<1>3. /\ log \in Seq(Groups) /\ Bound \in Nat /\ pageSize \in Nat \ {0} /\ Len(log) \in Nat
      /\ Bound <= Len(log)
      /\ durable \in [Groups -> Nat \cup {NoCursor}] /\ cursor \in [Groups -> Nat]
      /\ \A n \in DOMAIN log : n \in Nat \ {0} /\ log[n] \in Nat
      /\ \A h \in Groups : durable[h] <= Len(log)
  BY SessionTypes, GroupsAreNumbers
<1>4. g \in Groups /\ r.groups \in Nat /\ g \in Nat /\ r.stream = <<>> /\ r.call = "no"
  <2>1. r.groups \in Groups /\ NGroups \in Nat /\ g \in 1..(r.groups + 1)
    BY <1>1, <1>2 DEF LoopForm, PageForm, LoopType, SessionInv, SessionType
  <2>2. g \in Groups /\ r.groups \in Nat /\ g \in Nat
    BY <1>1, <2>1 DEF Groups
  <2>3. r.stream = <<>> /\ r.call = "no"
    BY <1>1, <1>2 DEF LoopForm, CallForm, Streams
  <2> QED BY <2>2, <2>3
<1>5. Grows /\ (r.offset = NoCursor => \A n \in SkippedTo(g) : n \in Covered')
  BY <1>1 DEF Grows, Covered
<1>6. PICK start \in Nat \cup {NoCursor} : start = IF r.offset = NoCursor THEN Offset(g) ELSE r.offset
  <2>1. Offset(g) \in Nat \cup {NoCursor} /\ r.offset \in Nat \cup {NoCursor}
    BY <1>2, <1>3, <1>4 DEF Offset, LoopType
  <2> QED BY <2>1
<1>7. PICK page : page = PageAfter(g, start)
  OBVIOUS
<1>8. /\ page \subseteq Nat /\ page \subseteq RowsAfter(g, start)
      /\ Cardinality(page) \in Nat
      /\ page = {} => Cardinality(page) < pageSize
      /\ page # {} => Max(page) \in page /\ \A n \in page : n <= Max(page)
  BY <1>3, <1>4, <1>7, PageRows
<1>9. PICK to \in Nat \cup {NoCursor} : to = IF Cardinality(page) < pageSize THEN NoCursor ELSE Max(page)
  BY <1>8
<1>10. PICK p \in LoopType : p = [r EXCEPT !.todo = page, !.offset = to]
  <2> HIDE DEF r
  <2> QED BY <1>2, <1>8 DEF LoopType
<1>11. IF page = {}
       THEN Loop(s, NextGroup(p)) /\ cursor' = [cursor EXCEPT ![g] = Max2(@, durable[g])]
       ELSE Loop(s, p) /\ UNCHANGED cursor
  BY <1>6, <1>7, <1>9, <1>10 DEF CatchUp, Followed
<1> HIDE DEF r, g
<1>12. /\ p.phase = "rebase" /\ p.cancelled = r.cancelled /\ p.groups = r.groups /\ p.at = g
       /\ p.offset = to /\ p.todo = page /\ p.half = 0 /\ p.stream = <<>> /\ p.call = "no"
  BY <1>1, <1>2, <1>4, <1>10 DEF LoopType, g
<1>13. ASSUME NEW n \in DOMAIN log, log[n] = g, n \notin page,
              (\E m \in page : n <= m) \/ (n <= watermark /\ Cardinality(page) < pageSize)
       PROVE  n \in Covered'
  <2>1. n \in Covered \/ (r.offset = NoCursor /\ n \in SkippedTo(g))
    BY <1>1, <1>2, <1>6, <1>7, <1>13, PageNeeds DEF g
  <2> QED BY <1>5, <2>1 DEF Grows
<1>14. ASSUME NEW n \in DOMAIN log, n <= watermark, ~r.cancelled, log[n] < g
       PROVE  n \in Covered'
  <2>1. Needs(r, n)
    BY <1>1, <1>14 DEF Needs, g
  <2> QED BY <1>2, <1>5, <2>1 DEF Grows
<1>15. ASSUME NEW q \in LoopType, sub' = [sub EXCEPT ![s] = q], q.phase = "rebase",
              q.cancelled = r.cancelled, q.stream = <<>>, LoopForm(q),
              \A n \in DOMAIN log : Needs(q, n) \/ Carries(q, n) => n \in Covered'
       PROVE  SessionType' /\ Loops' /\ ~CaughtUp(q)
  <2>1. gate' \in BOOLEAN /\ (active # s /\ gate' => gate) /\ (active = s /\ Rebases(q) => ~gate')
    BY <1>1, <1>2 DEF Rebases
  <2>2. Follows(q, sub[s]) /\ Narrows(q, sub[s]) /\ q.cancelled = sub[s].cancelled /\ Kept(s) /\ ~CaughtUp(q)
    BY <1>1, <1>5, <1>15, GrowsKeeps DEF Follows, Narrows, Streams, r, CaughtUp
  <2>3. SessionType' /\ Loops'
    BY <1>1, <1>15, <2>1, <2>2, LoopKeeps
  <2> QED BY <2>2, <2>3
<1>16. CASE page = {}
  <2>1. to = NoCursor /\ p.offset = NoCursor
    BY <1>8, <1>9, <1>12, <1>16
  <2>2. PICK q \in LoopType : q = [p EXCEPT !.at = g + 1]
    <3>1. PICK h \in Nat : h = g + 1
      BY <1>4
    <3>2. PICK q \in LoopType : q = [p EXCEPT !.at = h]
      BY DEF LoopType
    <3> QED BY <3>1, <3>2
  <2>3. sub' = [sub EXCEPT ![s] = q]
    BY <1>11, <1>12, <1>16, <2>1, <2>2 DEF Loop, NextGroup
  <2>4. /\ q.phase = "rebase" /\ q.cancelled = r.cancelled /\ q.groups = r.groups /\ q.at = g + 1
        /\ q.offset = NoCursor /\ q.todo = {} /\ q.half = 0 /\ q.stream = <<>> /\ q.call = "no"
    BY <1>12, <1>16, <2>1, <2>2 DEF LoopType
  <2>5. LoopForm(q)
    <3>1. g + 1 \in 1..(r.groups + 1)
      BY <1>1, <1>4
    <3>2. PageForm(q)
      BY <1>3, <2>4, <3>1 DEF PageForm, NoCursor
    <3> QED BY <2>4, <3>2 DEF LoopForm, CallForm, Running, Rebases, Streams
  <2>6. ASSUME NEW n \in DOMAIN log, Needs(q, n) \/ Carries(q, n)
        PROVE  n \in Covered'
    <3>1. n \in Nat \ {0} /\ log[n] \in Nat /\ ~(n <= NoCursor)
      BY <1>3 DEF NoCursor
    <3>2. ~r.cancelled /\ n <= watermark /\ log[n] < g + 1
      BY <2>4, <2>6, <3>1 DEF Needs, Carries, Streams
    <3>3. log[n] < g \/ log[n] = g
      BY <1>4, <3>1, <3>2
    <3>4. Cardinality(page) < pageSize
      BY <1>8, <1>16
    <3> QED BY <1>13, <1>14, <1>16, <3>2, <3>3, <3>4
  <2>7. SessionType' /\ Loops' /\ ~CaughtUp(q)
    <3>1. \A n \in DOMAIN log : Needs(q, n) \/ Carries(q, n) => n \in Covered'
      BY <2>6
    <3> QED BY <1>15, <2>3, <2>4, <2>5, <3>1
  <2>8. Cursors'
    <3>1. PICK d \in Nat \cup {NoCursor} : d = durable[g]
      BY <1>3, <1>4
    <3>2. /\ durable' = [durable EXCEPT ![g] = d] /\ d <= Len(log)
          /\ cursor' = [cursor EXCEPT ![g] = Max2(@, d)]
      BY <1>1, <1>3, <1>4, <1>11, <1>16, <3>1
    <3>3. \A n \in DOMAIN log : log[n] = g /\ n <= d => n \in Covered'
      BY <1>5, <3>1 DEF SessionInv, Cursors, DurableSound, Grows
    <3> QED BY <1>1, <1>4, <1>5, <2>3, <2>7, <3>2, <3>3, CursorMoves
  <2> QED BY <2>7, <2>8 DEF SessionInv
<1>17. CASE page # {}
  <2>1. sub' = [sub EXCEPT ![s] = p] /\ cursor' = cursor
    BY <1>11, <1>17 DEF Loop
  <2>2. LoopForm(p)
    <3>1. g \in 1..(r.groups + 1) /\ ~(g > r.groups)
      BY <1>1, <1>4 DEF Groups
    <3>2. \A n \in page : n \in DOMAIN log /\ log[n] = g /\ n <= Len(log)
      BY <1>8 DEF RowsAfter
    <3>3. to <= Len(log)
      BY <1>3, <1>8, <1>9, <1>17, <3>2 DEF NoCursor
    <3>4. PageForm(p)
      BY <1>12, <3>1, <3>2, <3>3 DEF PageForm
    <3> QED BY <1>12, <3>4 DEF LoopForm, CallForm, Running, Rebases, Streams
  <2>3. ASSUME NEW n \in DOMAIN log, Needs(p, n) \/ Carries(p, n)
        PROVE  n \in Covered'
    <3>1. n \in Nat \ {0} /\ log[n] \in Nat /\ ~(n <= NoCursor) /\ n # 0
      BY <1>3 DEF NoCursor
    <3>2. CASE log[n] = g /\ n \notin page /\ (n <= to \/ \E m \in page : n <= m)
      <4>1. \E m \in page : n <= m
        BY <1>8, <1>9, <1>17, <3>1, <3>2
      <4> QED BY <1>13, <3>2, <4>1
    <3>3. CASE ~r.cancelled /\ n <= watermark /\ log[n] < g
      BY <1>14, <3>3
    <3>4. CASE n <= watermark /\ log[n] = g /\ to = NoCursor /\ n \notin page
      <4>1. Cardinality(page) < pageSize
        <5>1. Max(page) # NoCursor
          BY <1>8, <1>17 DEF NoCursor
        <5> QED BY <1>9, <3>4, <5>1
      <4> QED BY <1>13, <3>4, <4>1
    <3> QED BY <1>12, <2>3, <3>1, <3>2, <3>3, <3>4 DEF Needs, Carries, Streams
  <2>4. SessionType' /\ Loops' /\ ~CaughtUp(p)
    <3>1. \A n \in DOMAIN log : Needs(p, n) \/ Carries(p, n) => n \in Covered'
      BY <2>3
    <3> QED BY <1>12, <1>15, <2>1, <2>2, <3>1
  <2>5. Cursors'
    <3>1. UNCHANGED <<active, server, durable, cursor>>
      BY <1>1, <2>1
    <3> QED BY <1>5, <2>1, <2>4, <3>1, CursorsStay
  <2> QED BY <2>4, <2>5 DEF SessionInv
<1> QED BY <1>16, <1>17


\* _applyAction on the first row of a page, first half: the action is in the log.
LEMMA AppendKeeps ==
  ASSUME SessionInv, NEW s \in Subs, ApplyPage(s), sub[s].half = 0
  PROVE  SessionInv'
<1> DEFINE r == sub[s]
           h == Min(r.todo)
<1>1. /\ UNCHANGED <<active, durable, cursor, server>> /\ gate' = gate /\ r.phase = "rebase"
      /\ r.todo # {} /\ applied' = applied \cup {h} /\ escaped' = escaped
      /\ sub' = [sub EXCEPT ![s] = [r EXCEPT !.half = h]]
  BY DEF ApplyPage, Append1, Loop
<1>2. /\ r \in LoopType /\ LoopForm(r) /\ gate \in BOOLEAN /\ (active = s /\ Rebases(r) => ~gate)
      /\ \A n \in DOMAIN log : Needs(r, n) \/ Carries(r, n) => n \in Covered
  BY LoopFacts
<1>3. h \in r.todo /\ h \in Nat /\ (\A n \in r.todo : h <= n) /\ r.stream = <<>> /\ r.call = "no"
      /\ PageForm(r)
  <2>1. r.todo \in SUBSET Nat
    BY <1>2 DEF LoopType
  <2>2. r.stream = <<>> /\ r.call = "no" /\ PageForm(r)
    BY <1>1, <1>2 DEF LoopForm, CallForm, Streams
  <2> HIDE DEF r
  <2> QED BY <1>1, <2>1, <2>2, MinOf
<1>4. Grows /\ h \in Covered'
  BY <1>1 DEF Grows, Covered
<1> HIDE DEF r, h
<1>5. PICK q \in LoopType : q = [r EXCEPT !.half = h]
  BY <1>2, <1>3 DEF LoopType
<1>6. /\ q.phase = "rebase" /\ q.cancelled = r.cancelled /\ q.groups = r.groups /\ q.at = r.at
      /\ q.offset = r.offset /\ q.todo = r.todo /\ q.half = h /\ q.stream = <<>> /\ q.call = "no"
  BY <1>1, <1>2, <1>3, <1>5 DEF LoopType
<1>7. LoopForm(q)
  <2>1. PageForm(q)
    BY <1>3, <1>6 DEF PageForm
  <2> QED BY <1>6, <2>1 DEF LoopForm, CallForm, Running, Rebases, Streams
<1>8. \A n \in DOMAIN log : Needs(q, n) \/ Carries(q, n) => n \in Covered'
  <2> SUFFICES ASSUME NEW n \in DOMAIN log, Needs(q, n), n # h PROVE n \in Covered
    BY <1>4, <1>6 DEF Carries, Grows
  <2>1. Needs(r, n)
    BY <1>1, <1>6 DEF Needs, Streams
  <2> QED BY <1>2, <2>1
<1>9. Follows(q, r) /\ Narrows(q, r) /\ ~CaughtUp(q)
  BY <1>1, <1>6 DEF Follows, Narrows, Streams, CaughtUp
<1>10. gate' \in BOOLEAN /\ (active = s /\ Rebases(q) => ~gate') /\ (active # s /\ gate' => gate)
  BY <1>1, <1>2 DEF Rebases
<1>11. sub' = [sub EXCEPT ![s] = q]
  BY <1>1, <1>5
<1> QED BY <1>1, <1>4, <1>6, <1>7, <1>8, <1>9, <1>10, <1>11, QuietStep DEF r

\* The second half: the durable cursor of the group moves to the row, with the last row of
\* a page the memory cursor follows, and after the last page the loop turns to the next group.
LEMMA AdvanceKeeps ==
  ASSUME SessionInv, NEW s \in Subs, ApplyPage(s), sub[s].half # 0
  PROVE  SessionInv'
<1> DEFINE r == sub[s]
           h == r.half
           g == r.at
           left == r.todo \ {h}
<1>1. /\ UNCHANGED <<active, server>> /\ gate' = gate /\ r.phase = "rebase" /\ r.todo # {} /\ h # 0
      /\ applied' = applied /\ escaped' = escaped
      /\ durable' = [durable EXCEPT ![g] = Max2(@, h)]
  BY DEF ApplyPage, Advance
<1>2. /\ r \in LoopType /\ LoopForm(r) /\ gate \in BOOLEAN /\ (active = s /\ Rebases(r) => ~gate)
      /\ \A n \in DOMAIN log : Needs(r, n) \/ Carries(r, n) => n \in Covered
  BY LoopFacts
<1>3. /\ durable \in [Groups -> Nat \cup {NoCursor}] /\ cursor \in [Groups -> Nat] /\ Len(log) \in Nat
      /\ \A n \in DOMAIN log : n \in Nat \ {0} /\ log[n] \in Nat /\ n <= Len(log)
      /\ \A i \in Groups : durable[i] <= Len(log)
  BY SessionTypes, GroupsAreNumbers
<1>4. /\ PageForm(r) /\ r.stream = <<>> /\ r.call = "no" /\ h \in r.todo /\ h \in Nat
      /\ \A n \in r.todo : h <= n /\ n \in Nat
  BY <1>1, <1>2 DEF LoopForm, CallForm, PageForm, Streams, LoopType
<1>5. g \in Groups /\ r.groups \in Nat /\ g \in Nat /\ g <= r.groups /\ h \in DOMAIN log /\ log[h] = g
  <2>1. /\ r.groups \in Groups /\ NGroups \in Nat /\ g \in 1..(r.groups + 1) /\ ~(g > r.groups)
        /\ h \in DOMAIN log /\ log[h] = g
    BY <1>1, <1>2, <1>4 DEF PageForm, LoopType, SessionInv, SessionType
  <2> QED BY <2>1 DEF Groups
<1>6. PICK d \in Nat \cup {NoCursor} : d = Max2(durable[g], h) /\ d <= Len(log)
      /\ \A n \in Nat : n <= d => n <= durable[g] \/ n <= h
  BY <1>3, <1>4, <1>5 DEF Max2, NoCursor
<1>7. Grows
  BY <1>1 DEF Grows, Covered
<1>8. left \subseteq Nat /\ (left # {} => \E m \in r.todo : h <= m) /\ (left = {} => r.todo = {h})
  BY <1>4
<1>9. PICK p \in LoopType : p = [r EXCEPT !.half = 0, !.todo = left]
  <2> HIDE DEF r, left
  <2> QED BY <1>2, <1>8 DEF LoopType
<1>10. IF left = {}
       THEN Loop(s, NextGroup(p)) /\ Followed(g, durable'[g])
       ELSE Loop(s, p) /\ UNCHANGED cursor
  BY <1>1, <1>9 DEF ApplyPage
<1> HIDE DEF r, h, g, left
<1>11. /\ p.phase = "rebase" /\ p.cancelled = r.cancelled /\ p.groups = r.groups /\ p.at = g
       /\ p.offset = r.offset /\ p.todo = left /\ p.half = 0 /\ p.stream = <<>> /\ p.call = "no"
  BY <1>1, <1>2, <1>4, <1>9 DEF LoopType, g
<1>12. ASSUME NEW n \in DOMAIN log, log[n] = g, n \notin left,
              n <= h \/ n <= r.offset \/ (\E m \in left : n <= m) \/ (n <= watermark /\ ~r.cancelled /\ r.offset = NoCursor)
       PROVE  n \in Covered'
  <2>1. n = h \/ n \notin r.todo
    BY <1>12 DEF left
  <2>2. n <= h => n = h \/ n \notin r.todo
    BY <2>1
  <2>3. Needs(r, n)
    BY <1>1, <1>4, <1>12, <2>1 DEF Needs, left, g, h
  <2> QED BY <1>2, <1>7, <2>3 DEF Grows
<1>13. ASSUME NEW n \in DOMAIN log, n <= watermark, ~r.cancelled, log[n] < g
       PROVE  n \in Covered'
  <2>1. Needs(r, n)
    BY <1>1, <1>13 DEF Needs, g
  <2> QED BY <1>2, <1>7, <2>1 DEF Grows
<1>14. ASSUME NEW q \in LoopType, sub' = [sub EXCEPT ![s] = q], q.phase = "rebase",
              q.cancelled = r.cancelled, q.stream = <<>>, LoopForm(q),
              \A n \in DOMAIN log : Needs(q, n) \/ Carries(q, n) => n \in Covered',
              cursor' = cursor \/ cursor' = [cursor EXCEPT ![g] = Max2(@, d)]
       PROVE  SessionInv'
  <2>1. gate' \in BOOLEAN /\ (active # s /\ gate' => gate) /\ (active = s /\ Rebases(q) => ~gate')
    BY <1>1, <1>2 DEF Rebases
  <2>2. Follows(q, sub[s]) /\ Narrows(q, sub[s]) /\ q.cancelled = sub[s].cancelled /\ Kept(s) /\ ~CaughtUp(q)
    BY <1>1, <1>7, <1>14, GrowsKeeps DEF Follows, Narrows, Streams, r, CaughtUp
  <2>3. SessionType' /\ Loops'
    BY <1>1, <1>14, <2>1, <2>2, LoopKeeps
  <2>4. \A n \in DOMAIN log : log[n] = g /\ n <= d => n \in Covered'
    <3> SUFFICES ASSUME NEW n \in DOMAIN log, log[n] = g, n <= d PROVE n \in Covered'
      OBVIOUS
    <3>1. CASE n <= durable[g]
      BY <1>7, <3>1 DEF SessionInv, Cursors, DurableSound, Grows
    <3>2. CASE n <= h
      <4>1. n = h \/ n < h
        BY <1>3, <1>4, <3>2
      <4>2. n \notin left
        BY <1>3, <1>4, <4>1 DEF left
      <4> QED BY <1>12, <3>2, <4>2
    <3> QED BY <1>3, <1>6, <3>1, <3>2
  <2>5. durable' = [durable EXCEPT ![g] = d]
    BY <1>1, <1>3, <1>5, <1>6
  <2>6. Cursors'
    BY <1>1, <1>5, <1>6, <1>7, <1>14, <2>2, <2>4, <2>5, CursorMoves
  <2> QED BY <2>3, <2>6 DEF SessionInv
<1>15. CASE left = {} /\ r.offset = NoCursor
  <2>1. PICK q \in LoopType : q = [p EXCEPT !.at = g + 1]
    <3>1. PICK i \in Nat : i = g + 1
      BY <1>5
    <3>2. PICK q \in LoopType : q = [p EXCEPT !.at = i]
      BY DEF LoopType
    <3> QED BY <3>1, <3>2
  <2>2. /\ q.phase = "rebase" /\ q.cancelled = r.cancelled /\ q.groups = r.groups /\ q.at = g + 1
        /\ q.offset = NoCursor /\ q.todo = {} /\ q.half = 0 /\ q.stream = <<>> /\ q.call = "no"
    BY <1>11, <1>15, <2>1 DEF LoopType
  <2>3. sub' = [sub EXCEPT ![s] = q] /\ cursor' = [cursor EXCEPT ![g] = Max2(@, d)]
    <3>1. durable'[g] = d
      BY <1>1, <1>3, <1>5, <1>6
    <3> QED BY <1>10, <1>11, <1>15, <2>1, <3>1 DEF Loop, NextGroup, Followed
  <2>4. LoopForm(q)
    <3>1. g + 1 \in 1..(r.groups + 1)
      BY <1>5
    <3>2. PageForm(q)
      BY <1>3, <2>2, <3>1 DEF PageForm, NoCursor
    <3> QED BY <2>2, <3>2 DEF LoopForm, CallForm, Running, Rebases, Streams
  <2>5. \A n \in DOMAIN log : Needs(q, n) \/ Carries(q, n) => n \in Covered'
    <3> SUFFICES ASSUME NEW n \in DOMAIN log, Needs(q, n) PROVE n \in Covered'
      BY <2>2 DEF Carries
    <3>1. n \in Nat \ {0} /\ log[n] \in Nat /\ ~(n <= NoCursor)
      BY <1>3 DEF NoCursor
    <3>2. ~r.cancelled /\ n <= watermark /\ log[n] < g + 1
      BY <2>2, <3>1 DEF Needs, Streams
    <3>3. log[n] < g \/ log[n] = g
      BY <1>5, <3>1, <3>2
    <3> QED BY <1>12, <1>13, <1>15, <3>2, <3>3
  <2> QED BY <1>14, <2>2, <2>3, <2>4, <2>5
<1>16. CASE ~(left = {} /\ r.offset = NoCursor)
  <2>1. sub' = [sub EXCEPT ![s] = p] /\ (cursor' = cursor \/ cursor' = [cursor EXCEPT ![g] = Max2(@, d)])
    <3>1. durable'[g] = d
      BY <1>1, <1>3, <1>5, <1>6
    <3> QED BY <1>10, <1>11, <1>16, <3>1 DEF Loop, NextGroup, Followed
  <2>2. LoopForm(p)
    <3>1. PageForm(p)
      BY <1>4, <1>5, <1>11 DEF PageForm, left, g
    <3>2. p.todo \subseteq Nat
      BY <1>8, <1>11
    <3> QED BY <1>11, <3>1 DEF LoopForm, CallForm, Running, Rebases, Streams
  <2>3. \A n \in DOMAIN log : Needs(p, n) \/ Carries(p, n) => n \in Covered'
    <3> SUFFICES ASSUME NEW n \in DOMAIN log, Needs(p, n) PROVE n \in Covered'
      BY <1>11 DEF Carries
    <3>1. n # 0
      BY <1>3
    <3>2. \/ /\ log[n] = g /\ n \notin left
             /\ n <= r.offset \/ (\E m \in left : n <= m) \/ (n <= watermark /\ ~r.cancelled /\ r.offset = NoCursor)
          \/ ~r.cancelled /\ n <= watermark /\ log[n] < g
      BY <1>11, <3>1 DEF Needs, Streams
    <3> QED BY <1>12, <1>13, <3>2
  <2> QED BY <1>11, <1>14, <2>1, <2>2, <2>3
<1> QED BY <1>15, <1>16

LEMMA ApplyPageKeeps ==
  ASSUME SessionInv, NEW s \in Subs, ApplyPage(s)
  PROVE  SessionInv'
BY AppendKeeps, AdvanceKeeps

-----------------------------------------------------------------------------
(* A stale cursor *)

\* The first cursor is the server's resume point, of which only the Action stored there
\* may be missing.
LEMMA StaleCursorKeeps ==
  ASSUME SessionInv, NEW s \in Subs, StaleCursor(s)
  PROVE  SessionInv'
<1> DEFINE r == sub[s]
           from == watermark + 1
<1>1. /\ UNCHANGED <<active, server>> /\ gate' = gate /\ r.phase = "opening" /\ r.offset > watermark
      /\ applied' = applied /\ escaped' = escaped \cup {n \in {from} \ applied : log[n] <= r.groups}
      /\ durable' = durable /\ cursor' = [cursor EXCEPT ![1] = from]
  BY DEF StaleCursor
<1>2. /\ r \in LoopType /\ LoopForm(r) /\ gate \in BOOLEAN
      /\ \A n \in DOMAIN log : Needs(r, n) \/ Carries(r, n) => n \in Covered
      /\ (Running(r) /\ ~r.cancelled /\ r.phase # "greeting" => active = s)
  BY LoopFacts
<1>3. /\ durable \in [Groups -> Nat \cup {NoCursor}] /\ cursor \in [Groups -> Nat]
      /\ Len(log) \in Nat /\ watermark \in Nat /\ 1 \in Groups
      /\ (\A n \in DOMAIN log : n \in Nat \ {0} /\ n <= Len(log) /\ log[n] \in Groups)
      /\ (\A g \in Groups : durable[g] <= Len(log) /\ cursor[g] <= Len(log))
      /\ log' = log /\ watermark' = watermark /\ active' = active /\ s # None
  BY <1>1, SessionTypes DEF server
<1>4. /\ r.stream = <<>> /\ r.call = "no" /\ ~r.cancelled /\ active = s /\ r.todo = {} /\ r.half = 0
      /\ r.at \in 1..r.groups /\ r.offset \in 0..Len(log)
  BY <1>1, <1>2 DEF LoopForm, CallForm, Running, Rebases, Streams
<1>5. from \in Nat /\ from <= Len(log) /\ r.groups \in Groups /\ (\A n \in Nat : n <= from => n <= watermark \/ n = from)
  BY <1>1, <1>2, <1>3, <1>4 DEF LoopType
<1>6. Grows
  BY <1>1 DEF Grows, Covered
<1> HIDE DEF from
<1>7. PICK q \in LoopType : q = [r EXCEPT !.phase = "resuming", !.offset = from]
  <2> HIDE DEF r
  <2> QED BY <1>2, <1>5 DEF LoopType, Phases
<1>8. sub' = [sub EXCEPT ![s] = q]
  BY <1>7 DEF StaleCursor, Loop, from
<1> HIDE DEF r
<1>9. /\ q.phase = "resuming" /\ q.cancelled = r.cancelled /\ q.groups = r.groups /\ q.at = r.at
      /\ q.offset = from /\ q.todo = {} /\ q.half = 0 /\ q.stream = <<>> /\ q.call = "no"
  BY <1>2, <1>4, <1>7 DEF LoopType
<1>10. LoopForm(q)
  <2>1. from \in 0..Len(log)
    BY <1>3, <1>5
  <2> QED BY <1>4, <1>9, <2>1 DEF LoopForm, CallForm, Running, Rebases, Streams
<1>11. ASSUME NEW n \in DOMAIN log, n <= from, log[n] <= r.groups
       PROVE  n \in Covered'
  <2>1. CASE n = from
    BY <1>1, <1>11, <2>1 DEF Covered
  <2>2. CASE n <= watermark
    <3>1. Needs(r, n)
      BY <1>1, <1>4, <1>11, <2>2 DEF Needs
    <3> QED BY <1>2, <1>6, <3>1 DEF Grows
  <2> QED BY <1>3, <1>5, <1>11, <2>1, <2>2
<1>12. \A n \in DOMAIN log : Needs(q, n) \/ Carries(q, n) => n \in Covered'
  BY <1>9, <1>11 DEF Needs, Carries, Streams
<1>13. Follows(q, sub[s]) /\ Narrows(q, sub[s]) /\ q.cancelled = sub[s].cancelled /\ Kept(s) /\ ~CaughtUp(q)
       /\ ~Rebases(q)
  BY <1>1, <1>6, <1>9, GrowsKeeps DEF Follows, Narrows, Streams, r, CaughtUp, Rebases
<1>14. SessionType' /\ Loops'
  <2>1. gate' \in BOOLEAN /\ (active # s /\ gate' => gate)
    BY <1>1, <1>2
  <2> QED BY <1>1, <1>8, <1>10, <1>12, <1>13, <2>1, LoopKeeps
<1>15. CursorForm' /\ DurableSound'
  <2>1. CursorForm'
    <3>1. cursor' \in [Groups -> Nat] /\ \A g \in Groups : cursor'[g] <= Len(log)
      BY <1>1, <1>3, <1>5
    <3> QED BY <1>1, <1>3, <3>1 DEF CursorForm
  <2>2. DurableSound'
    BY <1>1, <1>3, <1>6 DEF SessionInv, Cursors, DurableSound, Grows
  <2> QED BY <2>1, <2>2
<1>16. MemorySound'
  <2> SUFFICES ASSUME NEW n \in DOMAIN log, n <= cursor'[log[n]], n > watermark
               PROVE  n \in Covered'
    <3>1. sub'[active] = q /\ active # None
      BY <1>3, <1>4, <1>8, SessionTypes
    <3> QED BY <1>3, <1>9, <3>1 DEF MemorySound
  <2>1. CASE log[n] = 1
    <3>1. n <= from
      BY <1>1, <1>3, <2>1
    <3>2. 1 <= r.groups
      <4>1. r.groups \in Nat \ {0}
        BY <1>5, SessionTypes, Zenon
      <4> QED BY <4>1
    <3> QED BY <1>11, <2>1, <3>1, <3>2
  <2>2. CASE log[n] # 1
    <3>1. n <= cursor[log[n]]
      BY <1>1, <1>3, <2>2
    <3> QED BY <1>6, <3>1 DEF SessionInv, Cursors, MemorySound, Grows
  <2> QED BY <2>1, <2>2
<1> QED BY <1>14, <1>15, <1>16 DEF SessionInv, Cursors

\* The durable cursor of a group follows, and the memory cursor of the next; after the
\* last the connection is over.
LEMMA ResumesKeeps ==
  ASSUME SessionInv, NEW s \in Subs, Resumes(s)
  PROVE  SessionInv'
<1> DEFINE r == sub[s]
           at == r.at
<1>1. /\ UNCHANGED <<active, server>> /\ r.phase = "resuming"
      /\ applied' = applied /\ escaped' = escaped /\ durable' = [durable EXCEPT ![at] = r.offset]
  BY DEF Resumes
<1>2. /\ r \in LoopType /\ LoopForm(r) /\ gate \in BOOLEAN
      /\ \A n \in DOMAIN log : Needs(r, n) \/ Carries(r, n) => n \in Covered
  BY LoopFacts
<1>3. /\ durable \in [Groups -> Nat \cup {NoCursor}] /\ cursor \in [Groups -> Nat]
      /\ Len(log) \in Nat /\ watermark \in Nat /\ Groups \subseteq Nat
      /\ (\A n \in DOMAIN log : n \in Nat \ {0} /\ n <= Len(log) /\ log[n] \in Groups)
      /\ (\A g \in Groups : durable[g] <= Len(log) /\ cursor[g] <= Len(log))
      /\ log' = log /\ watermark' = watermark /\ active' = active
      /\ active \in Subs \cup {None} /\ None \notin Subs /\ sub \in [Subs -> LoopType]
  BY <1>1, SessionTypes, GroupsAreNumbers DEF server
<1>4. /\ r.stream = <<>> /\ r.call = "no" /\ r.todo = {} /\ r.half = 0
      /\ r.at \in 1..r.groups /\ r.offset \in 0..Len(log) /\ r.groups \in Groups
  BY <1>1, <1>2 DEF LoopForm, CallForm, Running, Rebases, Streams, LoopType
<1>5. r.offset \in Nat /\ r.offset <= Len(log) /\ at \in Groups /\ at \in Nat /\ (at < r.groups => at + 1 \in Groups)
      /\ at <= r.groups
  <2>1. NGroups \in Nat
    BY DEF SessionInv, SessionType
  <2> QED BY <1>3, <1>4, <2>1 DEF Groups
<1>6. Grows
  BY <1>1 DEF Grows, Covered
<1> HIDE DEF r, at
<1>7. ASSUME NEW n \in DOMAIN log, n <= r.offset, log[n] <= r.groups
      PROVE  n \in Covered
  BY <1>1, <1>2, <1>7 DEF Needs
<1>8. Running(r) /\ r.phase # "greeting" /\ Kept(s)
  BY <1>1, <1>6, GrowsKeeps DEF Running
<1>9. CASE ~(at < r.groups)
  <2>1. Disconnected(s) /\ cursor' = cursor
    BY <1>9 DEF Resumes, r, at
  <2>2. PICK q : /\ Ends(r, q) /\ sub' = [sub EXCEPT ![s] = q]
                 /\ gate' \in BOOLEAN /\ (active # s /\ gate' => gate)
    BY <1>8, <2>1, DisconnectedEnds DEF r
  <2>3. SessionType' /\ Loops'
    BY <1>1, <1>8, <2>2, EndsKeeps DEF r
  <2>4. Cursors'
    <3>1. q \in LoopType /\ ~CaughtUp(q)
      BY <2>2 DEF Ends, CaughtUp
    <3>2. \A n \in DOMAIN log : log[n] = at /\ n <= r.offset => n \in Covered'
      BY <1>5, <1>6, <1>7 DEF Grows
    <3>3. r.offset \in Nat \cup {NoCursor}
      BY <1>5
    <3> QED BY <1>1, <1>5, <1>6, <2>1, <2>2, <3>1, <3>2, <3>3, CursorMoves
  <2> QED BY <2>3, <2>4 DEF SessionInv
<1>10. CASE at < r.groups
  <2>1. PICK i \in Nat : i = at + 1 /\ i \in Groups /\ i <= r.groups
    <3>1. r.groups \in Nat
      BY <1>3, <1>4
    <3> QED BY <1>5, <1>10, <3>1
  <2>2. PICK q \in LoopType : q = [r EXCEPT !.at = i]
    BY <1>2 DEF LoopType
  <2>3. sub' = [sub EXCEPT ![s] = q] /\ cursor' = [cursor EXCEPT ![i] = r.offset] /\ gate' = gate
    BY <1>10, <2>1, <2>2 DEF Resumes, Loop, r, at
  <2>4. /\ q.phase = "resuming" /\ q.cancelled = r.cancelled /\ q.groups = r.groups /\ q.at = i
        /\ q.offset = r.offset /\ q.todo = {} /\ q.half = 0 /\ q.stream = <<>> /\ q.call = "no"
    BY <1>1, <1>2, <1>4, <2>2 DEF LoopType
  <2>5. LoopForm(q)
    <3>1. i \in 1..r.groups
      BY <1>3, <1>4, <1>5, <2>1
    <3> QED BY <1>1, <1>2, <1>4, <2>4, <3>1 DEF LoopForm, CallForm, Running, Rebases, Streams
  <2>6. \A n \in DOMAIN log : Needs(q, n) \/ Carries(q, n) => n \in Covered'
    BY <1>6, <1>7, <2>4 DEF Needs, Carries, Streams, Grows
  <2>7. SessionType' /\ Loops'
    <3>1. Follows(q, sub[s]) /\ Narrows(q, sub[s]) /\ q.cancelled = sub[s].cancelled /\ ~Rebases(q)
      BY <1>1, <2>4 DEF Follows, Narrows, Streams, r, Rebases
    <3>2. gate' \in BOOLEAN /\ (active # s /\ gate' => gate)
      BY <1>2, <2>3
    <3> QED BY <1>1, <1>8, <2>3, <2>5, <2>6, <3>1, <3>2, LoopKeeps
  <2>8. CursorForm'
    <3>1. durable' \in [Groups -> Nat \cup {NoCursor}] /\ cursor' \in [Groups -> Nat]
      BY <1>1, <1>3, <1>5, <2>3
    <3>2. \A g \in Groups : durable'[g] <= Len(log) /\ cursor'[g] <= Len(log)
      BY <1>1, <1>3, <1>5, <2>3
    <3> QED BY <1>3, <3>1, <3>2 DEF CursorForm
  <2>9. DurableSound'
    <3> SUFFICES ASSUME NEW n \in DOMAIN log, n <= durable'[log[n]] PROVE n \in Covered'
      BY <1>3 DEF DurableSound
    <3>1. CASE log[n] = at
      BY <1>1, <1>3, <1>5, <1>6, <1>7, <3>1 DEF Grows
    <3>2. CASE log[n] # at
      BY <1>1, <1>3, <1>6, <3>2 DEF SessionInv, Cursors, DurableSound, Grows
    <3> QED BY <3>1, <3>2
  <2>10. MemorySound'
    <3> SUFFICES ASSUME NEW n \in DOMAIN log, n <= cursor'[log[n]]
                 PROVE  /\ n > watermark => n \in Covered'
                        /\ active # None /\ sub'[active].phase \in {"opening", "live"}
                             /\ log[n] <= sub'[active].groups => n \in Covered'
      BY <1>3 DEF MemorySound
    <3>1. CASE log[n] = i
      BY <1>3, <1>6, <1>7, <2>1, <2>3, <3>1 DEF Grows
    <3>2. CASE log[n] # i
      <4>1. n <= cursor[log[n]] /\ MemorySound
        BY <1>3, <2>3, <3>2 DEF SessionInv, Cursors
      <4>2. CASE active = s
        <5>1. sub'[active] = q
          BY <1>3, <2>3, <4>2
        <5> QED BY <1>6, <2>4, <4>1, <5>1 DEF MemorySound, Grows
      <4>3. CASE active # s
        <5>1. active # None => sub'[active] = sub[active]
          BY <1>3, <2>3, <4>3
        <5> QED BY <1>6, <4>1, <5>1 DEF MemorySound, Grows
      <4> QED BY <4>2, <4>3
    <3> QED BY <3>1, <3>2
  <2> QED BY <2>7, <2>8, <2>9, <2>10 DEF SessionInv, Cursors
<1> QED BY <1>9, <1>10

-----------------------------------------------------------------------------
(* The server, and the page *)

\* A commit is stored above everything any loop, cursor or answer holds.
LEMMA CommitKeeps ==
  ASSUME SessionInv, NEW g \in Groups, Commit(g)
  PROVE  SessionInv'
<1>1. /\ log' = Append(log, g)
      /\ UNCHANGED <<active, sub, gate, applied, durable, cursor, watermark, members, pageSize, escaped>>
  BY DEF Commit, cursors
<1>2. /\ log \in Seq(Groups) /\ Len(log) \in Nat /\ watermark \in Nat /\ watermark <= Len(log)
      /\ DOMAIN log = 1..Len(log) /\ durable \in [Groups -> Nat \cup {NoCursor}]
      /\ cursor \in [Groups -> Nat] /\ \A h \in Groups : durable[h] <= Len(log) /\ cursor[h] <= Len(log)
  BY SessionTypes
<1>3. /\ log' \in Seq(Groups) /\ Len(log') = Len(log) + 1 /\ Len(log') \in Nat /\ Len(log) <= Len(log')
      /\ DOMAIN log' = 1..(Len(log) + 1)
      /\ (\A n \in DOMAIN log : n \in DOMAIN log' /\ log'[n] = log[n])
      /\ \A n \in DOMAIN log' : n \in Nat /\ log'[n] \in Groups /\ (n \in DOMAIN log \/ n = Len(log) + 1)
  BY <1>1, <1>2
<1>4. Covered' = Covered
  BY <1>1 DEF Covered
<1>5. SessionType'
  BY <1>1, <1>2, <1>3 DEF SessionInv, SessionType
<1>6. CursorForm'
  <2>1. ASSUME NEW h \in Groups PROVE durable[h] <= Len(log') /\ cursor[h] <= Len(log')
    <3>1. durable[h] \in Int /\ cursor[h] \in Int /\ durable[h] <= Len(log) /\ cursor[h] <= Len(log)
      BY <1>2 DEF NoCursor
    <3> QED BY <1>2, <1>3, <3>1
  <2> QED BY <1>1, <1>2, <2>1 DEF CursorForm
<1>7. DurableSound' /\ MemorySound'
  <2>1. ASSUME NEW n \in DOMAIN log', n = Len(log) + 1
        PROVE  ~(n <= durable[log'[n]]) /\ ~(n <= cursor[log'[n]])
    <3>1. PICK h \in Groups : h = log'[n]
      BY <1>3
    <3>2. durable[h] <= Len(log) /\ cursor[h] <= Len(log) /\ durable[h] \in Int /\ cursor[h] \in Int
      BY <1>2 DEF NoCursor
    <3> QED BY <1>2, <2>1, <3>1, <3>2
  <2>2. DurableSound'
    BY <1>1, <1>3, <1>4, <2>1 DEF SessionInv, Cursors, DurableSound
  <2>3. MemorySound'
    BY <1>1, <1>3, <1>4, <2>1 DEF SessionInv, Cursors, MemorySound
  <2> QED BY <2>2, <2>3
<1>8. ASSUME NEW s \in Subs PROVE LoopForm(sub[s])'
  <2>1. PICK r \in LoopType : r = sub[s] /\ LoopForm(r)
    BY LoopFacts
  <2>2. CallForm(r)'
    <3>1. \A c \in Int : c <= Len(log) => c <= Len(log')
      BY <1>2, <1>3
    <3>2. \A h \in Groups : r.sent[h] \in Int
      BY DEF LoopType, NoCursor, Rejected
    <3> QED BY <1>1, <2>1, <3>1, <3>2 DEF LoopForm, CallForm, Streams
  <2>3. r.phase = "rebase" => PageForm(r)'
    <3>1. r.offset \in Int /\ (r.offset <= Len(log) => r.offset <= Len(log'))
      BY <1>2, <1>3 DEF LoopType, NoCursor
    <3> QED BY <1>1, <1>3, <2>1, <3>1 DEF LoopForm, PageForm
  <2>4. Streams(r) => StreamForm(r)'
    BY <1>1, <2>1 DEF LoopForm, StreamForm
  <2>5. r.offset \in 0..Len(log) => r.offset \in 0..Len(log')
    BY <1>2, <1>3
  <2>6. LoopForm(r)'
    BY <1>1, <2>1, <2>2, <2>3, <2>4, <2>5 DEF LoopForm, Running, Rebases, Streams
  <2> QED BY <1>1, <2>1, <2>6
<1>9. ASSUME NEW s \in Subs, NEW n \in DOMAIN log', (Needs(sub[s], n) \/ Carries(sub[s], n))'
      PROVE  n \in Covered
  <2>1. PICK r \in LoopType : /\ r = sub[s] /\ LoopForm(r)
                              /\ \A i \in DOMAIN log : Needs(r, i) \/ Carries(r, i) => i \in Covered
    BY LoopFacts
  <2>2. (Needs(r, n) \/ Carries(r, n))'
    BY <1>1, <1>9, <2>1
  <2>3. CASE n \in DOMAIN log
    <3>1. Needs(r, n) \/ Carries(r, n)
      BY <1>1, <1>3, <2>2, <2>3 DEF Needs, Carries, Streams, Sent
    <3> QED BY <2>1, <2>3, <3>1
  <2>4. CASE n = Len(log) + 1
    <3>1. ~Carries(r, n)'
      <4> SUFFICES ASSUME r.call # "no" PROVE ~(n <= r.sent[log'[n]])
        BY <1>1 DEF Carries
      <4>1. PICK h \in Groups : h = log'[n]
        BY <1>3
      <4>2. r.sent[h] <= Len(log) /\ r.sent[h] \in Int
        BY <2>1 DEF LoopForm, CallForm, LoopType, NoCursor, Rejected
      <4> QED BY <1>2, <2>4, <4>1, <4>2
    <3>2. ~(n <= watermark) /\ \A c \in Int : c <= Len(log) => ~(n <= c) /\ n # c
      BY <1>2, <2>4
    <3>3. CASE r.phase = "rebase"
      <4>1. /\ \A m \in r.todo : m \in Int /\ m <= Len(log)
            /\ r.half # 0 => r.half \in r.todo
        BY <1>2, <2>1, <3>3 DEF LoopForm, PageForm
      <4>2. r.offset \in Int /\ r.offset <= Len(log) /\ n # 0
        BY <1>2, <2>1, <2>4, <3>3 DEF LoopForm, PageForm, LoopType, NoCursor
      <4>3. ~Needs(r, n)'
        BY <1>1, <3>2, <3>3, <4>1, <4>2 DEF Needs, Streams
      <4> QED BY <2>2, <3>1, <4>3
    <3>4. CASE Streams(r)
      <4>1. r.half \in Int /\ r.half <= Len(log)
        <5>1. r.half \in Nat /\ (r.half # 0 => r.half <= watermark)
          BY <2>1, <3>4 DEF LoopForm, StreamForm, LoopType
        <5> QED BY <1>2, <5>1
      <4>2. \A i \in DOMAIN r.stream : ~(n <= r.stream[i])
        <5>1. \A i \in DOMAIN r.stream : r.stream[i] \in Nat /\ r.stream[i] <= watermark
          BY <2>1, <3>4 DEF LoopForm, StreamForm, LoopType
        <5> QED BY <1>2, <2>4, <5>1
      <4>3. ~Needs(r, n)'
        BY <1>1, <3>2, <3>4, <4>1, <4>2 DEF Needs, Streams
      <4> QED BY <2>2, <3>1, <4>3
    <3>5. CASE r.phase # "rebase" /\ ~Streams(r)
      <4>1. r.phase = "resuming" => r.offset \in Int /\ r.offset <= Len(log)
        BY <1>2, <2>1 DEF LoopForm
      <4>2. ~Needs(r, n)'
        BY <1>1, <3>2, <3>5, <4>1 DEF Needs, Streams
      <4> QED BY <2>2, <3>1, <4>2
    <3> QED BY <3>3, <3>4, <3>5
  <2> QED BY <1>3, <2>3, <2>4
<1>10. LoopForms' /\ LoopsSound'
  BY <1>1, <1>4, <1>8, <1>9 DEF LoopForms, LoopsSound
<1>11. OneLoop' /\ RebaseHoldsGate' /\ LastEventBehind'
  BY <1>1 DEF SessionInv, Loops, OneLoop, RebaseHoldsGate, LastEventBehind
<1> QED BY <1>5, <1>6, <1>7, <1>10, <1>11 DEF SessionInv, Cursors, Loops

LEMMA AppendOf ==
  ASSUME NEW t \in Seq(Nat), NEW e \in Nat
  PROVE  /\ Append(t, e) \in Seq(Nat) /\ Len(t) \in Nat
         /\ \A i \in DOMAIN t : i \in Nat /\ i < Len(t) + 1 /\ i \in DOMAIN Append(t, e) /\ Append(t, e)[i] = t[i]
         /\ \A i \in DOMAIN Append(t, e) :
              i \in Nat /\ (i \in DOMAIN t \/ (i = Len(t) + 1 /\ Append(t, e)[i] = e))
         /\ Len(t) + 1 \in DOMAIN Append(t, e) /\ Append(t, e)[Len(t) + 1] = e
OBVIOUS

LEMMA AppendSent ==
  ASSUME NEW r, NEW q, NEW e \in Nat, r.stream \in Seq(Nat), q.stream = Append(r.stream, e)
  PROVE  /\ (\A n \in Nat : Sent(r, n) => Sent(q, n)) /\ Sent(q, e)
         /\ \A i \in DOMAIN q.stream : q.stream[i] = e \/ Sent(r, q.stream[i])
<1>1. PICK t \in Seq(Nat) : t = r.stream
  OBVIOUS
<1>2. /\ \A i \in DOMAIN t : i \in DOMAIN Append(t, e) /\ Append(t, e)[i] = t[i]
      /\ \A i \in DOMAIN Append(t, e) : i \in DOMAIN t \/ Append(t, e)[i] = e
      /\ Len(t) + 1 \in DOMAIN Append(t, e) /\ Append(t, e)[Len(t) + 1] = e
  BY AppendOf
<1> QED BY <1>1, <1>2 DEF Sent

\* The server puts the event e at the end of an open stream.
LEMMA PushedTo ==
  ASSUME NEW r \in LoopType, NEW e \in Nat, r.phase = "live", ~r.cancelled, LoopForm(r),
         log \in Seq(Groups), watermark \in Nat, watermark' \in Nat, log' = log,
         (e = WakeUp /\ watermark' = watermark) \/ (e = watermark + 1 /\ watermark' = e),
         NEW q, q = [r EXCEPT !.stream = Append(@, e)]
  PROVE  LoopForm(q)'
<1>1. r.stream \in Seq(Nat) /\ r.half \in Nat /\ Streams(r) /\ StreamForm(r)
  BY DEF LoopType, LoopForm, Streams
<1>2. PICK z \in Seq(Nat) : z = Append(r.stream, e)
  BY <1>1, AppendOf
<1>3. q \in LoopType /\ q = [r EXCEPT !.stream = z]
  BY <1>2 DEF LoopType
<1>4. /\ q.phase = r.phase /\ q.groups = r.groups /\ q.half = r.half /\ q.cancelled = r.cancelled
      /\ q.stream = z /\ q.call = r.call /\ q.sent = r.sent /\ q.at = r.at /\ q.offset = r.offset
      /\ q.todo = r.todo
  BY <1>3 DEF LoopType
<1>5. /\ \A i \in DOMAIN r.stream : i \in DOMAIN z /\ z[i] = r.stream[i]
      /\ \A i \in DOMAIN z : i \in Nat /\ (i \in DOMAIN r.stream \/ (i = Len(r.stream) + 1 /\ z[i] = e))
      /\ \A i \in DOMAIN r.stream : i \in Nat /\ i < Len(r.stream) + 1
      /\ Len(r.stream) + 1 \in DOMAIN z /\ z[Len(r.stream) + 1] = e /\ Len(r.stream) \in Nat
  BY <1>1, <1>2, AppendOf
<1>6. \A i \in DOMAIN r.stream : r.stream[i] <= watermark /\ r.stream[i] \in Nat
  BY <1>1 DEF StreamForm
<1>7. StreamForm(q)'
  <2>1. watermark <= watermark'
    OBVIOUS
  <2>2. ASSUME NEW i \in DOMAIN z PROVE z[i] <= watermark'
    BY <1>5, <1>6, <2>1, SMTT(30) DEF WakeUp
  <2>3. ASSUME NEW i \in DOMAIN z, NEW j \in DOMAIN z, i < j, z[i] # WakeUp, z[j] # WakeUp
        PROVE  z[i] < z[j]
    <3>1. i \in DOMAIN r.stream
      BY <1>5, <2>3, <1>1, SMTT(30)
    <3>2. CASE j \in DOMAIN r.stream
      BY <1>1, <1>5, <2>3, <3>1, <3>2 DEF StreamForm
    <3>3. CASE j \notin DOMAIN r.stream
      BY <1>5, <1>6, <2>3, <3>1, <3>3, SMTT(30)
    <3> QED BY <3>2, <3>3
  <2>4. ASSUME r.half # 0
        PROVE  r.half <= watermark' /\ \A i \in DOMAIN z : z[i] # WakeUp => r.half < z[i]
    <3>1. r.half <= watermark
      BY <1>1, <2>4 DEF StreamForm
    <3>2. ASSUME NEW i \in DOMAIN z, z[i] # WakeUp PROVE r.half < z[i]
      <4>1. CASE i \in DOMAIN r.stream
        BY <1>1, <1>5, <2>4, <3>2, <4>1 DEF StreamForm
      <4>2. CASE i \notin DOMAIN r.stream
        BY <1>1, <1>5, <3>1, <3>2, <4>2, SMTT(30)
      <4> QED BY <4>1, <4>2
    <3> QED BY <1>1, <2>1, <3>1, <3>2
  <2> QED BY <1>4, <2>2, <2>3, <2>4 DEF StreamForm
<1>8. CallForm(q)'
  <2>1. \A c \in Int : c <= watermark => c <= watermark'
    OBVIOUS
  <2>2. \A h \in Groups : r.sent[h] \in Int
    BY DEF LoopType, NoCursor, Rejected
  <2> QED BY <1>1, <1>4, <2>1, <2>2 DEF LoopForm, CallForm, Streams
<1>9. LoopForm(q)'
  BY <1>1, <1>4, <1>7, <1>8 DEF LoopForm, Running, Rebases, Streams
<1> QED BY <1>9

\* The server resolves its next commit, or tells of a group the actor has joined: every
\* open stream that it concerns gets one event.
LEMMA PushKeeps ==
  ASSUME SessionInv, NEW e \in Nat, NEW k \in Groups, watermark' \in Nat, log' = log, Grows,
         \/ e = WakeUp /\ watermark' = watermark
         \/ e = watermark + 1 /\ watermark' = e /\ e \in DOMAIN log /\ log[e] = k,
         members' \in Groups, UNCHANGED <<active, gate, durable, cursor, pageSize>>,
         e # WakeUp => \A s \in Subs : Drained(sub[s], k) => e \in Covered',
         sub' = [s \in Subs |-> IF Watches(sub[s], k) THEN [sub[s] EXCEPT !.stream = Append(@, e)] ELSE sub[s]]
  PROVE  SessionInv'
<1>1. /\ log \in Seq(Groups) /\ watermark \in Nat /\ Len(log) \in Nat /\ watermark <= Len(log)
      /\ \A n \in DOMAIN log : n \in Nat \ {0} /\ n <= Len(log) /\ log[n] \in Groups
  BY SessionTypes
<1>2. /\ watermark <= watermark' /\ watermark' <= Len(log)
      /\ \A n \in DOMAIN log : n <= watermark' => n <= watermark \/ (n = e /\ e # WakeUp /\ log[n] = k)
      /\ \A c \in Int : c <= watermark => c <= watermark'
  BY <1>1 DEF WakeUp
<1>3. ASSUME NEW t \in Subs, Watches(sub[t], k)
      PROVE  /\ sub'[t] \in LoopType /\ sub[t].phase = "live" /\ ~sub[t].cancelled /\ LoopForm(sub[t])'
             /\ sub'[t].phase = sub[t].phase /\ sub'[t].groups = sub[t].groups
             /\ sub'[t].half = sub[t].half /\ sub'[t].cancelled = sub[t].cancelled
             /\ sub'[t].call = sub[t].call /\ sub'[t].sent = sub[t].sent
             /\ (\A n \in Nat : Sent(sub[t], n) => Sent(sub'[t], n)) /\ Sent(sub'[t], e)
             /\ \A i \in DOMAIN sub'[t].stream : sub'[t].stream[i] = e \/ Sent(sub[t], sub'[t].stream[i])
  <2>1. PICK r \in LoopType : r = sub[t] /\ LoopForm(r)
    BY LoopFacts
  <2>2. r.phase = "live" /\ ~r.cancelled
    BY <1>3, <2>1 DEF Watches
  <2>3. (e = WakeUp /\ watermark' = watermark) \/ (e = watermark + 1 /\ watermark' = e)
    OBVIOUS
  <2>4. PICK q : q = [r EXCEPT !.stream = Append(@, e)]
    OBVIOUS
  <2>5. /\ q \in LoopType /\ LoopForm(q)'
        /\ q.phase = r.phase /\ q.groups = r.groups /\ q.half = r.half /\ q.cancelled = r.cancelled
        /\ q.call = r.call /\ q.sent = r.sent
        /\ (\A n \in Nat : Sent(r, n) => Sent(q, n)) /\ Sent(q, e)
        /\ \A i \in DOMAIN q.stream : q.stream[i] = e \/ Sent(r, q.stream[i])
    <3>1. LoopForm(q)'
      BY <1>1, <2>1, <2>2, <2>3, <2>4, PushedTo
    <3>2. PICK z \in Seq(Nat) : z = Append(r.stream, e)
      <4>1. r.stream \in Seq(Nat)
        BY DEF LoopType
      <4> QED BY <4>1, AppendOf
    <3>3. q \in LoopType /\ q.phase = r.phase /\ q.groups = r.groups /\ q.half = r.half
          /\ q.cancelled = r.cancelled /\ q.call = r.call /\ q.sent = r.sent
      BY <2>4, <3>2 DEF LoopType
    <3>4. r.stream \in Seq(Nat) /\ q.stream = Append(r.stream, e)
      BY <2>4 DEF LoopType
    <3>5. /\ (\A n \in Nat : Sent(r, n) => Sent(q, n)) /\ Sent(q, e)
          /\ \A i \in DOMAIN q.stream : q.stream[i] = e \/ Sent(r, q.stream[i])
      BY <3>4, AppendSent
    <3> QED BY <3>1, <3>3, <3>5
  <2>6. sub'[t] = q
    BY <1>3, <2>1, <2>4
  <2>7. LoopForm(sub[t])'
    BY <2>5, <2>6
  <2> QED BY <2>1, <2>2, <2>5, <2>6, <2>7
<1>4. ASSUME NEW t \in Subs, ~Watches(sub[t], k)
      PROVE  /\ sub'[t] \in LoopType /\ sub'[t] = sub[t] /\ LoopForm(sub[t])'
  <2>1. PICK r \in LoopType : r = sub[t] /\ LoopForm(r)
    BY LoopFacts
  <2>2. sub'[t] = r
    BY <1>4, <2>1
  <2>3. CallForm(r)'
    <3>1. \A h \in Groups : r.sent[h] \in Int
      BY DEF LoopType, NoCursor, Rejected
    <3> QED BY <1>2, <2>1, <3>1 DEF LoopForm, CallForm, Streams
  <2>4. r.phase = "rebase" => PageForm(r)'
    BY <2>1 DEF LoopForm, PageForm
  <2>5. Streams(r) => StreamForm(r)'
    <3> SUFFICES ASSUME StreamForm(r) PROVE StreamForm(r)'
      BY <2>1 DEF LoopForm
    <3>1. r.half \in Int /\ \A i \in DOMAIN r.stream : r.stream[i] \in Int
      BY DEF LoopType
    <3> QED BY <1>2, <3>1 DEF StreamForm
  <2>6. LoopForm(r)'
    BY <2>1, <2>3, <2>4, <2>5 DEF LoopForm, Running, Rebases, Streams
  <2>7. LoopForm(sub[t])'
    BY <2>2, <2>6
  <2> QED BY <2>1, <2>2, <2>7
<1>5. ASSUME NEW t \in Subs
      PROVE  /\ sub'[t] \in LoopType /\ sub'[t].phase = sub[t].phase /\ sub'[t].groups = sub[t].groups
             /\ sub'[t].half = sub[t].half /\ sub'[t].cancelled = sub[t].cancelled
             /\ sub'[t].call = sub[t].call /\ sub'[t].sent = sub[t].sent
             /\ \A i \in DOMAIN sub'[t].stream : sub'[t].stream[i] = e \/ Sent(sub[t], sub'[t].stream[i])
  <2>1. CASE Watches(sub[t], k)
    BY <1>3, <2>1
  <2>2. CASE ~Watches(sub[t], k)
    BY <1>4, <2>2 DEF Sent
  <2> QED BY <2>1, <2>2
<1>6. SessionType'
  BY <1>2, <1>5 DEF SessionInv, SessionType
<1>7. Cursors'
  <2>1. CursorForm' /\ DurableSound'
    BY DEF SessionInv, Cursors, CursorForm, DurableSound, Grows
  <2>2. MemorySound'
    <3> SUFFICES ASSUME NEW n \in DOMAIN log, n <= cursor[log[n]]
                 PROVE  /\ n > watermark' => n \in Covered'
                        /\ active # None /\ sub'[active].phase \in {"opening", "live"}
                             /\ log[n] <= sub'[active].groups => n \in Covered'
      BY DEF MemorySound
    <3>1. MemorySound /\ active \in Subs \cup {None}
      BY DEF SessionInv, Cursors, SessionType
    <3>2. n > watermark' => n > watermark
      BY <1>1, <1>2
    <3>3. active # None => sub'[active].phase = sub[active].phase /\ sub'[active].groups = sub[active].groups
      BY <1>5, <3>1
    <3> QED BY <3>1, <3>2, <3>3 DEF MemorySound, Grows
  <2> QED BY <2>1, <2>2 DEF Cursors
<1>8. LoopForms'
  BY <1>3, <1>4 DEF LoopForms
<1>9. OneLoop' /\ RebaseHoldsGate'
  <2>1. active' = active /\ active \in Subs \cup {None} /\ gate' = gate
    BY DEF SessionInv, SessionType
  <2> QED BY <1>5, <2>1 DEF SessionInv, Loops, OneLoop, RebaseHoldsGate, Running
<1>10. LoopsSound'
  <2> SUFFICES ASSUME NEW t \in Subs, NEW n \in DOMAIN log, (Needs(sub[t], n) \/ Carries(sub[t], n))'
               PROVE  n \in Covered'
    BY DEF LoopsSound
  <2>1. PICK r \in LoopType : /\ r = sub[t] /\ LoopForm(r)
                              /\ \A i \in DOMAIN log : Needs(r, i) \/ Carries(r, i) => i \in Covered
    BY LoopFacts
  <2>2. n \in Nat \ {0}
    BY <1>1
  <2>3. CASE Watches(sub[t], k)
    <3>1. PICK q : q = sub'[t]
      OBVIOUS
    <3>2. /\ q.phase = "live" /\ q.groups = r.groups /\ q.half = r.half /\ ~q.cancelled /\ q.call = r.call
          /\ q.sent = r.sent /\ (\A i \in Nat : Sent(r, i) => Sent(q, i)) /\ Sent(q, e)
          /\ r.phase = "live" /\ ~r.cancelled
      <4>1. /\ sub'[t].phase = "live" /\ sub'[t].groups = sub[t].groups /\ sub'[t].half = sub[t].half
            /\ ~sub'[t].cancelled /\ sub'[t].call = sub[t].call /\ sub'[t].sent = sub[t].sent
            /\ (\A i \in Nat : Sent(sub[t], i) => Sent(sub'[t], i)) /\ Sent(sub'[t], e)
            /\ sub[t].phase = "live" /\ ~sub[t].cancelled
        BY <1>3, <2>3
      <4> QED BY <2>1, <3>1, <4>1
    <3>3. (Needs(q, n) \/ Carries(q, n))'
      BY <3>1
    <3>4. CASE (n <= q.half /\ log[n] = 1) \/ Carries(q, n)
      <4>1. Needs(r, n) \/ Carries(r, n)
        BY <3>2, <3>4 DEF Needs, Carries, Streams
      <4> QED BY <2>1, <4>1 DEF Grows
    <3>5. CASE n <= watermark' /\ log[n] <= q.groups /\ ~Sent(q, n)
      <4>1. n # e
        BY <3>2, <3>5
      <4>2. n <= watermark /\ ~Sent(r, n)
        BY <1>2, <2>2, <3>2, <3>5, <4>1
      <4>3. Needs(r, n)
        BY <3>2, <3>5, <4>2 DEF Needs
      <4> QED BY <2>1, <4>3 DEF Grows
    <3> QED BY <3>2, <3>3, <3>4, <3>5 DEF Needs, Carries, Streams, Sent
  <2>4. CASE ~Watches(sub[t], k)
    <3>1. (Needs(r, n) \/ Carries(r, n))'
      BY <1>4, <2>1, <2>4
    <3>2. CASE Needs(r, n) \/ Carries(r, n)
      BY <2>1, <3>2 DEF Grows
    <3>3. CASE ~(Needs(r, n) \/ Carries(r, n))
      <4>1. ~(n <= watermark) /\ n <= watermark'
        BY <3>1, <3>3 DEF Needs, Carries, Streams, Sent
      <4>2. n = e /\ e # WakeUp /\ log[n] = k
        BY <1>2, <4>1
      <4>3. Drained(r, k)
        BY <2>1, <2>4, <3>1, <3>3, <4>2 DEF Needs, Carries, Streams, Sent, Drained, Watches
      <4> QED BY <2>1, <4>2, <4>3
    <3> QED BY <3>2, <3>3
  <2> QED BY <2>3, <2>4
<1>11. LastEventBehind'
  <2> SUFFICES ASSUME NEW t \in Subs, Streams(sub'[t]), sub'[t].cancelled, active # None, Streams(sub'[active]),
                      NEW i \in DOMAIN sub'[active].stream, sub'[active].stream[i] # WakeUp
               PROVE  sub'[t].half < sub'[active].stream[i]
    BY DEF LastEventBehind
  <2>1. /\ Streams(sub[t]) /\ sub[t].cancelled /\ sub'[t].half = sub[t].half
        /\ LoopForm(sub[t]) /\ sub[t] \in LoopType /\ active \in Subs
    BY <1>5, LoopFacts DEF Streams, SessionInv, SessionType
  <2>2. Streams(sub[active])
    BY <1>5, <2>1 DEF Streams
  <2>3. sub'[active].stream[i] = e \/ Sent(sub[active], sub'[active].stream[i])
    BY <1>5, <2>1
  <2>4. CASE sub'[active].stream[i] = e
    <3>1. sub[t].half \in Nat /\ (sub[t].half = 0 \/ sub[t].half <= watermark)
      BY <2>1 DEF LoopType, LoopForm, StreamForm
    <3>2. e = watermark + 1
      BY <2>4
    <3>3. sub[t].half < e
      BY <1>1, <3>1, <3>2
    <3> QED BY <2>1, <2>4, <3>3
  <2>5. CASE Sent(sub[active], sub'[active].stream[i])
    BY <2>1, <2>2, <2>5 DEF SessionInv, Loops, LastEventBehind, Sent
  <2> QED BY <2>3, <2>4, <2>5
<1> QED BY <1>6, <1>7, <1>8, <1>9, <1>10, <1>11 DEF SessionInv, Loops

LEMMA ResolveKeeps ==
  ASSUME SessionInv, Resolve
  PROVE  SessionInv'
<1> DEFINE e == watermark + 1
<1>1. /\ e \in DOMAIN log /\ e \in Nat /\ e # WakeUp /\ watermark' = e /\ log' = log /\ log[e] \in Groups
      /\ members' \in Groups /\ Grows
      /\ UNCHANGED <<active, gate, durable, cursor, pageSize>>
  BY SessionTypes DEF Resolve, cursors, WakeUp, Grows, Covered
<1>2. \A s \in Subs : Drained(sub[s], log[e]) => e \in Covered'
  BY DEF Resolve, Covered, cursors
<1>3. sub' = [s \in Subs |-> IF Watches(sub[s], log[e]) THEN [sub[s] EXCEPT !.stream = Append(@, e)] ELSE sub[s]]
  BY DEF Resolve
<1> HIDE DEF e
<1>4. watermark' \in Nat /\ (e = watermark + 1 /\ watermark' = e)
  BY <1>1 DEF e
<1> QED BY <1>1, <1>2, <1>3, <1>4, PushKeeps

LEMMA JoinGroupKeeps ==
  ASSUME SessionInv, JoinGroup
  PROVE  SessionInv'
<1>1. /\ watermark' = watermark /\ log' = log /\ Grows /\ 1 \in Groups /\ watermark' \in Nat
      /\ UNCHANGED <<active, gate, durable, cursor, pageSize>>
  BY SessionTypes DEF JoinGroup, cursors, Grows, Covered
<1>2. members' \in Groups
  <2>1. members \in 1..NGroups /\ NGroups \in Nat
    BY DEF SessionInv, SessionType, Groups
  <2> QED BY <2>1 DEF JoinGroup, Groups
<1>3. PICK e \in Nat : e = WakeUp
  BY DEF WakeUp
<1>4. sub' = [s \in Subs |-> IF Watches(sub[s], 1) THEN [sub[s] EXCEPT !.stream = Append(@, e)] ELSE sub[s]]
  BY <1>3 DEF JoinGroup
<1> QED BY <1>1, <1>2, <1>3, <1>4, PushKeeps

\* After a reload no loop runs, and the log holds what the durable cursors claim.
LEMMA ReloadKeeps ==
  ASSUME SessionInv, Reload
  PROVE  SessionInv'
<1>1. /\ active' = None /\ gate' = TRUE /\ durable' = durable
      /\ log' = log /\ watermark' = watermark /\ members' = members /\ pageSize' = pageSize
      /\ Covered' = Covered /\ cursor' = [g \in Groups |-> 0]
  BY DEF Reload, server, Covered
<1>2. PICK q \in LoopType : q = [ActiveSubscription EXCEPT !.phase = "ended"]
  BY SessionTypes, NothingSent DEF ActiveSubscription, LoopType, Phases
<1>3. /\ q.phase = "ended" /\ q.half = 0 /\ q.call = "no" /\ q.stream = <<>> /\ q.todo = {}
      /\ q.offset = NoCursor
  BY <1>2 DEF ActiveSubscription
<1>4. ASSUME NEW t \in Subs
      PROVE  /\ sub'[t] \in LoopType /\ sub'[t].phase \in {"new", "ended"} /\ LoopForm(sub[t])'
             /\ sub'[t].call = "no"
  <2>1. sub[t] \in LoopType /\ LoopForm(sub[t])
    BY LoopFacts
  <2>2. CASE sub[t].phase = "new"
    <3>1. sub'[t] = sub[t] /\ sub[t] = ActiveSubscription
      BY <2>1, <2>2 DEF LoopForm, Reload
    <3>2. sub[t].call = "no"
      BY <3>1 DEF ActiveSubscription
    <3>3. LoopForm(sub[t])'
      BY <2>1, <2>2, <3>1, <3>2 DEF LoopForm, CallForm, Running, Rebases, Streams
    <3> QED BY <2>1, <2>2, <3>1, <3>2, <3>3
  <2>3. CASE sub[t].phase # "new"
    <3>1. sub'[t] = q
      BY <1>2, <2>3 DEF Reload
    <3>2. LoopForm(sub[t])'
      BY <1>3, <3>1 DEF LoopForm, CallForm, Running, Rebases, Streams
    <3> QED BY <1>3, <3>1, <3>2
  <2> QED BY <2>2, <2>3
<1>5. SessionType'
  <2>1. sub' \in [Subs -> LoopType]
    BY <1>4 DEF Reload
  <2> QED BY <1>1, <2>1 DEF SessionInv, SessionType
<1>6. LoopForms' /\ OneLoop' /\ RebaseHoldsGate' /\ LastEventBehind'
  BY <1>1, <1>4 DEF LoopForms, OneLoop, RebaseHoldsGate, LastEventBehind, Running, Streams
<1>7. LoopsSound'
  BY <1>4 DEF LoopsSound, Needs, Carries, Streams
<1>8. Cursors'
  <2>1. /\ durable \in [Groups -> Nat \cup {NoCursor}] /\ Len(log) \in Nat
        /\ \A g \in Groups : durable[g] <= Len(log)
    BY SessionTypes
  <2>2. CursorForm' /\ DurableSound'
    BY <1>1, <2>1 DEF SessionInv, Cursors, CursorForm, DurableSound
  <2>3. ASSUME NEW n \in DOMAIN log PROVE ~(n <= cursor'[log[n]])
    <3>1. n \in Nat \ {0} /\ cursor'[log[n]] = 0
      BY <1>1, SessionTypes
    <3> QED BY <3>1
  <2>4. MemorySound'
    BY <1>1, <2>3 DEF MemorySound
  <2> QED BY <2>2, <2>4 DEF Cursors
<1> QED BY <1>5, <1>6, <1>7, <1>8 DEF SessionInv, Loops

-----------------------------------------------------------------------------
(* The invariant *)

LEMMA SessionStarts == SessionConstants /\ Init => SessionInv
<1> SUFFICES ASSUME SessionConstants, Init PROVE SessionInv
  OBVIOUS
<1>1. 1 \in Groups /\ None \notin Subs /\ NGroups \in Nat
  BY DEF SessionConstants, Groups
<1>2. PICK q \in LoopType : q = ActiveSubscription
  BY <1>1, NothingSent DEF ActiveSubscription, LoopType, Phases
<1>3. /\ sub = [s \in Subs |-> q] /\ active = None /\ gate = TRUE
      /\ durable = [g \in Groups |-> NoCursor] /\ cursor = [g \in Groups |-> 0]
      /\ log = <<>> /\ watermark = 0 /\ members = 1 /\ pageSize \in PageSizes
  BY <1>2 DEF Init
<1>4. log \in Seq(Groups) /\ Len(log) = 0 /\ DOMAIN log = {}
  BY <1>3
<1>5. SessionType
  BY <1>1, <1>3, <1>4 DEF SessionType, SessionConstants
<1>6. CursorForm
  BY <1>3, <1>4 DEF CursorForm, NoCursor
<1>7. /\ q.phase = "new" /\ ~q.cancelled /\ q.half = 0 /\ q.call = "no" /\ q.stream = <<>>
      /\ q.todo = {} /\ q.offset = NoCursor
  BY <1>2 DEF ActiveSubscription
<1>8. LoopForm(q) /\ \A s \in Subs : sub[s] = q
  BY <1>2, <1>3, <1>7 DEF LoopForm, CallForm, Running, Rebases, Streams
<1>9. Loops
  BY <1>3, <1>4, <1>7, <1>8
     DEF Loops, LoopForms, OneLoop, RebaseHoldsGate, LoopsSound, LastEventBehind, Running, Streams
<1> QED BY <1>4, <1>5, <1>6, <1>9 DEF SessionInv, Cursors, DurableSound, MemorySound

LEMMA SessionStep == SessionInv /\ [Next]_vars => SessionInv'
<1> SUFFICES ASSUME SessionInv, [Next]_vars PROVE SessionInv'
  OBVIOUS
<1>1. ASSUME NEW s \in Subs,
             Greet(s) \/ Subscribe(s) \/ Unsubscribe(s) \/ CatchUpFails(s) \/ StreamBreaks(s)
      PROVE  SessionInv'
  BY <1>1, GreetKeeps, SubscribeKeeps, UnsubscribeKeeps, CatchUpFailsKeeps, StreamBreaksKeeps
<1>2. ASSUME NEW s \in Subs, LoopStep(s)
      PROVE  SessionInv'
  BY <1>2, AnswerKeeps, SeedKeeps, CatchUpKeeps, ApplyPageKeeps, CheckpointKeeps, OpenKeeps,
     StaleCursorKeeps, ResumesKeeps, ReceiveKeeps, ReceivedKeeps, GroupsChangedKeeps, RefreshedKeeps,
     ClosedKeeps, ReconnectKeeps, ReconnectedKeeps DEF LoopStep
<1>3. ASSUME NEW g \in Groups, Commit(g)
      PROVE  SessionInv'
  BY <1>3, CommitKeeps
<1>4. CASE Resolve \/ JoinGroup \/ Reload
  BY <1>4, ResolveKeeps, JoinGroupKeeps, ReloadKeeps
<1>5. CASE UNCHANGED vars
  <2>1. /\ UNCHANGED <<active, sub, gate, durable, cursor, log, watermark, members, pageSize>>
        /\ Covered' = Covered
    BY <1>5 DEF vars, Covered
  <2>2. SessionType' /\ Cursors'
    BY <2>1 DEF SessionInv, SessionType, Cursors, CursorForm, DurableSound, MemorySound
  <2>3. LoopForms' /\ LoopsSound'
    BY <2>1 DEF SessionInv, Loops, LoopForms, LoopsSound, LoopForm, CallForm, PageForm, StreamForm,
                Needs, Carries, Sent, Running, Rebases, Streams
  <2>4. OneLoop' /\ RebaseHoldsGate' /\ LastEventBehind'
    BY <2>1 DEF SessionInv, Loops, OneLoop, RebaseHoldsGate, LastEventBehind, Running, Streams
  <2> QED BY <2>2, <2>3, <2>4 DEF SessionInv, Loops
<1> QED BY <1>1, <1>2, <1>3, <1>4, <1>5 DEF Next

\* Nothing at or below a cursor is missing from the log but what the session is known to skip.
LEMMA SessionClaims == SessionInv => RebaseIsComplete
<1> SUFFICES ASSUME SessionInv, NEW n \in DOMAIN log, n <= Claimed(log[n]) PROVE n \in Covered
  BY DEF SessionInv, Loops, RebaseIsComplete, GapsOnlyAtHandOver, Covered
<1>1. CASE n <= durable[log[n]]
  BY <1>1 DEF SessionInv, Cursors, DurableSound
<1>2. CASE /\ active # None /\ sub[active].phase \in {"opening", "live"} /\ log[n] <= sub[active].groups
           /\ n <= cursor[log[n]]
  BY <1>2 DEF SessionInv, Cursors, MemorySound
<1> QED BY <1>1, <1>2 DEF Claimed, Max2

\* client.ts, runSubscriptionLoop, catchUp and _applyAction: while the current subscription
\* rebases the flush gate stays closed, and no action at or below a group's durable
\* cursor, nor below the memory cursor of a session that is up, is missing from the log
\* but for those named in `escaped`; loops that were taken over, handshakes that cross,
\* broken streams, resets and reloads change nothing in this.
THEOREM SessionIsComplete == Spec => []RebaseIsComplete
<1>1. Init => SessionInv
  BY SessionAssumption, SessionStarts
<1>2. SessionInv /\ [Next]_vars => SessionInv'
  BY SessionStep
<1> QED BY <1>1, <1>2, SessionClaims, PTL DEF Spec
=============================================================================

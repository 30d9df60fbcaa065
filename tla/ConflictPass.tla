----------------------------- MODULE ConflictPass -----------------------------
(***************************************************************************)
(* What one reconnect decides about a buffered write: conflict-slots.ts,   *)
(* detectConflicts and groupLosers of outbox.ts, and the verdicts and      *)
(* differences of conflicts.ts, in packages/client/src/sync - and the      *)
(* merge of field values they rest on.  ClientOutbox has the lifecycle of  *)
(* the entries; here are the decisions, as operators on actions that carry *)
(* field values, and last the questions that are put to them.              *)
(*                                                                         *)
(* An update is [sub, method, fields], an action [gsn, updates] with a     *)
(* sequence of updates, an entry [action, based].                          *)
(***************************************************************************)
EXTENDS Integers, Sequences, FiniteSets, SequencesExt

(***************************************************************************)
(* Field values and their merge: action.ts and hlc of packages/core, and   *)
(* the sharded map fields a replica keeps (map-field.ts of                 *)
(* packages/storage).  A value is a leaf or a map of leaves; the wire      *)
(* nests maps further, with the same rule at every level.                  *)
(***************************************************************************)
NoKeys == [k \in {} |-> 0]

\* The absent value, leaves and maps, as records of one shape.
Absent == [kind |-> "absent", hlc |-> 0, uid |-> 0, map |-> NoKeys]
Leaf(hlc, uid) == [kind |-> "leaf", hlc |-> hlc, uid |-> uid, map |-> NoKeys]
FieldMap(f) == [kind |-> "map", hlc |-> 0, uid |-> 0, map |-> f]

IsFieldMap(v) == v.kind = "map"
IsFieldLeaf(v) == v.kind = "leaf"

At(f, k) == IF k \in DOMAIN f THEN f[k] ELSE Absent

\* Leaf over leaf: the higher stamp, then the greater update id, and the
\* incoming one when both are equal.
LeafWins(incoming, existing) ==
  \/ incoming.hlc > existing.hlc
  \/ incoming.hlc = existing.hlc /\ incoming.uid >= existing.uid

\* Any value below the map level.
MergeLeaf(existing, incoming) ==
  IF existing.kind = "leaf" /\ incoming.kind = "leaf"
       /\ ~LeafWins(incoming, existing)
  THEN existing ELSE incoming

MergeFieldValue(existing, incoming) ==
  IF IsFieldMap(existing) /\ IsFieldMap(incoming)
  THEN FieldMap([k \in DOMAIN existing.map \cup DOMAIN incoming.map |->
                   IF k \notin DOMAIN incoming.map THEN existing.map[k]
                   ELSE MergeLeaf(At(existing.map, k), incoming.map[k])])
  ELSE MergeLeaf(existing, incoming)

\* mergeFields: a patch over the fields of a row.
MergeFields(fields, patch) ==
  [f \in DOMAIN fields \cup DOMAIN patch |->
     IF f \notin DOMAIN patch THEN fields[f]
     ELSE MergeFieldValue(At(fields, f), patch[f])]

(***************************************************************************)
(* map-field.ts: a map with many keys is kept in shards, and a merge       *)
(* copies only the shards a winning key lands in.  shardOf stands for the  *)
(* hash of a key.                                                          *)
(***************************************************************************)
ShardsOf(shardOf) == {shardOf[k] : k \in DOMAIN shardOf}

MapFieldFromWire(f, shardOf) ==
  [s \in ShardsOf(shardOf) |->
     [k \in {x \in DOMAIN f : shardOf[x] = s} |-> f[k]]]

\* The flat record: the shards laid over one another.
MapFieldToWire(shards, shardOf) ==
  [k \in UNION {DOMAIN shards[s] : s \in DOMAIN shards} |->
     LET s == CHOOSE x \in DOMAIN shards : k \in DOMAIN shards[x]
     IN shards[s][k]]

MergeShardedMapField(shards, incoming, shardOf) ==
  LET Merged(k) == MergeLeaf(At(shards[shardOf[k]], k), incoming[k])
      Winning == {k \in DOMAIN incoming :
                    Merged(k) # At(shards[shardOf[k]], k)}
      touched == {shardOf[k] : k \in Winning}
  IN [s \in DOMAIN shards |->
        IF s \notin touched THEN shards[s]
        ELSE [k \in DOMAIN shards[s] \cup {x \in Winning : shardOf[x] = s} |->
                IF k \in Winning THEN Merged(k) ELSE shards[s][k]]]

\* A resident value is a plain value or the shards of a map; a map becomes
\* sharded when it reaches flip keys and stays so.
Plain(v) == [sharded |-> FALSE, value |-> v, shards |-> NoKeys]

AdoptMapField(v, flip, shardOf) ==
  IF IsFieldMap(v) /\ Cardinality(DOMAIN v.map) >= flip
  THEN [sharded |-> TRUE, value |-> Absent,
        shards |-> MapFieldFromWire(v.map, shardOf)]
  ELSE Plain(v)

ToWire(r, shardOf) ==
  IF r.sharded THEN FieldMap(MapFieldToWire(r.shards, shardOf)) ELSE r.value

MergeResidentFieldValue(r, incoming, flip, shardOf) ==
  IF r.sharded
  THEN IF IsFieldMap(incoming)
       THEN [r EXCEPT !.shards = MergeShardedMapField(@, incoming.map, shardOf)]
       ELSE Plain(incoming)
  ELSE AdoptMapField(MergeFieldValue(r.value, incoming), flip, shardOf)

NoFields == NoKeys

(***************************************************************************)
(* conflict-slots.ts: what a window of actions does to a subject.          *)
(***************************************************************************)
InboundSubject(replaced, fields) == [replaced |-> replaced, fields |-> fields]

Untouched == InboundSubject(FALSE, NoFields)

FoldUpdate(subject, u) ==
  CASE u.method = "put" -> InboundSubject(TRUE, u.fields)
    [] u.method = "delete" -> InboundSubject(TRUE, NoFields)
    [] u.method = "patch" ->
         [subject EXCEPT !.fields = MergeFields(@, u.fields)]

Updates(action, sub) == SelectSeq(action.updates, LAMBDA u : u.sub = sub)

FoldAction(subject, action, sub) ==
  FoldLeft(FoldUpdate, subject, Updates(action, sub))

FoldInboundWindow(window, sub) ==
  FoldLeft(LAMBDA s, a : FoldAction(s, a, sub), Untouched, window)

Touches(action, sub) == Updates(action, sub) # <<>>

\* The fields an entry writes on a subject, whatever the methods.
ActionWrites(action, sub) ==
  FoldLeft(LAMBDA f, u : MergeFields(f, u.fields), NoFields, Updates(action, sub))

\* The positions at which two values meet; a path is a sequence of keys.
OverlappingPaths(pending, inbound) ==
  IF IsFieldMap(pending) /\ IsFieldMap(inbound)
  THEN {<<k>> : k \in DOMAIN pending.map \cap DOMAIN inbound.map}
  ELSE {<<>>}

NodeAtPath(v, path) ==
  IF path = <<>> THEN v
  ELSE IF IsFieldMap(v) THEN At(v.map, path[1]) ELSE Absent

ConflictSlot(sub, field, path, pending, remote) ==
  [sub |-> sub, field |-> field, path |-> path,
   local |-> NodeAtPath(pending, path), remote |-> NodeAtPath(remote, path)]

(***************************************************************************)
(* outbox.ts: which buffered entries lose, and at which positions.         *)
(***************************************************************************)
IsConcurrent(entry, action) == action.gsn > entry.based

\* The slots one concurrent action opens on a subject of an entry.
SlotsFrom(entry, action, window, sub) ==
  LET pending == ActionWrites(entry.action, sub)
      folded == FoldInboundWindow(window, sub)
      mine == FoldAction(Untouched, action, sub)
      Paths(f) == IF f \in DOMAIN mine.fields
                  THEN OverlappingPaths(pending[f], mine.fields[f])
                  ELSE IF mine.replaced THEN {<<>>} ELSE {}
      Remote(f) == IF f \in DOMAIN mine.fields THEN At(folded.fields, f)
                   ELSE Absent
  IN {ConflictSlot(sub, f, path, pending[f], Remote(f)) :
        <<f, path>> \in UNION {{f} \X Paths(f) : f \in DOMAIN pending}}

\* Mutant: only the last action of the window counts.
SlotsOnLast(entry, window, sub) ==
  LET concurrent == SelectSeq(window, LAMBDA a : IsConcurrent(entry, a)
                                                 /\ Touches(a, sub))
  IN IF concurrent = <<>> THEN {}
     ELSE SlotsFrom(entry, concurrent[Len(concurrent)], window, sub)

\* The first action that opens a position keeps it.
SlotsOn(entry, window, sub) ==
  LET concurrent == SelectSeq(window, LAMBDA a : IsConcurrent(entry, a)
                                                 /\ Touches(a, sub))
      Fresh(slots, a) ==
        slots \cup {s \in SlotsFrom(entry, a, window, sub) :
                      ~\E t \in slots : t.field = s.field /\ t.path = s.path}
  IN FoldLeft(Fresh, {}, concurrent)

SubjectsOf(action) == {action.updates[i].sub : i \in DOMAIN action.updates}

\* An entity-scoped subject is lost as soon as a concurrent action touches it.
LosingSubjects(entry, window, scoped) ==
  {sub \in SubjectsOf(entry.action) :
     \/ SlotsOn(entry, window, sub) # {}
     \/ sub \in scoped /\ \E i \in DOMAIN window :
          IsConcurrent(entry, window[i]) /\ Touches(window[i], sub)}

\* groupLosers, on the subjects of each loser in order: a forest over the
\* subjects, joined loser by loser, and the root of each loser's first one.
RECURSIVE Root(_, _)
Root(parent, s) == IF parent[s] = s THEN s ELSE Root(parent, parent[s])

Joined(parent, a, b) ==
  LET known == [s \in DOMAIN parent \cup {a, b} |->
                  IF s \in DOMAIN parent THEN parent[s] ELSE s]
  IN [known EXCEPT ![Root(known, b)] = Root(known, a)]

GroupLosers(losers) ==
  LET parent == FoldLeft(LAMBDA p, subjects :
                           FoldLeft(LAMBDA q, s : Joined(q, subjects[1], s),
                                    p, subjects),
                         NoKeys, losers)
  IN [i \in DOMAIN losers |-> Root(parent, losers[i][1])]

(***************************************************************************)
(* conflicts.ts: the verdict at a position and the difference of two rows. *)
(***************************************************************************)
SideRemoteWins(slot) ==
  \/ ~IsFieldLeaf(slot.local) \/ ~IsFieldLeaf(slot.remote)
  \/ LeafWins(slot.remote, slot.local)

(***************************************************************************)
(* The row an action makes, for reference: applyUpdate of the materializer *)
(* (materialize.ts).  A row is [there, deleted, fields].                   *)
(***************************************************************************)
ApplyUpdate(row, u) ==
  CASE u.method = "put" -> [there |-> TRUE, deleted |-> FALSE, fields |-> u.fields]
    [] u.method = "patch" ->
         IF ~row.there \/ row.deleted THEN row
         ELSE [row EXCEPT !.fields = MergeFields(@, u.fields)]
    [] u.method = "delete" -> IF row.there THEN [row EXCEPT !.deleted = TRUE]
                              ELSE row

ApplyAction(row, action, sub) == FoldLeft(ApplyUpdate, row, Updates(action, sub))

ApplyWindow(row, window, sub) ==
  FoldLeft(LAMBDA r, a : ApplyAction(r, a, sub), row, window)

\* Does the row hold this leaf at a position of a field?
Holds(row, field, path, leaf) ==
  /\ row.there /\ ~row.deleted
  /\ NodeAtPath(At(row.fields, field), path) = leaf

(***************************************************************************)
(* The decisions and merges put to every input of a small space.  A        *)
(* behaviour picks a question in two steps and then has its answer: the    *)
(* write a client has buffered, and the window of actions it missed; two   *)
(* map values and how their keys are sharded; the subjects of the losing   *)
(* writes of one pass.                                                     *)
(***************************************************************************)
CONSTANTS Keys,       \* the keys of a map field
          Subjects,   \* the ids a losing write may touch
          Scalar,     \* the name of a leaf field
          Table,      \* the name of a map field
          MaxLosers   \* bound on the losing writes of one pass

VARIABLES ask,      \* what is asked: "pass", "merge", "group" or "nothing"
          given,    \* the first half of the question
          answer    \* the whole question and what the code decides

dvars == <<ask, given, answer>>

NoAnswer == [done |-> FALSE]

Init == ask = "nothing" /\ given = NoAnswer /\ answer = NoAnswer

(***************************************************************************)
(* A buffered patch, stamped <<2, 2>>, against a window of two actions     *)
(* whose leaves are stamped below it (by update id) or above it (by hlc).  *)
(***************************************************************************)
Stamps == {<<2, 1>>, <<3, 1>>}
Mine == Leaf(2, 2)

MapsOver(leaf) == {FieldMap([k \in ks |-> leaf]) : ks \in SUBSET Keys \ {{}}}

\* Leaf fields, map fields, or a leaf where the other side has a map.
FieldSets(leaf) ==
  LET tables == {[f \in {Table} |-> v] : v \in MapsOver(leaf) \cup {leaf}}
      scalar == [f \in {Scalar} |-> leaf]
  IN tables \cup {scalar} \cup {MergeFields(t, scalar) : t \in tables}

TheSubject == CHOOSE s \in Subjects : TRUE

Patched(fields) == [sub |-> TheSubject, method |-> "patch", fields |-> fields]

Inbound ==
  {[sub |-> TheSubject, method |-> m, fields |-> f] :
     m \in {"put", "patch"}, f \in UNION {FieldSets(Leaf(s[1], s[2])) : s \in Stamps}}
    \cup {[sub |-> TheSubject, method |-> "delete", fields |-> NoFields]}

AskPass ==
  /\ ask = "nothing"
  /\ \E f \in FieldSets(Mine), based \in {0, 1} :
       given' = [done |-> FALSE,
                 entry |-> [based |-> based,
                            action |-> [gsn |-> 0, updates |-> <<Patched(f)>>]]]
  /\ ask' = "pass"
  /\ UNCHANGED answer

DetectConflicts ==
  /\ ask = "pass" /\ answer = NoAnswer
  /\ \E u, v \in Inbound :
       LET window == <<[gsn |-> 1, updates |-> <<u>>], [gsn |-> 2, updates |-> <<v>>]>>
       IN answer' = [done |-> TRUE, window |-> window,
                     slots |-> SlotsOn(given.entry, window, TheSubject),
                     losing |-> [scope \in {"field", "entity"} |->
                                  LosingSubjects(given.entry, window,
                                                 IF scope = "entity" THEN {TheSubject} ELSE {})]]
  /\ UNCHANGED <<ask, given>>

(***************************************************************************)
(* Two map values, and a sharding of their keys.                           *)
(***************************************************************************)
Leaves == {Leaf(1, 1), Leaf(1, 2), Leaf(2, 1)}

MapValues == UNION {{FieldMap(f) : f \in [ks -> Leaves]} : ks \in SUBSET Keys}

AskMerge ==
  /\ ask = "nothing"
  /\ \E a \in MapValues, shardOf \in [Keys -> {0, 1}], flip \in {1, 2} :
       given' = [done |-> FALSE, a |-> a, shardOf |-> shardOf, flip |-> flip]
  /\ ask' = "merge"
  /\ UNCHANGED answer

MergeResident ==
  /\ ask = "merge" /\ answer = NoAnswer
  /\ \E b \in MapValues \cup Leaves, c \in MapValues :
       LET start == AdoptMapField(given.a, given.flip, given.shardOf)
           once == MergeResidentFieldValue(start, b, given.flip, given.shardOf)
           twice == MergeResidentFieldValue(once, c, given.flip, given.shardOf)
       IN answer' = [done |-> TRUE, b |-> b, c |-> c,
                     wire |-> ToWire(twice, given.shardOf)]
  /\ UNCHANGED <<ask, given>>

(***************************************************************************)
(* The losers of one pass, each with the subjects it loses, in order.      *)
(***************************************************************************)
AskGroup ==
  /\ ask = "nothing"
  /\ \E s \in SeqOf(SUBSET Subjects \ {{}}, MaxLosers) :
       /\ s # <<>>
       /\ given' = [done |-> FALSE, losers |-> [i \in DOMAIN s |-> SetToSeq(s[i])]]
  /\ ask' = "group"
  /\ UNCHANGED answer

Group ==
  /\ ask = "group" /\ answer = NoAnswer
  /\ answer' = [done |-> TRUE, ids |-> GroupLosers(given.losers)]
  /\ UNCHANGED <<ask, given>>

Next == AskPass \/ DetectConflicts \/ AskMerge \/ MergeResident
          \/ AskGroup \/ Group

Spec == Init /\ [][Next]_dvars

-----------------------------------------------------------------------------

\* The row before the window: every field there, stamped below everything.
BaseRow ==
  [there |-> TRUE, deleted |-> FALSE,
   fields |-> [f \in {Scalar, Table} |->
                 IF f = Scalar THEN Leaf(0, 0)
                 ELSE FieldMap([k \in Keys |-> Leaf(0, 0)])]]

\* The positions a patch writes leaves at.
Positions(fields) ==
  {<<f, <<>>>> : f \in {g \in DOMAIN fields : IsFieldLeaf(fields[g])}}
    \cup {<<f, <<k>>>> : f \in {g \in DOMAIN fields : IsFieldMap(fields[g])}, k \in Keys}

Survives(row, action, pos) ==
  LET written == NodeAtPath(At(ActionWrites(action, TheSubject), pos[1]), pos[2])
  IN written = Absent
       \/ Holds(ApplyAction(row, action, TheSubject), pos[1], pos[2], written)

Decided == answer.done /\ ask = "pass"

\* A leaf of the buffered write that the missed concurrent actions would
\* beat has a slot and makes its action a loser, whichever
\* scope its type has: nothing the merge takes from the user goes unreported
\* (detectConflicts, with the puts and deletes that name no field).
LossIsReported ==
  Decided =>
    LET entry == given.entry
        seen == SelectSeq(answer.window, LAMBDA a : ~IsConcurrent(entry, a))
        before == ApplyWindow(BaseRow, seen, TheSubject)
        after == ApplyWindow(BaseRow, answer.window, TheSubject)
    IN \A pos \in Positions(ActionWrites(entry.action, TheSubject)) :
         (Survives(before, entry.action, pos) /\ ~Survives(after, entry.action, pos))
           => /\ \A scope \in DOMAIN answer.losing : TheSubject \in answer.losing[scope]
              /\ \E s \in answer.slots : s.field = pos[1] /\ IsPrefix(s.path, pos[2])

\* Where both sides of a slot are leaves, remoteWins() is what the merge
\* does: true exactly when the buffered leaf would not survive it
\* (sideRemoteWins against mergeFieldValue).
VerdictIsMerge ==
  Decided =>
    LET entry == given.entry
        after == ApplyWindow(BaseRow, answer.window, TheSubject)
    IN \A s \in answer.slots :
         (IsFieldLeaf(s.local) /\ IsFieldLeaf(s.remote) /\ ~after.deleted)
           => (SideRemoteWins(s) <=>
                 ~Survives(after, entry.action, <<s.field, s.path>>))

\* Merging into a sharded map is merging into the map it stands for,
\* whatever the keys hash to and whenever it became sharded, and the order
\* in which maps arrive does not matter (mergeResidentFieldValue and
\* mergeFieldValue, "so concurrent writes converge identically everywhere").
ShardedMergeConverges ==
  (answer.done /\ ask = "merge") =>
    /\ answer.wire = MergeFieldValue(MergeFieldValue(given.a, answer.b), answer.c)
    /\ IsFieldMap(answer.b) =>
         answer.wire = MergeFieldValue(MergeFieldValue(given.a, answer.c), answer.b)

\* Two losers share a conflict exactly when a chain of losers with common
\* subjects joins them (groupLosers).
GroupsAreConnected ==
  (answer.done /\ ask = "group") =>
    LET losers == given.losers
        Linked(i, j) == ToSet(losers[i]) \cap ToSet(losers[j]) # {}
        Closed(S) == \A i \in S, j \in DOMAIN losers : Linked(i, j) => j \in S
        Component(i) == CHOOSE S \in SUBSET DOMAIN losers :
                          /\ i \in S /\ Closed(S)
                          /\ \A T \in SUBSET S : i \in T /\ Closed(T) => T = S
    IN \A i, j \in DOMAIN losers :
         answer.ids[i] = answer.ids[j] <=> j \in Component(i)
=============================================================================

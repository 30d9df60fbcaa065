---------------------------- MODULE FunctionWrites ----------------------------
(***************************************************************************)
(* The write surface of one function invocation                            *)
(* (packages/functions-runtime: writes.ts, overlay.ts, commit.ts,          *)
(* preflight.ts).  Verbs are resolved to Updates (WriteOps), the Updates   *)
(* are buffered as the invocation's Action and indexed, so that later      *)
(* verbs and reads of the same invocation see them; commit seals the       *)
(* surface and sends the buffer.  Reads and a many-cardinality unrelate    *)
(* wait for the host; the handler may do other things meanwhile.           *)
(***************************************************************************)
EXTENDS WriteOps, Integers, TLC

CONSTANTS Entities,     \* entities the handler may create
          Groups,       \* groups it may file into or create
          Members,      \* groupMember rows it may create
          Existing,     \* the row that exists before the invocation
          Targets,      \* the FK set of Existing, a sequence
          MaxOps        \* verbs and reads of one invocation

VARIABLES
  updates,          \* the Action's updates[]
  since,            \* updates[] before this point were sent by an earlier commit
  membershipGroup, membershipEntity,    \* entityGroup row -> group, entity
  groupsByEntity,   \* entity -> groups filed or scoped into
  createdGroups,    \* groups of this invocation
  membersByGroup,   \* group -> (member row -> "some" or "none")
  memberGroup,      \* groupMember row -> group
  edges,            \* source -> the live relationship row, "none" or "gone"
  sealed,           \* commit has been called
  waiting,          \* target -> the unrelate of it that is reading the FK set, or Idle
  reading,          \* the ctx.get that is under way, or Idle
  sent,             \* commits that reached the host: sequences of updates
  host,             \* rows at the host
  applied,          \* the host has applied the invocation's Action
  ops,              \* verbs and reads so far
  want,             \* history: the FK set the verbs asked for
  crossed,          \* history: an unrelate wrote after another verb on its row, or after a commit
  told              \* the last ctx.get that returned, as a sequence of at most one

fwVars == <<updates, since, membershipGroup, membershipEntity, groupsByEntity, createdGroups,
            membersByGroup, memberGroup, edges, sealed, waiting, reading, sent, host, applied,
            ops, want, crossed, told>>

index == <<membershipGroup, membershipEntity, groupsByEntity, createdGroups, membersByGroup,
           memberGroup, edges>>

Absent == [live |-> FALSE, ups |-> {}, fk |-> <<>>]
Rows   == Entities \union {Existing}
Idle   == [id |-> Nobody, from |-> 0, frozen |-> 0, row |-> Absent,
           answered |-> FALSE, blind |-> FALSE]

HostAtStart ==
  [e \in Rows |-> IF e = Existing THEN [live |-> TRUE, ups |-> {0}, fk |-> Targets] ELSE Absent]

Init ==
  /\ updates = <<>> /\ since = 0
  /\ membershipGroup = [r \in {} |-> Nobody] /\ membershipEntity = [r \in {} |-> Nobody]
  /\ groupsByEntity = [e \in {} |-> {}]
  /\ createdGroups = {}
  /\ membersByGroup = [g \in {} |-> <<>>] /\ memberGroup = [m \in {} |-> Nobody]
  /\ edges = [e \in Rows |-> <<"none">>]
  /\ sealed = FALSE
  /\ waiting = [t \in Ids(Targets) |-> Idle] /\ reading = Idle
  /\ sent = <<>>
  /\ host = HostAtStart
  /\ applied = FALSE /\ ops = 0 /\ crossed = FALSE /\ told = <<>>
  /\ want = [e \in Rows |-> IF e = Existing THEN Ids(Targets) ELSE {}]

-----------------------------------------------------------------------------
(* indexWrite: what later verbs of the invocation know.                     *)

At(f, k, default) == IF k \in DOMAIN f THEN f[k] ELSE default
Put(f, k, v) == [x \in DOMAIN f \union {k} |-> IF x = k THEN v ELSE f[x]]

AddGroup(gs, e, g) == Put(gs, e, At(gs, e, {}) \union {g})

Indexes == [mg |-> membershipGroup, me |-> membershipEntity, gs |-> groupsByEntity,
            cg |-> createdGroups, roster |-> membersByGroup, mr |-> memberGroup, ed |-> edges]

\* Mutant: a deleted membership stays in the index.
IndexEntityGroupAdds(ix, u) ==
  IF u.method = "delete" \/ Nobody \in {u.group, u.entity} THEN ix
  ELSE [ix EXCEPT !.mg = Put(ix.mg, u.sub, u.group), !.me = Put(ix.me, u.sub, u.entity),
                  !.gs = AddGroup(ix.gs, u.entity, u.group)]

IndexEntityGroup(ix, u) ==
  IF u.method = "delete"
  THEN IF u.sub \in DOMAIN ix.mg
       THEN [ix EXCEPT !.gs = Put(ix.gs, ix.me[u.sub], At(ix.gs, ix.me[u.sub], {}) \ {ix.mg[u.sub]})]
       ELSE ix
  ELSE IF Nobody \in {u.group, u.entity} THEN ix
  ELSE [ix EXCEPT !.mg = Put(ix.mg, u.sub, u.group), !.me = Put(ix.me, u.sub, u.entity),
                  !.gs = AddGroup(ix.gs, u.entity, u.group)]

IndexRelationship(ix, u) ==
  IF u.method = "delete"
  THEN [ix EXCEPT !.ed = [e \in Rows |-> IF ix.ed[e] = <<"live", u.sub>> THEN <<"gone">>
                                         ELSE ix.ed[e]]]
  ELSE IF u.as = "owner" /\ u.source \in Rows
       THEN [ix EXCEPT !.ed[u.source] = <<"live", u.sub>>]
       ELSE ix

\* A Group row is a group of this invocation, whatever wrote it.
IndexGroup(ix, u) ==
  IF u.method = "delete" THEN ix
  ELSE [ix EXCEPT !.cg = ix.cg \union {u.sub}, !.gs = AddGroup(ix.gs, u.sub, u.sub)]

\* A patch carries no group_id, and what carries none is not indexed.
IndexGroupMember(ix, u) ==
  IF u.method = "delete"
  THEN IF u.sub \in DOMAIN ix.mr
       THEN LET g == ix.mr[u.sub]
            IN  [ix EXCEPT !.roster = Put(ix.roster, g,
                     [m \in DOMAIN At(ix.roster, g, <<>>) \ {u.sub} |-> ix.roster[g][m]])]
       ELSE ix
  ELSE IF u.group = Nobody THEN ix
  ELSE [ix EXCEPT !.mr = Put(ix.mr, u.sub, u.group),
                  !.roster = Put(ix.roster, u.group,
                               Put(At(ix.roster, u.group, <<>>), u.sub, u.perms)),
                  !.gs = AddGroup(ix.gs, u.sub, u.group)]

IndexWrite(ix, u) ==
  CASE u.type = "entityGroup"  -> IndexEntityGroup(ix, u)
    [] u.type = "relationship" -> IndexRelationship(ix, u)
    [] u.type = "group"        -> IndexGroup(ix, u)
    [] u.type = "groupMember"  -> IndexGroupMember(ix, u)
    [] OTHER                   -> ix

\* record: buffer and index a batch, in wire order.
Record(batch) ==
  LET ix == FoldLeft(IndexWrite, Indexes, batch)
  IN  /\ updates' = updates \o batch
      /\ membershipGroup' = ix.mg /\ membershipEntity' = ix.me /\ groupsByEntity' = ix.gs
      /\ createdGroups' = ix.cg /\ membersByGroup' = ix.roster /\ memberGroup' = ix.mr
      /\ edges' = ix.ed

GroupsOf(e) == At(groupsByEntity, e, {})

-----------------------------------------------------------------------------
(* The verbs.  Each begins with assertWritable; a guard that throws leaves   *)
(* everything as it was.                                                     *)

Writable == ~sealed /\ ops < MaxOps
Spent == /\ ops' = ops + 1
         /\ UNCHANGED <<since, sealed, waiting, reading, sent, host, applied, told>>
Fresh(id) == \A i \in DOMAIN updates : updates[i].sub # id
Wrote(id) == ~Fresh(id)

\* ctx.create of an entity, with or without a body and an owner.
Create(e, groups, bodies, owner) ==
  /\ Writable /\ Fresh(e)
  /\ Record(CreateEntity(Update(e, "item", "put"), groups, bodies, owner, Len(updates)))
  /\ Spent /\ UNCHANGED <<want, crossed>>

\* ctx.create("group") and ctx.create("groupMember") go through the same operation.
CreateGroupRow(g, filed) ==
  /\ Writable /\ Fresh(g)
  /\ Record(CreateEntity(Update(g, "group", "put"), <<filed>>, <<>>, <<>>, Len(updates)))
  /\ Spent /\ UNCHANGED <<want, crossed>>

CreateMember(m, g, perms) ==
  /\ Writable /\ Fresh(m)
  /\ Record(CreateEntity([Update(m, "groupMember", "put") EXCEPT !.group = g, !.perms = perms],
                         <<g>>, <<>>, <<>>, Len(updates)))
  /\ Spent /\ UNCHANGED <<want, crossed>>

\* ctx.update of an ordinary row.
Touch(e) ==
  /\ Writable
  /\ Record(PatchEntity(Update(e, "item", "patch")))
  /\ Spent /\ UNCHANGED <<want, crossed>>

\* The roster is known for the groups of this invocation only.
GroupMembersKnown(g) == g \in createdGroups
LastMember(m, removed, upserts) ==
  /\ m \in DOMAIN memberGroup /\ GroupMembersKnown(memberGroup[m])
  /\ LastGroupMemberViolation(At(membersByGroup, memberGroup[m], <<>>), removed, upserts)

\* guardMemberUpdate: a patch of the permissions that would leave no capable member.
GuardMemberUpdate(m, perms) == LastMember(m, {}, (m :> perms))
GuardMemberDelete(m) == LastMember(m, {m}, <<>>)

SetPermissions(m, perms) ==
  /\ Writable /\ ~GuardMemberUpdate(m, perms)
  /\ Record(PatchEntity([Update(m, "groupMember", "patch") EXCEPT !.perms = perms]))
  /\ Spent /\ UNCHANGED <<want, crossed>>

RemoveMember(m) ==
  /\ Writable /\ ~GuardMemberDelete(m)
  /\ Record(DeleteEntity(m, "groupMember"))
  /\ Spent /\ UNCHANGED <<want, crossed>>

\* guardMembershipDelete: a membership of this invocation that is its entity's last.
GuardMembershipDelete(row) ==
  /\ row \in DOMAIN membershipGroup
  /\ LastMembershipViolation(GroupsOf(membershipEntity[row]), {}, {membershipGroup[row]})

RemoveMembership(e, g) ==
  /\ Writable /\ ~GuardMembershipDelete(EntityGroupId(e, g))
  /\ Record(DeleteEntity(EntityGroupId(e, g), "entityGroup"))
  /\ Spent /\ UNCHANGED <<want, crossed>>

RemoveEntity(e) ==
  /\ Writable
  /\ Record(DeleteEntity(e, "item"))
  /\ want' = [want EXCEPT ![e] = {}]
  /\ Spent /\ UNCHANGED crossed

RelateOne(e, target) ==
  /\ Writable
  /\ Record(WriteRelationshipOne(e, "owner", target, NewRow(Len(updates), 1)))
  /\ Spent /\ UNCHANGED <<want, crossed>>

RelateMany(e, targets) ==
  /\ Writable
  /\ Record(WriteRelationshipMany(e, "item", "tags", targets, Len(updates)))
  /\ want' = [want EXCEPT ![e] = Ids(targets)]
  /\ Spent /\ UNCHANGED crossed

\* A one-cardinality unrelate without an id: only an edge of this invocation
\* resolves; one already gone is no write at all, an unknown one throws.
UnrelateOne(e) ==
  /\ Writable /\ edges[e][1] \in {"live", "gone"}
  /\ IF edges[e] = <<"gone">> THEN UNCHANGED <<updates, index>>
     ELSE Record(WriteRelationshipOne(e, "owner", Nobody, edges[e][2]))
  /\ Spent /\ UNCHANGED <<want, crossed>>

-----------------------------------------------------------------------------
(* Reads: the host's row with this invocation's own writes laid over it.    *)

RowAfter(row, u, n) ==
  CASE u.method = "delete" -> Absent
    [] u.method = "put"    -> [live |-> TRUE, ups |-> {n}, fk |-> <<>>]
    [] OTHER               -> [live |-> TRUE, ups |-> row.ups \union {n},
                               fk |-> IF u.hasFk THEN u.fk ELSE row.fk]

\* The Updates on one row among positions from+1 .. to of the buffer.
WritesOn(e, from, to) == {i \in from + 1 .. to : updates[i].sub = e}

Laid(row, e, from, to) ==
  FoldLeft(LAMBDA r, i : IF i \in WritesOn(e, from, to) THEN RowAfter(r, updates[i], i) ELSE r,
           row, [k \in 1 .. to |-> k])

\* readOverlay, once the host has answered.  writes is the array it took at the
\* start: it grows with later verbs, and a commit leaves it as it was then.
ReadOverlay(hostRow, e, from, to) ==
  LET ws == WritesOn(e, from, to)
      last == CHOOSE i \in ws : \A j \in ws : j <= i
      noPut == \A i \in ws : updates[i].method # "put"
  IN  IF ws = {} THEN hostRow
      ELSE IF noPut /\ updates[last].method = "delete" THEN Absent
      ELSE IF noPut /\ ~hostRow.live THEN Absent
      ELSE Laid(IF noPut THEN hostRow ELSE Absent, e, from, to)

\* The host answers a get at any moment while it is under way.
HostAnswers(get) == [get EXCEPT !.row = host[get.id], !.answered = TRUE]

\* Writes of the row held when the read began, and where its array ends now.
Began(e) == [Idle EXCEPT !.id = e, !.from = Len(updates), !.blind = sealed /\ ~applied]
ReadRow(get) ==
  IF get.frozen > 0 THEN ReadOverlay(get.row, get.id, 0, get.frozen)
  ELSE IF WritesOn(get.id, since, get.from) = {} THEN get.row
  ELSE ReadOverlay(get.row, get.id, since, Len(updates))

\* ctx.get
Get(e) ==
  /\ reading = Idle /\ ops < MaxOps
  /\ reading' = Began(e)
  /\ ops' = ops + 1
  /\ UNCHANGED <<updates, since, index, sealed, waiting, sent, host, applied, want, crossed, told>>

GetAnswered ==
  /\ reading # Idle /\ ~reading.answered
  /\ reading' = HostAnswers(reading)
  /\ UNCHANGED <<updates, since, index, sealed, waiting, sent, host, applied, ops, want, crossed, told>>

GetReturns ==
  /\ reading.answered
  /\ told' = <<[id |-> reading.id, row |-> ReadRow(reading), from |-> reading.from,
                to |-> Len(updates), blind |-> reading.blind]>>
  /\ reading' = Idle
  /\ UNCHANGED <<updates, since, index, sealed, waiting, sent, host, applied, ops, want, crossed>>

\* A many-cardinality unrelate of one target reads the FK set first.
UnrelateMany(e, target) ==
  /\ Writable /\ waiting[target] = Idle
  /\ waiting' = [waiting EXCEPT ![target] = Began(e)]
  /\ ops' = ops + 1
  /\ UNCHANGED <<updates, since, index, sealed, reading, sent, host, applied, want, crossed, told>>

UnrelateAnswered(t) ==
  /\ waiting[t] # Idle /\ ~waiting[t].answered
  /\ waiting' = [waiting EXCEPT ![t] = HostAnswers(@)]
  /\ UNCHANGED <<updates, since, index, sealed, reading, sent, host, applied, ops, want, crossed, told>>

\* The FK set without the target.
Remaining(fk, t) == SelectSeq(fk, LAMBDA x : x # t)

\* Then it writes what is left.  Nothing is checked again after the read.
UnrelateReturns(t) ==
  LET get == waiting[t]
      row == ReadRow(get)
  IN  /\ get.answered
      /\ IF row.live
         THEN /\ Record(WriteRelationshipMany(get.id, "item", "tags", Remaining(row.fk, t), Len(updates)))
              /\ want' = [want EXCEPT ![get.id] = @ \ {t}]
              /\ crossed' = (crossed \/ sealed \/ WritesOn(get.id, get.from, Len(updates)) # {})
         ELSE UNCHANGED <<updates, index, want, crossed>>
      /\ waiting' = [waiting EXCEPT ![t] = Idle]
      /\ UNCHANGED <<since, sealed, reading, sent, host, applied, ops, told>>

-----------------------------------------------------------------------------
(* commit: the handler's own, and the runner's after the handler returned.  *)

Frozen(get) ==
  IF get # Idle /\ get.frozen = 0 /\ WritesOn(get.id, since, get.from) # {}
  THEN [get EXCEPT !.frozen = Len(updates)] ELSE get

\* Nothing buffered is a no-op; otherwise the surface is sealed, the buffer
\* emptied, and one commit call goes out under the invocation's Action id.
Commit ==
  /\ Len(updates) > since
  /\ sealed' = TRUE
  /\ since' = Len(updates)
  /\ sent' = Append(sent, SubSeq(updates, since + 1, Len(updates)))
  /\ waiting' = [t \in DOMAIN waiting |-> Frozen(waiting[t])] /\ reading' = Frozen(reading)
  /\ UNCHANGED <<updates, index, host, applied, ops, want, crossed, told>>

\* The host applies the first commit of an Action id and drops a later one.
HostCommits ==
  /\ sent # <<>> /\ ~applied
  /\ host' = [e \in Rows |-> Laid(host[e], e, 0, Len(sent[1]))]
  /\ applied' = TRUE
  /\ UNCHANGED <<updates, since, index, sealed, waiting, reading, sent, ops, want, crossed, told>>

\* The handler names rows that are there: its own, and the one it found.
Seen(e) == Laid(HostAtStart[e], e, 0, Len(updates)).live

Next ==
  \/ \E e \in Entities, g \in Groups : Create(e, <<g>>, <<>>, <<>>)
  \/ \E e \in Entities, g, h \in Groups :
       g # h /\ Create(e, <<g, h>>, <<"body">>, <<[as |-> "owner", target |-> Existing]>>)
  \/ \E g, h \in Groups : g # h /\ CreateGroupRow(g, h)
  \/ \E m \in Members, g \in Groups, p \in {"some", "none"} : CreateMember(m, g, p)
  \/ \E m \in Members, p \in {"some", "none"} : Wrote(m) /\ SetPermissions(m, p)
  \/ \E m \in Members : Wrote(m) /\ RemoveMember(m)
  \/ \E e \in Entities, g \in Groups : Wrote(EntityGroupId(e, g)) /\ RemoveMembership(e, g)
  \/ \E e \in Rows : Get(e)
  \/ \E e \in Rows : Seen(e) /\ (Touch(e) \/ RemoveEntity(e) \/ UnrelateOne(e))
  \/ \E e \in Rows, t \in Ids(Targets) : Seen(e) /\ (RelateOne(e, t) \/ UnrelateMany(e, t))
  \/ \E e \in Rows, t \in Ids(Targets) : Seen(e) /\ RelateMany(e, <<t, t>>)
  \/ GetAnswered \/ GetReturns
  \/ \E t \in Ids(Targets) : UnrelateAnswered(t) \/ UnrelateReturns(t)
  \/ Commit \/ HostCommits

Spec == Init /\ [][Next]_fwVars

-----------------------------------------------------------------------------
(* What the invocation's own view must agree with: the Updates replayed.    *)

LastOn(id) == LET ws == {i \in DOMAIN updates : updates[i].sub = id}
              IN  updates[CHOOSE i \in ws : \A j \in ws : j <= i]
RowLives(id) == Wrote(id) /\ LastOn(id).method # "delete"

\* The permissions a member row ends with: the last Update that carries any.
PermsOf(m) == LET ws == {i \in DOMAIN updates : updates[i].sub = m /\ updates[i].perms # "absent"}
              IN  updates[CHOOSE i \in ws : \A j \in ws : j <= i].perms
Administered(g) == \E m \in Members : /\ RowLives(m) /\ At(memberGroup, m, Nobody) = g
                                      /\ PermsOf(m) = "some"
\* Group g was put, and while it was there a member row with a permission was too.
WasGivenAdmin(g) ==
  \E i, n \in DOMAIN updates :
    /\ updates[n].sub = g /\ updates[n].method = "put"
    /\ updates[i].type = "groupMember" /\ updates[i].method = "put" /\ updates[i].perms = "some"
    /\ At(memberGroup, updates[i].sub, Nobody) = g
    /\ ~\E k \in (i + 1) .. n : updates[k].sub = updates[i].sub
\* A patch took the permissions of one member, and another was patched or removed after it.
Withdrawn(g) ==
  LET ofGroup(i) == updates[i].type = "groupMember" /\ At(memberGroup, updates[i].sub, Nobody) = g
  IN  \E i, j \in DOMAIN updates :
        /\ i < j /\ ofGroup(i) /\ ofGroup(j) /\ updates[i].sub # updates[j].sub
        /\ updates[i].method = "patch" /\ updates[i].perms = "none"
        /\ updates[j].method \in {"patch", "delete"}

\* The row a read may return: the row before the invocation with the first n
\* Updates on it.  A patch of a row nobody can see shows nothing.
RowOf(e, n) ==
  IF ~HostAtStart[e].live /\ \A i \in WritesOn(e, 0, n) : updates[i].method # "put"
  THEN Absent ELSE Laid(HostAtStart[e], e, 0, n)

\* An entity the invocation created stays in some group, however its memberships
\* are removed: the membership index agrees with the Updates it was built from.
FiledSomewhere ==
  \A e \in Entities : RowLives(e) /\ (\E i \in DOMAIN updates : updates[i].sub = e /\ updates[i].method = "put")
    => \E g \in Groups : RowLives(EntityGroupId(e, g))

\* A ctx.get returns the row with every write the handler made before it called,
\* whatever the handler wrote or committed while the host was reading - unless it
\* was called between a commit and the host applying it.
ReadSeesOwnWrites ==
  ~crossed => \A i \in DOMAIN told : ~told[i].blind =>
    \E n \in told[i].from .. told[i].to : told[i].row = RowOf(told[i].id, n)

\* The FK set the Action leaves is the one the verbs asked for, as long as no
\* unrelate's read was overtaken by another write of the row or by the commit.
FkFollowsVerbs ==
  ~crossed => \A e \in Rows : Ids(RowOf(e, Len(updates)).fk) = IF RowOf(e, Len(updates)).live THEN want[e] ELSE {}

\* One invocation is one Action: a second commit would carry the same Action id
\* and be dropped by the server as a replay.
OneAction == ~crossed => Len(sent) <= 1

\* A group of this invocation that was given a member with a permission has one,
\* unless a patch withdrew those of one member before another was patched or removed:
\* a patch does not reach the roster the guards read.
AdminStays ==
  \A g \in createdGroups : WasGivenAdmin(g) /\ ~Withdrawn(g) => Administered(g)

\* The same without the exception.
AdminAlwaysStays == \A g \in createdGroups : WasGivenAdmin(g) => Administered(g)

\* What an invocation's verbs promise its handler and the server.
InvocationHolds ==
  FiledSomewhere /\ ReadSeesOwnWrites /\ FkFollowsVerbs /\ OneAction /\ AdminStays
=============================================================================

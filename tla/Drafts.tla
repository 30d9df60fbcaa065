-------------------------------- MODULE Drafts --------------------------------
(***************************************************************************)
(* The client's action runtime (packages/client/src/sync/drafts.ts).  An   *)
(* action's callback records verbs; run() then resolves them in order,     *)
(* each against the local store and what the batch already knows, and      *)
(* commits every operation's Updates as one Action (WriteOps).  Each local *)
(* read is awaited, so the verbs of two actions interleave.                *)
(*                                                                         *)
(* The callback names its next verb when the one before is resolved: it    *)
(* cannot see what a verb resolves to, so recording them all first is no   *)
(* different.                                                              *)
(***************************************************************************)
EXTENDS WriteOps, Integers, TLC

CONSTANTS Actions,      \* the actions run
          Existing,     \* an entity in the store, with a generated document
          Fresh,        \* ids create and duplicate mint
          Groups,
          Home,         \* the group the store's rows are in
          Members,      \* the group members of Home, all capable
          MaxVerbs      \* action -> verbs it may have

VARIABLES
  store,    \* the local store
  act,      \* action -> its run
  ran,      \* history: the verbs of the last action committed, and the store before
  stale,    \* history: rows an action had read and another action then wrote
  twice     \* history: rows one action wrote memberships or permissions of twice

drVars == <<store, act, ran, stale, twice>>

Body == "body"
Doc(e) == DocumentOf(e, Body)
Rows == {Existing} \union Fresh

Idle == [phase |-> "idle", verbs |-> <<>>, batching |-> <<>>, parts |-> {},
         updates |-> <<>>, half |-> <<>>, read |-> {}]

DrInit ==
  /\ store = [live  |-> {Existing, Doc(Existing)},
              filed |-> {EntityGroupId(Existing, Home), EntityGroupId(Doc(Existing), Home)},
              links |-> [e \in Rows |-> <<>>],
              docs  |-> {Existing},
              perms |-> [m \in Members |-> "some"],
              made  |-> {}, run |-> {}]
  /\ act = [a \in Actions |-> Idle]
  /\ ran = <<>> /\ stale = {} /\ twice = {}

-----------------------------------------------------------------------------
(* What the store makes of an Update.                                       *)

Applied(s, u) ==
  CASE u.type = "entityGroup" ->
         [s EXCEPT !.filed = IF u.method = "delete" THEN @ \ {u.sub} ELSE @ \union {u.sub}]
    [] u.type = "relationship" /\ u.method = "delete" ->
         [s EXCEPT !.links = [e \in Rows |-> SelectSeq(@[e], LAMBDA l : l # u.sub)]]
    [] u.type = "relationship" /\ u.method = "put" /\ u.as = Body ->
         [s EXCEPT !.docs = @ \union {u.source}]
    [] u.type = "relationship" /\ u.method = "put" /\ u.as # Body ->
         [s EXCEPT !.links[u.source] = Append(@, u.sub)]
    [] u.type = "group" -> [s EXCEPT !.made = @ \union {u.sub}]
    [] u.type = "groupMember" /\ u.method = "put" /\ u.group # Home ->
         [s EXCEPT !.run = IF u.perms = "some" THEN @ \union {u.group} ELSE @]
    [] u.type = "groupMember" /\ ~(u.method = "put" /\ u.group # Home) ->
         [s EXCEPT !.perms = IF u.method = "delete"
                             THEN [m \in DOMAIN @ \ {u.sub} |-> @[m]]
                             ELSE (u.sub :> u.perms) @@ @]
    [] u.type \in {"item", "document"} ->
         [s EXCEPT !.live = IF u.method = "delete" THEN @ \ {u.sub}
                            ELSE IF u.method = "put" THEN @ \union {u.sub} ELSE @]

GroupsIn(s, e) == {g \in Groups : EntityGroupId(e, g) \in s.filed}

-----------------------------------------------------------------------------
(* What an action knows: its batch first, the store otherwise.              *)

Batched(r, e) == e \in DOMAIN r.batching

\* readMembershipState: the batch's groups, or the store's, kept from then on.
MembershipState(r, e) == IF Batched(r, e) THEN r.batching[e] ELSE GroupsIn(store, e)

\* readParts: documents of the store first; one this batch created is known
\* without memberships.
HeldBy(r, d) ==
  {[group |-> g, row |-> EntityGroupId(d, g)] : g \in GroupsIn(store, d)}
PartsOf(r, e) == IF e \in store.docs \union r.parts THEN <<Doc(e)>> ELSE <<>>
EdgesOf(r, e) ==
  IF PartsOf(r, e) = <<>> THEN <<>>
  ELSE <<BuildRelationshipUpdate(<<"derived", e, Body>>, e, Doc(e), Body)>>

\* One more verb resolved to these Updates.
Resolved(r, verb, updates) ==
  [r EXCEPT !.phase = "resolving", !.verbs = Append(@, verb), !.updates = @ \o updates,
            !.half = <<>>]
Refused(r) == [r EXCEPT !.phase = "refused"]

May(a) == /\ act[a].phase \in {"idle", "resolving"} /\ act[a].half = <<>>
          /\ Len(act[a].verbs) < MaxVerbs[a]
Reads(r, ids) == [r EXCEPT !.read = @ \union ids]
Become(a, r) == act' = [act EXCEPT ![a] = r] /\ UNCHANGED <<store, ran, stale, twice>>

Verb(op, id, groups) == [op |-> op, id |-> id, groups |-> groups]
NewRel(a) == <<"rel", a, Len(act[a].updates) + 1>>
Unminted(e) == /\ e \notin store.live /\ GroupsIn(store, e) = {}
               /\ \A b \in Actions : ~Batched(act[b], e)
Known(a, e) == e \in store.live \/ Batched(act[a], e)

\* create: the id is minted and the batch knows the groups and the document.
DraftCreate(a, e, groups, body) ==
  /\ May(a) /\ Unminted(e)
  /\ LET r == act[a]
         bodies == IF body THEN <<Body>> ELSE <<>>
     IN  Become(a, Resolved([r EXCEPT !.batching = (e :> Ids(groups)) @@ @,
                                      !.parts = IF body THEN @ \union {e} ELSE @],
                            Verb("create", e, Ids(groups)),
                            CreateEntity(Update(e, "item", "put"), groups, bodies, <<>>, 0)))

\* update and delete of an entity.
ResolveEntityWrite(a, e, method) ==
  /\ May(a) /\ Known(a, e)
  /\ Become(a, Resolved(act[a], Verb(method, e, {}),
                        IF method = "patch" THEN PatchEntity(Update(e, "item", "patch"))
                                            ELSE DeleteEntity(e, "item")))

\* duplicate: a source row that is not in the store is refused, as is one
\* without a group when none is named.
ResolveDuplicate(a, e, src) ==
  /\ May(a) /\ Unminted(e)
  /\ LET r == act[a]
         groups == MembershipState(r, src)
     IN  Become(a, IF src \notin store.live \/ groups = {} THEN Refused(r)
                   ELSE Resolved([r EXCEPT !.batching = (e :> groups) @@ @],
                                 Verb("duplicate", e, groups),
                                 DuplicateEntity(e, Update(src, "item", "put"), SetToSeq(groups))))

\* link, and an unlink of a one-cardinality relationship: of the live edge the
\* store knows, and no write when it knows none.
ResolveLink(a, e, target) ==
  /\ May(a) /\ Known(a, e)
  /\ Become(a, Resolved(act[a], Verb("link", e, {}),
                        WriteRelationshipOne(e, "owner", target, NewRel(a))))

ResolveUnlinkTarget(e) == store.links[e]
ResolveUnlink(a, e) ==
  /\ May(a) /\ Known(a, e)
  /\ Become(a, Resolved(act[a], Verb("unlink", e, {}),
                        IF ResolveUnlinkTarget(e) = <<>> THEN <<>>
                        ELSE WriteRelationshipOne(e, "owner", Nobody, ResolveUnlinkTarget(e)[1])))

\* addToGroup, removeFromGroup, setGroups: the delta against the groups known.
GroupDelta(verb, groups) ==
  CASE verb.op = "add"    -> [puts |-> verb.groups, removes |-> {}]
    [] verb.op = "remove" -> [puts |-> {}, removes |-> verb.groups]
    [] verb.op = "set"    -> [puts |-> verb.groups \ groups, removes |-> groups \ verb.groups]

\* applyGroupDelta, up to the read of the generated parts.
ResolveGroupVerb(a, verb) ==
  /\ May(a) /\ Known(a, verb.id)
  /\ LET r == act[a]
         groups == MembershipState(r, verb.id)
         delta == GroupDelta(verb, groups)
         kept == Reads([r EXCEPT !.batching = (verb.id :> groups) @@ @],
                       IF Batched(r, verb.id) THEN {} ELSE {verb.id})
     IN  Become(a, IF ~(delta.removes \subseteq groups) THEN Refused(r)
                   ELSE IF delta.puts \subseteq groups /\ delta.removes = {} THEN Resolved(kept, verb, <<>>)
                   ELSE [kept EXCEPT !.phase = "resolving",
                          !.half = <<[verb |-> verb, puts |-> delta.puts \ groups, removes |-> delta.removes]>>])

\* Mutant: a planned delta is not seen by the rest of the batch.
OverlayForgets(groups, delta) == groups

\* The groups the batch knows of once the delta is planned.
Overlay(groups, delta) == (groups \union delta.puts) \ delta.removes

\* And from there on: the overlay, and one changeGroups call, which may refuse.
ApplyGroupDelta(a) ==
  /\ act[a].half # <<>>
  /\ LET r == act[a]
         delta == r.half[1]
         e == delta.verb.id
         current == r.batching[e]
         removes == [i \in 1 .. Cardinality(delta.removes) |->
                       [row |-> EntityGroupId(e, SetToSeq(delta.removes)[i]),
                        group |-> SetToSeq(delta.removes)[i]]]
         updates == ChangeGroups(e, SetToSeq(delta.puts), removes, PartsOf(r, e),
                                 [d \in Ids(PartsOf(r, e)) |-> HeldBy(r, d)], EdgesOf(r, e))
     IN  Become(a, IF ChangeGroupsRefused(e, SetToSeq(delta.puts), removes, current, updates)
                   THEN Refused(r)
                   ELSE Resolved([r EXCEPT !.batching[e] = Overlay(current, delta)], delta.verb, updates))

\* group.create: the group and the actor's own membership; membership.create: one
\* more member, of Home.  Neither asks the store anything.
NewGroup(a) == <<"group", a>>
NewMember(a) == <<"member", a, Len(act[a].verbs)>>
DraftCreateGroup(a) ==
  /\ May(a)
  /\ Become(a, Resolved(act[a], Verb("group", NewGroup(a), {}),
                        CreateGroup(NewGroup(a), NewMember(a), "some")))
DraftCreateMember(a) ==
  /\ May(a)
  /\ Become(a, Resolved(act[a], Verb("join", NewMember(a), {}),
                        CreateSystemEntity([Update(NewMember(a), "groupMember", "put") EXCEPT
                                              !.group = Home, !.perms = "some"])))

\* lastGroupMemberRefusal: the members the store knows, and this one verb.
LastGroupMemberRefusal(m, removed, upserts) ==
  m \in DOMAIN store.perms /\ LastGroupMemberViolation(store.perms, removed, upserts)

ResolveMemberPatch(a, m, perms) ==
  /\ May(a)
  /\ LET r == Reads(act[a], {Home})
     IN  Become(a, IF LastGroupMemberRefusal(m, {}, (m :> perms)) THEN Refused(r)
                   ELSE Resolved(r, Verb("member", m, {}),
                          PatchEntity([Update(m, "groupMember", "patch") EXCEPT !.perms = perms])))

ResolveMemberDelete(a, m) ==
  /\ May(a) /\ m \in DOMAIN store.perms
  /\ LET r == Reads(act[a], {Home})
     IN  Become(a, IF LastGroupMemberRefusal(m, {m}, <<>>) THEN Refused(r)
                   ELSE Resolved(r, Verb("member", m, {}), DeleteEntity(m, "groupMember")))

\* commit: nothing to write is no Action; otherwise one, applied locally at once.
\* The verbs that move an entity between groups, or change Home's roster.
Moves(verbs, x) ==
  Cardinality({i \in DOMAIN verbs :
                 \/ verbs[i].id = x /\ verbs[i].op \in {"create", "add", "remove", "set"}
                 \/ x = Home /\ verbs[i].op = "member"})
Touched(r) == {r.verbs[i].id : i \in DOMAIN r.verbs} \union
              (IF \E i \in DOMAIN r.verbs : r.verbs[i].op = "member" THEN {Home} ELSE {})
DraftCommit(a) ==
  /\ act[a].phase = "resolving" /\ act[a].half = <<>>
  /\ store' = FoldLeft(Applied, store, act[a].updates)
  /\ ran' = <<[verbs |-> act[a].verbs, before |-> store]>>
  /\ twice' = twice \union {x \in Rows \union {Home} : Moves(act[a].verbs, x) > 1}
  /\ act' = [act EXCEPT ![a] = [Idle EXCEPT !.phase = "done"]]
  /\ stale' = stale \union UNION {act[b].read \intersect Touched(act[a]) :
                                    b \in {x \in Actions \ {a} : act[x].phase = "resolving"}}

DrNext ==
  \E a \in Actions :
    \/ \E e \in Fresh, g \in Groups, body \in BOOLEAN : DraftCreate(a, e, <<g>>, body)
    \/ \E e \in Rows, method \in {"patch", "delete"} : ResolveEntityWrite(a, e, method)
    \/ \E e \in Fresh : ResolveDuplicate(a, e, Existing)
    \/ \E e \in Rows : ResolveLink(a, e, Existing) \/ ResolveUnlink(a, e)
    \/ \E e \in Rows, g \in Groups, op \in {"add", "remove"} : ResolveGroupVerb(a, Verb(op, e, {g}))
    \/ \E e \in Rows, gs \in SUBSET Groups \ {{}} : ResolveGroupVerb(a, Verb("set", e, gs))
    \/ ApplyGroupDelta(a)
    \/ DraftCreateGroup(a) \/ DraftCreateMember(a)
    \/ \E m \in Members \union DOMAIN store.perms :
         ResolveMemberPatch(a, m, "none") \/ ResolveMemberDelete(a, m)
    \/ DraftCommit(a)

DrSpec == DrInit /\ [][DrNext]_drVars

-----------------------------------------------------------------------------
\* The groups an entity should have after an action: each verb on what the one
\* before left.
GroupsAfter(verbs, e, start) ==
  FoldLeft(LAMBDA groups, v :
             IF v.id # e THEN groups
             ELSE CASE v.op \in {"create", "duplicate", "set"} -> v.groups
                    [] v.op = "add"    -> groups \union v.groups
                    [] v.op = "remove" -> groups \ v.groups
                    [] OTHER           -> groups,
           start, verbs)

\* The group verbs of one action compose: the entity ends where carrying them out
\* one by one would leave it, though the store shows none of them meanwhile -
\* unless another action moved the entity between the read and the commit.
VerbsCompose ==
  \A i \in DOMAIN ran, e \in Rows \ stale :
    GroupsIn(store, e) = GroupsAfter(ran[i].verbs, e, GroupsIn(ran[i].before, e))

\* A live entity is always in some group, a new group has a capable member, and a
\* group with capable members keeps one, whichever actions ran one after the other - as long as one action does
\* not change two of its members: the roster is read from the store.
NothingStranded ==
  /\ \A e \in Rows \ stale : e \in store.live => GroupsIn(store, e) # {}
  /\ Home \notin stale \union twice => \E m \in DOMAIN store.perms : store.perms[m] = "some"
  /\ store.made \subseteq store.run

\* A generated document is in the groups its entity is in, also when two actions
\* move the entity at once - as long as no action moved it twice: the document's
\* memberships are read from the store, which has not seen the first move.
DocumentsTravel ==
  \A e \in store.docs \ twice : GroupsIn(store, Doc(e)) = GroupsIn(store, e)

\* The same, however often.
DocumentsAlwaysTravel ==
  \A e \in store.docs : GroupsIn(store, Doc(e)) = GroupsIn(store, e)
=============================================================================

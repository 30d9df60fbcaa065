------------------------------- MODULE WriteOps -------------------------------
(***************************************************************************)
(* The write operations of packages/write: what each verb turns into, as a *)
(* sequence of Updates (operations.ts, relationship.ts, verbs.ts), and the *)
(* membership rules read off those Updates (membership.ts).                *)
(*                                                                         *)
(* An Update keeps the fields the rules look at: the row it addresses, its *)
(* method, and for the system rows what they link.  Payload validation is  *)
(* the registry's business and appears here as an operation that throws.   *)
(***************************************************************************)
EXTENDS Sequences, FiniteSets, SequencesExt

CONSTANT Nobody                     \* no id: null, undefined or an absent field

Ids(s) == {s[i] : i \in DOMAIN s}

\* An Update with no field of interest; the builders below fill theirs in.
Update(sub, type, method) ==
  [sub |-> sub, type |-> type, method |-> method, group |-> Nobody, entity |-> Nobody,
   source |-> Nobody, target |-> Nobody, as |-> Nobody, perms |-> "absent", fk |-> <<>>,
   hasFk |-> FALSE]

\* eg_<length>_<entity><group>: one id for one pair, whoever writes it.
EntityGroupId(e, g) == <<"eg", e, g>>

BuildEntityGroupUpdate(e, g) ==
  [Update(EntityGroupId(e, g), "entityGroup", "put") EXCEPT !.entity = e, !.group = g]

BuildEntityGroupDelete(membershipId) == Update(membershipId, "entityGroup", "delete")

BuildEntityGroupUpdates(e, groups) ==
  [i \in DOMAIN groups |-> BuildEntityGroupUpdate(e, groups[i])]

\* No target deletes the relationship row, a target puts it.
BuildRelationshipUpdate(rel, source, target, as) ==
  IF target = Nobody
  THEN Update(rel, "relationship", "delete")
  ELSE [Update(rel, "relationship", "put") EXCEPT
          !.source = source, !.target = target, !.as = as]

\* The canonical FK set of a many-cardinality relationship, on its source row.
BuildManyEntityUpdate(source, type, as, targets) ==
  [Update(source, type, "patch") EXCEPT !.as = as, !.fk = targets, !.hasFk = TRUE]

\* Entries in the order given, each once.
CollectManyTargetIds(targets) ==
  FoldLeft(LAMBDA acc, t : IF t \in Ids(acc) THEN acc ELSE Append(acc, t), <<>>, targets)

-----------------------------------------------------------------------------
(* operations.ts: one operation, one batch of Updates.                      *)

\* A derived body brings its document, the edge to it and the document's
\* own memberships; a pointer brings an edge.  New edges are numbered on from `made`.
DocumentOf(e, field) == <<"doc", e, field>>
NewRow(made, i) == <<"rel", made + i>>

BodyUpdates(e, field, groups) ==
  <<Update(DocumentOf(e, field), "document", "put"),
    BuildRelationshipUpdate(<<"derived", e, field>>, e, DocumentOf(e, field), field)>>
  \o BuildEntityGroupUpdates(DocumentOf(e, field), groups)

CreateEntity(put, groups, bodies, pointers, made) ==
  <<put>> \o BuildEntityGroupUpdates(put.sub, groups)
    \o FlattenSeq([i \in DOMAIN bodies |-> BodyUpdates(put.sub, bodies[i], groups)])
    \o [i \in DOMAIN pointers |->
          BuildRelationshipUpdate(NewRow(made, i), put.sub, pointers[i].target, pointers[i].as)]

CreateSystemEntity(put) == <<put>>

\* A group and the caller's own membership in it, in one Action.
CreateGroup(g, member, perms) ==
  CreateSystemEntity(Update(g, "group", "put"))
    \o CreateSystemEntity([Update(member, "groupMember", "put") EXCEPT
                             !.group = g, !.perms = perms])

PatchEntity(patch) == <<patch>>

DeleteEntity(id, type) == <<Update(id, type, "delete")>>

\* A copy carries the source's fields and is filed on its own.
DuplicateEntity(id, source, groups) ==
  <<[source EXCEPT !.sub = id, !.method = "put"]>> \o BuildEntityGroupUpdates(id, groups)

\* One-cardinality: one relationship row, put or deleted.  Many: the FK set on
\* the source row and a fresh row for each target.
WriteRelationshipOne(source, as, target, rel) ==
  <<BuildRelationshipUpdate(rel, source, target, as)>>

WriteRelationshipMany(source, type, as, targets, made) ==
  LET ids == CollectManyTargetIds(targets)
  IN  <<BuildManyEntityUpdate(source, type, as, ids)>>
        \o [i \in DOMAIN ids |-> BuildRelationshipUpdate(NewRow(made, i), source, ids[i], as)]

-----------------------------------------------------------------------------
(* membership.ts: the groups an Update is scoped to, and the two refusals.  *)

\* MembershipView: the groups of the entities and the group of the membership rows
\* that are known.
KnownGroups(known, e) == IF e \in DOMAIN known.groups THEN known.groups[e] ELSE {}
KnownRow(known, row) == IF row \in DOMAIN known.rows THEN known.rows[row] ELSE Nobody

\* The groups one Update is delivered to, as the server resolves them.
ResolveUpdateGroups(u, known) ==
  CASE u.type = "group"        -> {u.sub}
    [] u.type = "groupMember"  -> {u.group} \ {Nobody}
    [] u.type = "entityGroup"  ->
         IF u.method = "delete" THEN {KnownRow(known, u.sub)} \ {Nobody}
                                ELSE {u.group} \ {Nobody}
    [] u.type = "relationship" -> IF u.source = Nobody THEN {} ELSE KnownGroups(known, u.source)
    [] OTHER                   -> KnownGroups(known, u.sub)

MembershipScope(updates, known) ==
  UNION {ResolveUpdateGroups(updates[i], known) : i \in DOMAIN updates}

ResultingGroups(current, puts, removed) == (current \union puts) \ (removed \ puts)

\* An entity known to be in some group must not end up in none.
LastMembershipViolation(current, puts, removed) ==
  current # {} /\ ResultingGroups(current, puts, removed) = {}

\* A group known to have members must keep one with a permission.  Members are
\* a function from row id to "some" or "none".
LastGroupMemberViolation(members, removedIds, upserts) ==
  /\ DOMAIN members # {}
  /\ \A m \in (DOMAIN members \ removedIds) \union DOMAIN upserts :
       (IF m \in DOMAIN upserts THEN upserts[m] ELSE members[m]) = "none"

\* Memberships put and removed by one Action, with the documents generated for
\* the entity following it: a document is added where it is missing, removed
\* where its entity is, and its edges are written again into a new group.
ChangeGroups(e, puts, removes, docs, held, edges) ==
  BuildEntityGroupUpdates(e, puts)
    \o FlattenSeq([i \in DOMAIN docs |->
         BuildEntityGroupUpdates(docs[i],
           SelectSeq(puts, LAMBDA g : \A h \in held[docs[i]] : h.group # g))])
    \o (IF puts = <<>> THEN <<>> ELSE edges)
    \o [i \in DOMAIN removes |-> BuildEntityGroupDelete(removes[i].row)]
    \o FlattenSeq([i \in DOMAIN docs |->
         [j \in DOMAIN SetToSeq({h \in held[docs[i]] :
                                   \E k \in DOMAIN removes : removes[k].group = h.group}) |->
            BuildEntityGroupDelete(
              SetToSeq({h \in held[docs[i]] :
                          \E k \in DOMAIN removes : removes[k].group = h.group})[j].row)]])

\* changeGroups refuses before it returns: the last membership, or a batch that
\* no group owns.
ChangeGroupsRefused(e, puts, removes, current, updates) ==
  \/ LastMembershipViolation(current, Ids(puts), {removes[i].group : i \in DOMAIN removes})
  \/ /\ updates # <<>>
     /\ MembershipScope(updates,
          [groups |-> [x \in {e} |-> current],
           rows |-> [row \in {removes[i].row : i \in DOMAIN removes} |->
                       removes[CHOOSE i \in DOMAIN removes : removes[i].row = row].group]]) = {}
=============================================================================

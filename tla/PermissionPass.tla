---------------------------- MODULE PermissionPass ----------------------------
(***************************************************************************)
(* The client's local permission pass and its read-only query `can`        *)
(* (packages/client/src/sync/permission.ts): the client's mirror of the    *)
(* rules in Authorizer, over the same view of rows, for a store that has   *)
(* everything the actor may see.  A rule names a permission, the groups    *)
(* any of which may grant it and whether the Action's own bootstrap grant  *)
(* counts.                                                                 *)
(***************************************************************************)
EXTENDS Authorizer

Rule(type, verb, groups, cachedOnly) ==
  [type |-> type, verb |-> verb, groups |-> groups, cachedOnly |-> cachedOnly]

\* RuleResolution: the rules that must all hold, a structural refusal, or a
\* subject that cannot be resolved locally.
Rules(rules) == [kind |-> "rules", rules |-> rules, reason |-> None, groups |-> {}]
Refused(reason, groups) == [kind |-> "refused", rules |-> <<>>, reason |-> reason, groups |-> groups]
Unresolved(reason) == [kind |-> "unresolved", rules |-> <<>>, reason |-> reason, groups |-> {}]

\* METHOD_VERB, METHOD_BY_VERB
MethodByVerb(verb) == CASE verb = "create" -> "put" [] verb = "update" -> "patch"
                        [] verb = "delete" -> "delete"

\* The inputs a write gives resolveRule, over the store and the Action.
ResolveType(v, updates, e) ==
  IF e \in DOMAIN v.types THEN v.types[e] ELSE At(CreatedTypes(updates), e)
CommittedGroupSet(v, e) == {v.rows[r].group : r \in {x \in DOMAIN v.rows : v.rows[x].entity = e}}
GroupSetFor(v, updates, e) ==
  CommittedGroupSet(v, e)
    \union ({u.group : u \in {x \in PutsOf(updates, "entityGroup") : x.entity = e}} \ {None})

MembershipGroupIds(v, u) ==
  IF u.group # None THEN {u.group}
  ELSE IF u.sub \in DOMAIN v.members THEN {v.members[u.sub].group} ELSE {}

ReleasedByDeletes(released, updates) ==
  released \union {u.sub : u \in {x \in Each(updates) : x.type = "relationship" /\ x.method = "delete"}}

-----------------------------------------------------------------------------
(* resolveRule, one operator per arm                                        *)

MemberRule(v, u) ==
  IF MembershipGroupIds(v, u) = {} THEN Unresolved("entity-unknown")
  ELSE Rules(<<Rule("groupMember", VerbOf(u.method), MembershipGroupIds(v, u), FALSE)>>)

FilingRule(v, updates, u) ==
  LET type == ResolveType(v, updates, u.entity)
      home == CommittedGroupSet(v, u.entity)
      create == Rule(type, "create", {u.group}, TRUE)
  IN  IF None \in {u.group, u.entity, type} THEN Unresolved("entity-unknown")
      ELSE IF home = {} THEN Rules(<<create>>)
      ELSE Rules(<<create, Rule(type, "update", home, TRUE)>>)

UnfilingRule(v, updates, u) ==
  LET row == At(v.rows, u.sub)
  IN  IF row = None \/ (row # None /\ ResolveType(v, updates, row.entity) = None)
      THEN Unresolved("entity-unknown")
      ELSE Rules(<<Rule(ResolveType(v, updates, row.entity), "update",
                        GroupSetFor(v, updates, row.entity), TRUE)>>)

\* An edge keeps its source unless the batch released it.
BoundSource(v, released, u) == IF u.sub \in released THEN None ELSE At(v.rels, u.sub)
EdgeRule(v, updates, released, u) ==
  LET source == CASE u.method = "put" -> u.source
                  [] u.method = "delete" -> At(v.rels, u.sub)
                  [] u.method = "patch" -> IF u.source # None THEN u.source ELSE At(v.rels, u.sub)
      type == IF u.method = "put" THEN ResolveType(v, updates, source) ELSE "relationship"
      groups == GroupSetFor(v, updates, source)
  IN  IF /\ u.method # "delete"
         /\ None \notin {u.source, BoundSource(v, released, u)}
         /\ u.source # BoundSource(v, released, u)
      THEN Refused("source-mismatch", GroupSetFor(v, updates, BoundSource(v, released, u)))
      ELSE IF source = None \/ type = None THEN Unresolved("entity-unknown")
      ELSE IF groups = {} THEN Unresolved("no-owner")
      ELSE Rules(<<Rule(type, IF u.method = "put" THEN "update" ELSE VerbOf(u.method), groups, FALSE)>>)

EntityRule(v, updates, u) ==
  LET groups == GroupSetFor(v, updates, u.sub)
      committed == ResolveType(v, updates, u.sub)
  IN  IF groups = {} THEN Unresolved("no-owner")
      ELSE IF committed \notin {None, u.type} THEN Refused("type-mismatch", groups)
      ELSE Rules(<<Rule(u.type, VerbOf(u.method), groups, FALSE)>>)

ResolveRule(v, updates, released, u) ==
  CASE u.type = "group" -> Rules(<<Rule("group", VerbOf(u.method), {u.sub}, FALSE)>>)
    [] u.type = "groupMember" -> MemberRule(v, u)
    [] u.type = "entityGroup" /\ u.method = "put" -> FilingRule(v, updates, u)
    [] u.type = "entityGroup" /\ u.method = "delete" -> UnfilingRule(v, updates, u)
    [] u.type = "entityGroup" /\ u.method = "patch" -> Refused("method-unsupported", {u.group} \ {None})
    [] u.type = "relationship" -> EdgeRule(v, updates, released, u)
    [] OTHER -> EntityRule(v, updates, u)

-----------------------------------------------------------------------------
(* ruleHolds and decideRule                                                 *)

\* The handshake's groups with the local groupMember rows of the actor.
Cached(v) == [g \in {v.members[m].group : m \in {x \in DOMAIN v.members : v.members[x].actor = Me}} |->
                CachedPermissions(v, g)]
Held(cached, bootstrap, g, cachedOnly) ==
  (IF g \in DOMAIN cached THEN cached[g] ELSE {})
    \union (IF ~cachedOnly /\ g \in DOMAIN bootstrap THEN bootstrap[g] ELSE {})
RuleHolds(rule, cached, bootstrap) ==
  \E g \in rule.groups : Grants(Held(cached, bootstrap, g, rule.cachedOnly), rule.type, rule.verb)

\* The first rule that does not hold is the one a violation names.
DecideRule(resolution, cached, bootstrap) ==
  LET missing == SelectSeq(resolution.rules, LAMBDA r : ~RuleHolds(r, cached, bootstrap))
  IN  CASE resolution.kind = "refused" -> [kind |-> "denied", why |-> resolution.reason, groups |-> resolution.groups]
        [] resolution.kind = "unresolved" -> [kind |-> "unknown", why |-> resolution.reason, groups |-> {}]
        [] resolution.kind = "rules" /\ missing # <<>> ->
             [kind |-> "denied", why |-> "missing-permission", groups |-> missing[1].groups]
        [] resolution.kind = "rules" /\ missing = <<>> ->
             [kind |-> "allowed", why |-> None, groups |-> UNION {r.groups : r \in Each(resolution.rules)}]

-----------------------------------------------------------------------------
(* The pass over a write, and the query.                                    *)

\* The groups the Action creates, and what its own memberships in them declare.
PassNewGroups(v, updates) ==
  {u.sub : u \in {x \in PutsOf(updates, "group") : At(v.types, x.sub) # "group"}}
PassBootstrap(v, updates) ==
  LET own == {i \in DOMAIN updates :
                /\ updates[i] \in PutsOf(updates, "groupMember") /\ updates[i].actor = Me
                /\ updates[i].group \in PassNewGroups(v, updates)}
  IN  [g \in {updates[i].group : i \in own} |->
         LET is == {i \in own : updates[i].group = g}
         IN  updates[CHOOSE i \in is : \A j \in is : j <= i].perms]
IsBootstrapExempt(v, updates, u) ==
  LET declared == DOMAIN PassBootstrap(v, updates)
  IN  /\ u.method = "put"
      /\ \/ u.type = "group" /\ u.sub \in declared
         \/ u.type = "groupMember" /\ u.actor = Me /\ u.group \in declared
         \/ /\ u.type = "entityGroup" /\ u.group \in declared
            /\ u.entity \in DOMAIN CreatedTypes(updates) \ DOMAIN v.types

ActionViolations(v, updates, released) ==
  {u \in Each(updates) :
     /\ ~IsBootstrapExempt(v, updates, u)
     /\ DecideRule(ResolveRule(v, updates, ReleasedByDeletes(released, updates), u),
                   Cached(v), PassBootstrap(v, updates)).kind = "denied"}

\* A refused Action releases nothing; before the handshake there is no pass.
CollectViolations(v, actions) ==
  IF DOMAIN Cached(v) = {} THEN [i \in DOMAIN actions |-> {}]
  ELSE FoldLeft(LAMBDA acc, updates :
                  LET bad == ActionViolations(v, updates, acc.released)
                  IN  [all      |-> Append(acc.all, bad),
                       released |-> IF bad = {} THEN ReleasedByDeletes(acc.released, updates) ELSE acc.released],
                [all |-> <<>>, released |-> {}], actions).all

\* can(subject, verb): the committed row stands for the Update's fields.
RowAsUpdate(v, id, verb) ==
  LET u == Upd(id, v.types[id], MethodByVerb(verb))
  IN  CASE id \in DOMAIN v.rows -> [u EXCEPT !.entity = v.rows[id].entity, !.group = v.rows[id].group]
        [] id \in DOMAIN v.members -> [u EXCEPT !.group = v.members[id].group]
        [] id \in DOMAIN v.rels -> [u EXCEPT !.source = v.rels[id]]
        [] OTHER -> u
QueryEntityPermission(v, id, verb) ==
  IF DOMAIN Cached(v) = {} THEN [kind |-> "unknown", why |-> "no-handshake", groups |-> {}]
  ELSE IF ~Exists(v, id) THEN [kind |-> "unknown", why |-> "entity-unknown", groups |-> {}]
  ELSE DecideRule(ResolveRule(v, <<>>, {}, RowAsUpdate(v, id, verb)), Cached(v), <<>>)

\* can("type.verb"): any group of the actor.
QueryActorPermission(v, type, verb) ==
  \E g \in DOMAIN Cached(v) : Grants(Cached(v)[g], type, verb)
=============================================================================

------------------------------ MODULE Authorizer ------------------------------
(***************************************************************************)
(* Write authorization on the server: storage/authorizer.ex with           *)
(* permission_helper.ex and entity_index.ex, and what an accepted Update   *)
(* does to the caches (cache_mutation_planner.ex).                         *)
(*                                                                         *)
(* A view holds the caches: types (the entity-type index), rows (the       *)
(* entityGroup rows), members (the groupMember rows) and rels (the source  *)
(* of each relationship row).  A request is a sequence of Actions, each a  *)
(* sequence of Updates; the request's earlier accepted Actions are known   *)
(* to the later ones through a simulation, as the caches are not updated   *)
(* until they are written.                                                 *)
(***************************************************************************)
EXTENDS Integers, Sequences, FiniteSets, SequencesExt, TLC

CONSTANTS None,         \* an absent field, a row that is not there
          Me            \* the actor whose request it is

SystemTypes == {"group", "groupMember", "relationship", "entityGroup"}

Upd(sub, type, method) ==
  [sub |-> sub, type |-> type, method |-> method, entity |-> None, group |-> None,
   source |-> None, actor |-> None, perms |-> None]

Each(updates) == {updates[i] : i \in DOMAIN updates}
At(f, k) == IF k \in DOMAIN f THEN f[k] ELSE None
Set(f, k, x) == (k :> x) @@ f
Drop(f, k) == [j \in DOMAIN f \ {k} |-> f[j]]
PutsOf(updates, type) == {u \in Each(updates) : u.type = type /\ u.method = "put"}

\* method_to_permission, check_permission
VerbOf(method) == CASE method = "put" -> "create" [] method = "patch" -> "update"
                    [] method = "delete" -> "delete"
Grants(perms, type, verb) == <<type, verb>> \in perms \/ <<type, "*">> \in perms

-----------------------------------------------------------------------------
(* entity_index.ex                                                          *)

Exists(v, id) == id \in DOMAIN v.types
SourceGroupsCached(v, e) == {v.rows[r].group : r \in {x \in DOMAIN v.rows : v.rows[x].entity = e}}

\* With the memberships the Action itself puts.
IntraGroups(updates, e) == {u.group : u \in {x \in PutsOf(updates, "entityGroup") : x.entity = e}} \ {None}
SourceGroups(v, updates, e) == SourceGroupsCached(v, e) \union IntraGroups(updates, e)

Membership(v, row) == At(v.rows, row)
RelationshipSource(v, rel) == At(v.rels, rel)

\* A put or patch is scoped by the source on the wire, anything else by the row.
ScopeSource(v, u) ==
  LET stored == RelationshipSource(v, u.sub)
      first == IF u.method \in {"put", "patch"} THEN u.source ELSE stored
      other == IF u.method \in {"put", "patch"} THEN stored ELSE u.source
  IN  IF first # None THEN first ELSE other

\* With no source at all, the one the Action's last put gives the row.
RelationshipGroups(v, updates, u) ==
  LET puts == {i \in DOMAIN updates : /\ updates[i] \in PutsOf(updates, "relationship")
                                      /\ updates[i].sub = u.sub /\ updates[i].source # None}
  IN  IF ScopeSource(v, u) # None THEN SourceGroups(v, updates, ScopeSource(v, u))
      ELSE UNION {SourceGroups(v, updates, updates[i].source) :
                    i \in {p \in puts : \A q \in puts : q <= p}}

-----------------------------------------------------------------------------
(* permission_helper.ex: the bootstrap of a new group.                      *)

NewGroups(v, updates) == {u.sub : u \in PutsOf(updates, "group")} \ DOMAIN v.types
OwnMemberPut(v, updates, u) == /\ u \in PutsOf(updates, "groupMember")
                               /\ u.actor = Me /\ u.group \in NewGroups(v, updates)
OwnMemberPuts(v, updates) == {u \in Each(updates) : OwnMemberPut(v, updates, u)}

\* The last own membership of a group declares its permissions.
Bootstrap(v, updates) ==
  [g \in {u.group : u \in OwnMemberPuts(v, updates)} |->
     LET is == {i \in DOMAIN updates : OwnMemberPut(v, updates, updates[i]) /\ updates[i].group = g}
     IN  updates[CHOOSE i \in is : \A j \in is : j <= i].perms]

BootstrapMembershipRows(v, updates) ==
  {u.sub : u \in OwnMemberPuts(v, updates)} \ (DOMAIN v.types \union DOMAIN v.members)

CreatedTypes(updates) ==
  LET puts == {i \in DOMAIN updates : updates[i].method = "put" /\ updates[i].type \notin SystemTypes}
  IN  [e \in {updates[i].sub : i \in puts} |->
         LET is == {i \in puts : updates[i].sub = e}
         IN  updates[CHOOSE i \in is : \A j \in is : j <= i].type]
CreatedIds(v, updates) == DOMAIN CreatedTypes(updates) \ DOMAIN v.types

BootstrapUpdate(v, updates, u) ==
  /\ u.method = "put"
  /\ \/ u.type = "group" /\ u.sub \in DOMAIN Bootstrap(v, updates)
     \/ u.type = "groupMember" /\ u.actor = Me /\ u.sub \in BootstrapMembershipRows(v, updates)
     \/ u.type = "entityGroup" /\ u.group \in DOMAIN Bootstrap(v, updates)
        /\ u.entity \in CreatedIds(v, updates)

-----------------------------------------------------------------------------
(* authorizer.ex                                                            *)

\* The permissions the actor's membership gives; an empty list is no membership.
CachedPermissions(v, g) ==
  UNION {v.members[m].perms : m \in {x \in DOMAIN v.members : v.members[x].actor = Me /\ v.members[x].group = g}}
PermissionsFor(v, updates, g) ==
  CachedPermissions(v, g) \union (IF g \in DOMAIN Bootstrap(v, updates) THEN Bootstrap(v, updates)[g] ELSE {})

CheckCached(v, groups, type, verb) == \E g \in groups : Grants(CachedPermissions(v, g), type, verb)
CheckGroups(v, updates, groups, type, verb) ==
  \E g \in groups : Grants(PermissionsFor(v, updates, g), type, verb)

\* An id keeps the type it was committed under, then the one the request gave it.
CommittedType(v, id) ==
  IF Exists(v, id) THEN v.types[id]
  ELSE IF id \in DOMAIN v.members THEN "groupMember"
  ELSE IF id \in DOMAIN v.rows THEN "entityGroup"
  ELSE IF id \in DOMAIN v.rels THEN "relationship" ELSE None
RequestTypes(updates, sim) == sim.types @@ CreatedTypes(updates)
EntityType(v, updates, sim, e) ==
  IF Exists(v, e) THEN v.types[e] ELSE At(RequestTypes(updates, sim), e)

\* check_update_type_identity
TypeHolds(v, updates, sim, u) ==
  LET committed == CommittedType(v, u.sub)
  IN  IF committed # None THEN committed = u.type
      ELSE /\ SourceGroupsCached(v, u.sub) = {}
           /\ At(RequestTypes(updates, sim), u.sub) \in {None, u.type}

\* check_update_row_identity: a row keeps its entity, an edge its source, unless
\* the request deletes the edge.
DeletedRels(updates, sim) ==
  sim.deletedRels \union {u.sub : u \in {x \in Each(updates) : x.type = "relationship" /\ x.method = "delete"}}
RowHolds(v, updates, sim, u) ==
  /\ u.type = "entityGroup" /\ u.method = "put" =>
       Membership(v, u.sub) = None \/ Membership(v, u.sub).entity = u.entity
  /\ u.type = "relationship" /\ u.method \in {"put", "patch"} =>
       \/ u.source = None \/ u.sub \in DeletedRels(updates, sim)
       \/ RelationshipSource(v, u.sub) \in {None, u.source}

DeletedMemberships(v, updates) ==
  {u.sub : u \in {x \in Each(updates) : x.type = "entityGroup" /\ x.method = "delete"}}

\* Mutant: the permission on one side of a move is enough.
AuthorizeMemberOneSide(v, updates, u) ==
  IF u.sub \in DOMAIN v.members
  THEN \E g \in {v.members[u.sub].group, u.group} \ {None} :
         CheckCached(v, {g}, "groupMember", VerbOf(u.method))
  ELSE FALSE

\* authorize_group_member_update: an existing row is bound to its group, and a
\* move needs the permission on both sides.
AuthorizeMember(v, updates, u) ==
  IF u.sub \in DOMAIN v.members
  THEN \A g \in {v.members[u.sub].group, u.group} \ {None} :
         CheckCached(v, {g}, "groupMember", VerbOf(u.method))
  ELSE /\ ~Exists(v, u.sub) /\ u.group # None
       /\ CheckGroups(v, updates, {u.group}, "groupMember", VerbOf(u.method))

\* A put needs create where it files, and update where the entity lives, unless
\* it names the row the pair has; a committed entity in no group is nobody's.
HoldsRow(v, updates, u) ==
  /\ u.sub \in DOMAIN v.rows /\ v.rows[u.sub].group = u.group /\ v.rows[u.sub].entity = u.entity
  /\ u.sub \notin DeletedMemberships(v, updates)
AuthorizeFiling(v, updates, sim, u) ==
  LET type == EntityType(v, updates, sim, u.entity)
      home == SourceGroupsCached(v, u.entity)
  IN  /\ None \notin {u.entity, u.group, type}
      /\ CheckCached(v, {u.group}, type, "create")
      /\ home = {} \/ HoldsRow(v, updates, u) \/ CheckCached(v, home, type, "update")
      /\ ~(home = {} /\ Exists(v, u.entity))

AuthorizeUnfiling(v, updates, sim, u) ==
  /\ Membership(v, u.sub) # None
  /\ LET e == Membership(v, u.sub).entity
     IN  /\ EntityType(v, updates, sim, e) # None
         /\ CheckCached(v, SourceGroupsCached(v, e), EntityType(v, updates, sim, e), "update")

AuthorizeUpdate(v, updates, sim, u) ==
  CASE u.type = "group" -> CheckGroups(v, updates, {u.sub}, "group", VerbOf(u.method))
    [] u.type = "groupMember" -> AuthorizeMember(v, updates, u)
    [] u.type = "entityGroup" ->
         \/ u.method = "put" /\ AuthorizeFiling(v, updates, sim, u)
         \/ u.method = "delete" /\ AuthorizeUnfiling(v, updates, sim, u)
    [] u.type = "relationship" /\ u.method = "put" ->
         /\ u.source # None /\ EntityType(v, updates, sim, u.source) # None
         /\ CheckGroups(v, updates, RelationshipGroups(v, updates, u),
                        EntityType(v, updates, sim, u.source), "update")
    [] u.type = "relationship" /\ u.method # "put" ->
         CheckGroups(v, updates, RelationshipGroups(v, updates, u), "relationship", VerbOf(u.method))
    [] OTHER -> CheckGroups(v, updates, SourceGroups(v, updates, u.sub), u.type, VerbOf(u.method))

CheckUpdate(v, updates, sim, u) ==
  /\ RowHolds(v, updates, sim, u)
  /\ TypeHolds(v, updates, sim, u)
  /\ BootstrapUpdate(v, updates, u) \/ AuthorizeUpdate(v, updates, sim, u)

-----------------------------------------------------------------------------
(* The checks on the whole Action, and what the request's later ones see.   *)

NewSim == [additions |-> {}, removals |-> <<>>, types |-> <<>>, overlay |-> <<>>, rosters |-> <<>>,
           pairs |-> <<>>, removedRows |-> {}, deletedRels |-> {}]

\* check_membership_rows: one row for an entity in a group.
SimRows(v, updates, sim) ==
  LET gone == {<<v.rows[r].entity, v.rows[r].group>> : r \in DeletedMemberships(v, updates) \intersect DOMAIN v.rows}
  IN  [sim EXCEPT !.removedRows = @ \union DeletedMemberships(v, updates),
                  !.pairs = [p \in DOMAIN @ \ gone |-> @[p]]]
LiveRows(v, sim, e, g) ==
  ({r \in DOMAIN v.rows \ sim.removedRows : v.rows[r].entity = e /\ v.rows[r].group = g}
     \union {At(sim.pairs, <<e, g>>)}) \ {None}
CheckMembershipRows(v, updates, sim) ==
  FoldLeft(LAMBDA acc, u :
             IF ~acc.ok \/ u \notin PutsOf(updates, "entityGroup") \/ None \in {u.entity, u.group} THEN acc
             ELSE [ok  |-> LiveRows(v, acc.sim, u.entity, u.group) \subseteq {u.sub},
                   sim |-> [acc.sim EXCEPT !.pairs = Set(@, <<u.entity, u.group>>, u.sub)]],
           [ok |-> TRUE, sim |-> SimRows(v, updates, sim)], updates)

\* check_last_membership: cached and added groups, less those removed more often
\* than they are added.
Added(updates, sim) ==
  sim.additions \union {<<u.entity, u.group>> : u \in {x \in PutsOf(updates, "entityGroup") : None \notin {x.entity, x.group}}}
Removed(v, updates, sim) ==
  LET pairs == [r \in DeletedMemberships(v, updates) \intersect DOMAIN v.rows |-> <<v.rows[r].entity, v.rows[r].group>>]
      all == DOMAIN sim.removals \union {pairs[r] : r \in DOMAIN pairs}
  IN  [p \in all |-> (IF p \in DOMAIN sim.removals THEN sim.removals[p] ELSE 0)
                       + Cardinality({r \in DOMAIN pairs : pairs[r] = p})]
ResultingGroups(v, e, added, removed) ==
  {g \in SourceGroupsCached(v, e) \union {p[2] : p \in {x \in added : x[1] = e}} :
     (IF <<e, g>> \in DOMAIN removed THEN removed[<<e, g>>] ELSE 0) - (IF <<e, g>> \in added THEN 1 ELSE 0) <= 0}
CheckLastMembership(v, added, removed) ==
  \A e \in {p[1] : p \in added \union DOMAIN removed} : ResultingGroups(v, e, added, removed) # {}

\* check_last_group_member: the roster of each group touched, as the request
\* leaves it.
Roster(v, g) == LET ms == {m \in DOMAIN v.members : v.members[m].group = g}
                IN  [m \in ms |-> v.members[m].perms]
Ensure(v, rosters, g) == IF g \in DOMAIN rosters THEN rosters ELSE Set(rosters, g, Roster(v, g))
MemberKnown(v, sim, m) ==
  IF m \in DOMAIN sim.overlay THEN sim.overlay[m]
  ELSE IF m \in DOMAIN v.members THEN [group |-> v.members[m].group, perms |-> v.members[m].perms]
  ELSE [group |-> None, perms |-> {}]
WithoutMember(v, sim, m, g) ==
  [sim EXCEPT !.rosters = Set(Ensure(v, @, g), g, Drop(Ensure(v, @, g)[g], m))]
ApplyMember(v, sim, u) ==
  LET known == MemberKnown(v, sim, u.sub)
      group == IF u.group # None \/ u.method = "put" THEN u.group ELSE known.group
      perms == IF u.perms # None THEN u.perms ELSE IF u.method = "put" THEN {} ELSE known.perms
      left == IF known.group \notin {None, group} THEN WithoutMember(v, sim, u.sub, known.group) ELSE sim
  IN  IF u.method = "delete"
      THEN IF known.group = None THEN sim
           ELSE [WithoutMember(v, sim, u.sub, known.group) EXCEPT
                   !.overlay = Set(@, u.sub, [group |-> None, perms |-> {}])]
      ELSE IF group = None THEN sim
      ELSE [left EXCEPT !.rosters = Set(Ensure(v, @, group), group, Set(Ensure(v, @, group)[group], u.sub, perms)),
                        !.overlay = Set(@, u.sub, [group |-> group, perms |-> perms])]
SimMembers(v, updates, sim) ==
  FoldLeft(LAMBDA acc, u : IF u.type = "groupMember" THEN ApplyMember(v, acc, u) ELSE acc, sim, updates)
Capable(roster) == \E m \in DOMAIN roster : roster[m] # {}

\* authorize_action
AuthorizeAction(v, updates, sim) ==
  LET rows == CheckMembershipRows(v, updates, sim)
      added == Added(updates, sim)
      removed == Removed(v, updates, sim)
      members == SimMembers(v, updates, rows.sim)
  IN  [ok |-> /\ \A u \in Each(updates) : CheckUpdate(v, updates, sim, u)
              /\ rows.ok
              /\ CheckLastMembership(v, added, removed)
              /\ \A g \in DOMAIN members.rosters : Capable(members.rosters[g]),
       sim |-> [members EXCEPT !.additions = added, !.removals = removed,
                               !.types = RequestTypes(updates, sim),
                               !.deletedRels = DeletedRels(updates, sim)]]

\* authorize: a refused Action leaves the simulation as it was.
Authorize(v, request) ==
  FoldLeft(LAMBDA acc, updates :
             LET r == AuthorizeAction(v, updates, acc.sim)
             IN  [sim |-> IF r.ok THEN r.sim ELSE acc.sim, accepted |-> Append(acc.accepted, r.ok)],
           [sim |-> NewSim, accepted |-> <<>>], request).accepted

-----------------------------------------------------------------------------
(* cache_mutation_planner.ex: an Update, in wire order, on the caches.      *)

Planned(v, u) ==
  LET typed == [v EXCEPT !.types = Set(@, u.sub, u.type)]
      old == At(v.members, u.sub)
      member == [actor |-> IF u.actor # None \/ u.method = "put" \/ old = None THEN u.actor ELSE old.actor,
                 group |-> IF u.group # None \/ u.method = "put" \/ old = None THEN u.group ELSE old.group,
                 perms |-> IF u.perms # None THEN u.perms
                           ELSE IF u.method = "put" \/ old = None THEN {} ELSE old.perms]
  IN  CASE u.type = "groupMember" /\ u.method = "delete" -> [typed EXCEPT !.members = Drop(@, u.sub)]
        [] u.type = "groupMember" /\ u.method # "delete" ->
             IF None \in {member.actor, member.group} THEN typed
             ELSE [typed EXCEPT !.members = Set(@, u.sub, member)]
        [] u.type = "entityGroup" /\ u.method = "delete" -> [typed EXCEPT !.rows = Drop(@, u.sub)]
        [] u.type = "entityGroup" /\ u.method # "delete" ->
             IF None \in {u.entity, u.group} THEN typed
             ELSE [typed EXCEPT !.rows = Set(@, u.sub, [entity |-> u.entity, group |-> u.group])]
        [] u.type = "relationship" /\ u.method = "delete" -> [typed EXCEPT !.rels = Drop(@, u.sub)]
        [] u.type = "relationship" /\ u.method # "delete" ->
             IF u.source = None THEN typed ELSE [typed EXCEPT !.rels = Set(@, u.sub, u.source)]
        [] OTHER -> typed

AfterRequest(v, request) ==
  LET accepted == Authorize(v, request)
  IN  FoldLeft(LAMBDA view, i : IF accepted[i] THEN FoldLeft(Planned, view, request[i]) ELSE view,
               v, [i \in DOMAIN request |-> i])
=============================================================================

------------------------------- MODULE Requests -------------------------------
(***************************************************************************)
(* Requests put together Update by Update, judged by the client's pass     *)
(* (PermissionPass) and by the server (Authorizer), and committed.  The    *)
(* actor's requests are applied one after the other; `start` is the view   *)
(* the first one met.                                                      *)
(*                                                                         *)
(* e is a committed entity filed in g1 by the row r1, and the source of    *)
(* the edge k; n is a new one.  g1 and g2 are groups and g3 a new one; own1,*)
(* own2 and other1 are the actor's and somebody else's membership rows.    *)
(***************************************************************************)
EXTENDS PermissionPass

CONSTANTS MaxUpdates,   \* Updates of one request
          MaxRequests

VARIABLES start, view, request, sent
rqVars == <<start, view, request, sent>>

Types == [e |-> "t", r1 |-> "entityGroup", k |-> "relationship", g1 |-> "group", g2 |-> "group",
          own1 |-> "groupMember", own2 |-> "groupMember", other1 |-> "groupMember"]
All == {<<"t", "*">>, <<"group", "*">>, <<"groupMember", "*">>, <<"relationship", "*">>}
Member(actor, group, perms) == [actor |-> actor, group |-> group, perms |-> perms]
View(members) == [types |-> Types, rows |-> [r1 |-> [entity |-> "e", group |-> "g1"]],
                  members |-> members, rels |-> [k |-> "e"]]

\* The actor owns both groups, is a stranger to g1, or may only add to g1.
Views ==
  {View([own1 |-> Member(Me, "g1", All), own2 |-> Member(Me, "g2", All), other1 |-> Member("other", "g1", {})]),
   View([own2 |-> Member(Me, "g2", All), other1 |-> Member("other", "g1", All)]),
   View([own1 |-> Member(Me, "g1", {<<"t", "create">>}), own2 |-> Member(Me, "g2", All),
         other1 |-> Member("other", "g1", All)])}

Filing(row, method, e, g) == [Upd(row, "entityGroup", method) EXCEPT !.entity = e, !.group = g]
Joining(row, method, actor, g, perms) ==
  [Upd(row, "groupMember", method) EXCEPT !.actor = actor, !.group = g, !.perms = perms]
Edge(row, method, source) == [Upd(row, "relationship", method) EXCEPT !.source = source]

Menu ==
  {Upd("e", "t", "put"), Upd("e", "t", "patch"), Upd("e", "t", "delete"), Upd("e", "x", "patch"),
   Upd("n", "t", "put"), Upd("n", "x", "put"),
   Filing("r1", "put", "e", "g1"), Filing("r1", "put", "e", "g2"), Filing("r1", "delete", None, None),
   Filing("r1", "patch", None, "g2"), Filing("r2", "put", "e", "g2"), Filing("r2", "delete", None, None),
   Filing("rn", "put", "n", "g1"), Filing("rn", "put", "n", "g3"), Filing("r1", "put", "n", "g2"),
   Upd("g3", "group", "put"), Upd("g1", "group", "patch"),
   Joining("own3", "put", Me, "g3", All), Joining("own1", "put", Me, "g1", All),
   Joining("own1", "patch", None, None, {}), Joining("own1", "delete", None, None, None),
   Joining("other1", "patch", None, "g2", None), Joining("other1", "patch", None, None, All),
   Edge("k", "put", "e"), Edge("k", "put", "n"), Edge("k", "patch", None), Edge("k", "delete", None)}

-----------------------------------------------------------------------------
(* The state machine.                                                       *)

RqInit == start \in Views /\ view = start /\ request = <<>> /\ sent = 0

Size == FoldLeft(LAMBDA n, updates : n + Len(updates), 0, request)

AddAction == \E u \in Menu : /\ Size < MaxUpdates
                             /\ request' = Append(request, <<u>>)
                             /\ UNCHANGED <<start, view, sent>>
AddUpdate == \E u \in Menu : /\ Size < MaxUpdates /\ request # <<>>
                             /\ request' = [request EXCEPT ![Len(request)] = Append(@, u)]
                             /\ UNCHANGED <<start, view, sent>>
\* Only a request some Action of which is accepted changes anything.
Commit == /\ request # <<>> /\ sent < MaxRequests
          /\ TRUE \in Each(Authorize(view, request))
          /\ view' = AfterRequest(view, request)
          /\ request' = <<>> /\ sent' = sent + 1
          /\ UNCHANGED start

RqNext == AddAction \/ AddUpdate \/ Commit
RqSpec == RqInit /\ [][RqNext]_rqVars

-----------------------------------------------------------------------------
(* Properties                                                               *)

\* Does a request both put and delete one membership row?
Churns(actions) ==
  \E i, j \in DOMAIN actions : \E a \in Each(actions[i]), b \in Each(actions[j]) :
    a.type = "entityGroup" /\ b.type = "entityGroup" /\ a.sub = b.sub /\ a.method = "put" /\ b.method = "delete"

OwnedEntities(v) == {e \in {"e", "n"} : SourceGroupsCached(v, e) # {}}
RunGroups(v) == {g \in {"g1", "g2", "g3"} : Capable(Roster(v, g))}

\* No request leaves an entity that had a group without one, or a group that
\* had a member who can act without one (#264, #479), whatever its Actions
\* take away and give back, unless it puts and deletes one membership row.
NothingOrphaned ==
  LET after == AfterRequest(view, request)
  IN  /\ Churns(request) \/ OwnedEntities(view) \subseteq OwnedEntities(after)
      /\ RunGroups(view) \subseteq RunGroups(after)

\* The same for every request, as authorizer.ex:436 has it.
NeverOrphaned == OwnedEntities(view) \subseteq OwnedEntities(AfterRequest(view, request))

\* Requests of an actor who holds nothing in a group leave its filings, the
\* entities and the edges that live only there, and its roster as they found
\* them; one who may not manage its members leaves the roster.
NoReachBeyondGrant ==
  \A g \in {"g1", "g2"} :
    LET held == CachedPermissions(start, g)
        filed(v) == {r \in DOMAIN v.rows : v.rows[r].group = g}
        only == {e \in {"e", "n"} : SourceGroupsCached(start, e) = {g}}
        edges(v) == {r \in DOMAIN v.rels : v.rels[r] \in only}
    IN  /\ ~(\E verb \in {"create", "update", "delete", "*"} : <<"groupMember", verb>> \in held) =>
             Roster(view, g) = Roster(start, g)
        /\ held = {} => /\ \A r \in filed(start) \union filed(view) : At(view.rows, r) = At(start.rows, r)
                        /\ \A e \in only : view.types[e] = start.types[e]
                        /\ edges(view) = edges(start)

\* A put of the row the pair already has.
Reputs(u) == /\ u.type = "entityGroup" /\ u.method = "put"
             /\ u.sub \in DOMAIN view.rows
             /\ view.rows[u.sub] = [entity |-> u.entity, group |-> u.group]

\* An Update the client's pass refuses is one whose Action the server refuses
\* too: the pass never costs the user a write.  A put of a row that is already
\* there is left out: the server lets it through without `update`.
PassNeverOverRefuses ==
  LET violations == CollectViolations(view, request)
      accepted == Authorize(view, request)
  IN  \A i \in DOMAIN request :
        (\E u \in violations[i] : ~Reputs(u)) => ~accepted[i]

\* can(subject, verb) answers `allowed` or `denied` exactly as the pass judges
\* a write of that one Update (a put files or links as the row says), and
\* can("type.verb") is not denied where some row's own answer is `allowed`.
CanAgrees ==
  request = <<>> => \A id \in DOMAIN view.types, verb \in {"create", "update", "delete"} :
    LET can == QueryEntityPermission(view, id, verb).kind
        write == CollectViolations(view, << <<RowAsUpdate(view, id, verb)>> >>)[1]
        type == view.types[id]
    IN  /\ can # "unknown" => (can = "denied") = (write # {})
        /\ can = "allowed" /\ type \in {"t", "group", "groupMember"}
             => QueryActorPermission(view, type, verb)
=============================================================================

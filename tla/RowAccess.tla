----------------------------- MODULE RowAccess ------------------------------
(***************************************************************************)
(* Reading around one row (client namespace.ts, relationship.ts, the join  *)
(* half of query-builder.ts and the row watchers of replica-signal.ts).    *)
(*                                                                         *)
(* An accessor reads edges from the replica's adjacency index and rows     *)
(* from the storage shim, one await apart, while writes go on.  A query    *)
(* that joins an on-demand type opens each joined row first, and opening   *)
(* pins it in a window of bounded size.  A watcher learns of an edge only  *)
(* from the edge's own row.                                                *)
(*                                                                         *)
(* Ids are numbers, so that "the first link" is the least target.          *)
(***************************************************************************)
EXTENDS Naturals, Sequences, FiniteSets, FiniteSetsExt, SequencesExt

CONSTANTS
  Sources,     \* rows of the held type the accessors are on
  Bodies,      \* rows of the on-demand type relationships lead to
  GroupIds,    \* rows of the group type memberships lead to
  Edges,       \* ids of relationship rows
  Members,     \* ids of entityGroup rows
  Cap,         \* pinnedCapacity
  MaxChanges   \* bound on writes

Rows == Sources \cup Bodies \cup GroupIds

VARIABLES
  rows,      \* storage: "none", "live" or "deleted"
  edges,     \* replica: the relationship and entityGroup rows
  pins,      \* replica: the on-demand rows resident, oldest pin first
  read,      \* the read in flight
  told,      \* what each watched row's listener last saw of its links
  changes,
  seenLinks, \* history: the link sets of the read's row while it ran
  seenRows,  \* history: the storage states while the read ran
  shaken,    \* history: a row the read opened left, or the data changed
  unheard    \* history: rows one of whose edges left the replica entirely

raVars == <<rows, edges, pins, read, told, changes, seenLinks, seenRows, shaken, unheard>>

\* The two ways an accessor says that there is no row; no id is that large.
NullOut   == 1000
Undefined == 1001

NoEdge == [src |-> 0, tgt |-> 0, at |-> "none"]
NoRead == [kind |-> "none", id |-> 0, at |-> "idle", ids |-> {}, out |-> {}]

(***************************************************************************)
(* The adjacency index: live edges only.                                   *)
(***************************************************************************)
ForwardLinks(id)     == {edges[e].tgt : e \in {x \in Edges : edges[x].at = "live" /\ edges[x].src = id}}
ReverseSourceIds(id) == {edges[e].src : e \in {x \in Edges : edges[x].at = "live" /\ edges[x].tgt = id}}
MembershipsOf(id)    == {edges[e].tgt : e \in {x \in Members : edges[x].at = "live" /\ edges[x].src = id}}

LinksOf(kind, id) ==
  CASE kind = "reverse" -> ReverseSourceIds(id)
    [] kind = "groups"  -> MembershipsOf(id)
    [] OTHER            -> ForwardLinks(id)

(***************************************************************************)
(* The row watcher: a change to an edge row tells the listeners of the row *)
(* it names, read off the row as it is now.                                *)
(***************************************************************************)
\* Mutant: an edge that was deleted is not looked at.
AccessorSubjectLive(edge) == IF edge.at = "live" THEN {edge.src} ELSE {}

\* The accessor subject of an edge row; none once the row has left.
AccessorSubject(edge) == IF edge.at = "gone" THEN {} ELSE {edge.src}

LinksNow(es, id) ==
  {es[e].tgt : e \in {x \in Edges \cup Members : es[x].at = "live" /\ es[x].src = id}}

Dispatch(es, e) ==
  [id \in Sources |-> IF id \in AccessorSubject(es[e]) THEN LinksNow(es, id) ELSE told[id]]

\* What a read in flight gets to see of a change.
Noted(es, rs) ==
  /\ seenLinks' = IF read.at = "idle" THEN {}
                  ELSE seenLinks \cup {{es[x].tgt : x \in {y \in Edges : es[y].at = "live" /\ es[y].src = read.id}}}
  /\ seenRows' = IF read.at = "idle" THEN {} ELSE seenRows \cup {rs}
  /\ shaken' = (shaken \/ read.at # "idle")

(***************************************************************************)
(* Writes, as the replica shows them.                                      *)
(***************************************************************************)
PutEdge(e, s, t) ==
  /\ changes < MaxChanges /\ edges[e].at = "none"
  /\ edges' = [edges EXCEPT ![e] = [src |-> s, tgt |-> t, at |-> "live"]]
  /\ told' = Dispatch(edges', e)
  /\ Noted(edges', rows)
  /\ changes' = changes + 1
  /\ UNCHANGED <<rows, pins, read, unheard>>

DeleteEdge(e) ==
  /\ changes < MaxChanges /\ edges[e].at = "live"
  /\ edges' = [edges EXCEPT ![e].at = "deleted"]
  /\ told' = Dispatch(edges', e)
  /\ Noted(edges', rows)
  /\ changes' = changes + 1
  /\ UNCHANGED <<rows, pins, read, unheard>>

\* A group leaves the subscription and takes the edge's row out of the
\* replica; the source row, in another group as well, stays.
EvictEdge(e) ==
  /\ changes < MaxChanges /\ edges[e].at = "live"
  /\ edges' = [edges EXCEPT ![e].at = "gone"]
  /\ told' = Dispatch(edges', e)
  /\ unheard' = unheard \cup {edges[e].src}
  /\ Noted(edges', rows)
  /\ changes' = changes + 1
  /\ UNCHANGED <<rows, pins, read>>

WriteRow(id, state) ==
  /\ changes < MaxChanges /\ rows[id] # state /\ state # "none"
  /\ rows' = [rows EXCEPT ![id] = state]
  /\ Noted(edges, rows')
  /\ changes' = changes + 1
  /\ UNCHANGED <<edges, pins, read, told, unheard>>

(***************************************************************************)
(* Reads.  Each awaits: a step reads, the next uses what it read.          *)
(***************************************************************************)
\* get(id).<accessor>, a joined query over the sources, or get(id) of a body.
Begin(kind, id) ==
  /\ read.at = "idle"
  /\ read' = [NoRead EXCEPT !.kind = kind, !.id = id,
                            !.at = CASE kind \in {"one", "many"} -> "source"
                                     [] kind \in {"reverse", "groups"} -> "links"
                                     [] OTHER -> kind]
  /\ seenLinks' = {ForwardLinks(id)}
  /\ seenRows' = {rows}
  /\ shaken' = FALSE
  /\ UNCHANGED <<rows, edges, pins, told, changes, unheard>>

Keep == UNCHANGED <<rows, edges, told, changes, seenLinks, seenRows, unheard>>

Done(out) == read' = [read EXCEPT !.at = "done", !.out = out]

\* forwardOne and forwardMany read their own row first: without it, nothing.
LoadSource ==
  /\ read.at = "source"
  /\ IF rows[read.id] = "none"
     THEN Done(IF read.kind = "one" THEN {Undefined} ELSE {})
     ELSE read' = [read EXCEPT !.at = "links"]
  /\ UNCHANGED <<pins, shaken>> /\ Keep

ReadLinks ==
  /\ read.at = "links"
  /\ LET links == LinksOf(read.kind, read.id)
     IN  IF read.kind = "one"
         THEN IF links = {} THEN Done({NullOut})
              ELSE read' = [read EXCEPT !.at = "target", !.ids = {Min(links)}]
         ELSE read' = [read EXCEPT !.at = "rows", !.ids = links]
  /\ UNCHANGED <<pins, shaken>> /\ Keep

LoadTarget ==
  /\ read.at = "target"
  /\ Done({IF rows[i] = "none" THEN Undefined ELSE i : i \in read.ids})
  /\ UNCHANGED <<pins, shaken>> /\ Keep

\* The chain over the loaded rows drops the deleted ones.
LoadRows ==
  /\ read.at = "rows"
  /\ Done({i \in read.ids : rows[i] = "live"})
  /\ UNCHANGED <<pins, shaken>> /\ Keep

\* Opening pins the row as the newest and lets the oldest go past the window.
OpenPin(id) ==
  LET opened == Append(SelectSeq(pins, LAMBDA p : p # id), id)
  IN  SubSeq(opened, IF Len(opened) > Cap THEN Len(opened) - Cap + 1 ELSE 1, Len(opened))

\* openJoinedRows: the plan has run; every joined on-demand row is opened.
PlanJoin ==
  /\ read.at = "join"
  /\ read' = [read EXCEPT !.at = "open", !.ids = UNION {ForwardLinks(s) : s \in Sources}]
  /\ UNCHANGED <<pins, shaken>> /\ Keep

OpenJoined(id) ==
  /\ read.at = "open" /\ id \in read.ids
  /\ read' = [read EXCEPT !.ids = @ \ {id}]
  /\ pins' = IF rows[id] = "none" THEN pins ELSE OpenPin(id)
  /\ UNCHANGED shaken /\ Keep

\* resolveJoin: what the replica holds now, live rows only.
JoinedRows == {i \in UNION {ForwardLinks(s) : s \in Sources} : i \in Range(pins) /\ rows[i] = "live"}

ProjectJoin ==
  /\ read.at = "open" /\ read.ids = {}
  /\ Done(JoinedRows)
  /\ UNCHANGED <<pins, shaken>> /\ Keep

\* get(id) of an on-demand row, or a collaborative-text accessor: open it.
GetBody ==
  /\ read.at = "get"
  /\ IF rows[read.id] = "none" THEN Done({NullOut}) /\ pins' = pins
     ELSE Done({read.id}) /\ pins' = OpenPin(read.id)
  /\ UNCHANGED shaken /\ Keep

\* A closed row's TTL runs out, or its scope is evicted.
ReleasePin(id) ==
  /\ id \in Range(pins)
  /\ pins' = SelectSeq(pins, LAMBDA p : p # id)
  /\ shaken' = (shaken \/ read.at # "idle")
  /\ UNCHANGED <<rows, edges, read, told, changes, seenLinks, seenRows, unheard>>

Return ==
  /\ read.at = "done"
  /\ read' = NoRead
  /\ seenLinks' = {} /\ seenRows' = {}
  /\ shaken' = FALSE
  /\ UNCHANGED <<rows, edges, pins, told, changes, unheard>>

RaInit ==
  /\ rows = [id \in Rows |-> IF id \in Bodies /\ id # Min(Bodies) THEN "none" ELSE "live"]
  /\ edges = [e \in Edges \cup Members |-> NoEdge]
  /\ pins = <<>> /\ read = NoRead
  /\ told = [id \in Sources |-> {}]
  /\ changes = 0 /\ seenLinks = {} /\ seenRows = {} /\ shaken = FALSE /\ unheard = {}

RaNext ==
  \/ \E e \in Edges, s \in Sources, t \in Bodies : PutEdge(e, s, t)
  \/ \E e \in Members, s \in Sources, t \in GroupIds : PutEdge(e, s, t)
  \/ \E e \in Edges \cup Members : DeleteEdge(e) \/ EvictEdge(e)
  \/ \E id \in Rows, state \in {"live", "deleted"} : WriteRow(id, state)
  \/ \E kind \in {"one", "many", "groups"}, id \in Sources : Begin(kind, id)
  \/ \E kind \in {"reverse", "get"}, id \in Bodies : Begin(kind, id)
  \/ Begin("join", Min(Sources))
  \/ LoadSource \/ ReadLinks \/ LoadTarget \/ LoadRows
  \/ PlanJoin \/ ProjectJoin \/ GetBody \/ Return
  \/ \E id \in Bodies : OpenJoined(id) \/ ReleasePin(id)

RaSpec == RaInit /\ [][RaNext]_raVars

(***************************************************************************)
(* Properties.                                                             *)
(***************************************************************************)
\* A forward-one accessor says null, undefined or a row only if that was so
\* at some moment of the read.
OneWasTrue ==
  read.kind = "one" /\ read.at = "done" =>
    /\ NullOut \in read.out => {} \in seenLinks
    /\ Undefined \in read.out =>
         \E rs \in seenRows : \/ rs[read.id] = "none"
                              \/ \E links \in seenLinks : links # {} /\ rs[Min(links)] = "none"
    /\ \A i \in read.out \cap Bodies : \E links \in seenLinks : links # {} /\ i = Min(links)

\* A joined query that nothing disturbed leaves no joined row out, as long
\* as the rows it joins fit the window of pinned rows.
NoHole(limit) ==
  read.kind = "join" /\ read.at = "done" /\ ~shaken =>
    LET opened == {i \in UNION {ForwardLinks(s) : s \in Sources} : rows[i] # "none"}
    IN  Cardinality(opened) <= limit => {i \in opened : rows[i] = "live"} \subseteq read.out

\* The listener of a watched row last saw the links the row has, unless one
\* of its edges left the replica together with its row.
ListenersTold == \A id \in Sources \ unheard : told[id] = LinksNow(edges, id)

(* Reads around a row are true of some moment while they ran, joins over   *)
(* rows that fit the pin window have no holes, and a row's listeners know  *)
(* every change of its links that the replica shows as a change of an edge *)
(* row (relationship.ts forwardOne, query-builder.ts openJoinedRows,       *)
(* replica-signal.ts createEntityWatcher).                                 *)
ReadsAreTrue == OneWasTrue /\ NoHole(Cap) /\ ListenersTold

(* A joined query never leaves a hole, as the comment on openJoinedRows    *)
(* says, however many rows it joins.                                       *)
JoinsHaveNoHole == NoHole(Cardinality(Bodies))
=============================================================================

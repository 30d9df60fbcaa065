------------------------------ MODULE CausalTree ------------------------------
(***************************************************************************)
(* The causal tree of a collaborative text: tree.ts of packages/schema.    *)
(* A document is a tree of runs.  A run id is the tuple <<hlc, actor>>,    *)
(* with one more number for every split that cut it off its left half; a   *)
(* text is a sequence of characters.  Everything here is an operator on    *)
(* document states; TextDocument gives them their callers.                 *)
(*                                                                         *)
(* JavaScript maps iterate in insertion order, and that order decides in   *)
(* which order the runs of one action reach a peer, so `order` keeps it.   *)
(***************************************************************************)
EXTENDS Integers, Sequences, SequencesExt, FiniteSets

RootId == <<>>

\* A run; ids are the keys of the maps below.
RunNode(hlc, actor, text, parent, deleted) ==
  [hlc |-> hlc, actor |-> actor, text |-> text, parent |-> parent,
   deleted |-> deleted]

RootNode == RunNode(0, 0, <<>>, <<>>, FALSE)

RunSpan(id, length) == [run |-> id, length |-> length]

MakeRunId(hlc, actor) == <<hlc, actor>>

MakeSplitId(id, offset) == Append(id, offset)

CreateDocState ==
  [nodes |-> [i \in {RootId} |-> RootNode],
   order |-> <<RootId>>,
   children |-> [i \in {RootId} |-> <<>>],
   spans |-> <<>>, total |-> 0]

Has(s, id) == id \in DOMAIN s.nodes

\* The higher stamp first, then the greater actor: compareRuns(a, b) < 0.
Before(a, b) == a.hlc > b.hlc \/ (a.hlc = b.hlc /\ a.actor > b.actor)

Put(f, k, v) == [x \in DOMAIN f \cup {k} |-> IF x = k THEN v ELSE f[x]]

ChildrenOf(s, id) == IF id \in DOMAIN s.children THEN s.children[id] ELSE <<>>

(***************************************************************************)
(* Reading the tree.                                                       *)
(***************************************************************************)

RECURSIVE Dfs(_, _)
Dfs(s, id) ==
  FoldLeft(LAMBDA seen, child : seen \o Dfs(s, child), <<id>>,
           ChildrenOf(s, id))

CollectSubtreeIds(s, id) == ToSet(Dfs(s, id))

LiveRuns(s) == SelectSeq(Dfs(s, RootId),
                         LAMBDA i : i # RootId /\ ~s.nodes[i].deleted)

Reconstruct(s) ==
  FoldLeft(LAMBDA text, i : text \o s.nodes[i].text, <<>>, LiveRuns(s))

SpanTotal(spans) == FoldLeft(LAMBDA n, sp : n + sp.length, 0, spans)

\* The span holding a document position, counted from 0: its index, or 0.
LookupPosition(spans, pos) ==
  LET Hits == {i \in DOMAIN spans :
                 /\ SpanTotal(SubSeq(spans, 1, i - 1)) <= pos
                 /\ pos < SpanTotal(SubSeq(spans, 1, i))}
  IN IF Hits = {} THEN 0 ELSE CHOOSE i \in Hits : TRUE

(***************************************************************************)
(* INSERT_RUN.                                                             *)
(***************************************************************************)

\* The place among the siblings: before the first that the new run precedes.
SiblingIndex(s, siblings, node) ==
  LET Later == {i \in DOMAIN siblings : Has(s, siblings[i])
                                        /\ Before(node, s.nodes[siblings[i]])}
  IN IF Later = {} THEN Len(siblings) + 1
     ELSE CHOOSE i \in Later : \A j \in Later : i <= j

\* The first index from `from` on whose span lies outside `ids`.
SkipOver(spans, from, ids) ==
  CHOOSE j \in from..(Len(spans) + 1) :
    /\ j = Len(spans) + 1 \/ spans[j].run \notin ids
    /\ \A k \in from..(j - 1) : spans[k].run \in ids

\* Where the span of a run just put into the tree goes in the flat list.
FindSpanInsertIndex(s, id) ==
  LET parent == s.nodes[id].parent
      siblings == ChildrenOf(s, parent)
      mine == CHOOSE i \in DOMAIN siblings : siblings[i] = id
      ParentSpans == {i \in DOMAIN s.spans : s.spans[i].run = parent}
      start == IF parent = RootId THEN 1
               ELSE (CHOOSE i \in ParentSpans : TRUE) + 1
  IN IF parent # RootId /\ ParentSpans = {} THEN Len(s.spans) + 1
     ELSE FoldLeft(LAMBDA at, sib : SkipOver(s.spans, at,
                                             CollectSubtreeIds(s, sib)),
                   start, SubSeq(siblings, 1, mine - 1))

ApplyInsertRun(s, id, node) ==
  IF Has(s, id) THEN s
  ELSE LET siblings == ChildrenOf(s, node.parent)
           placed == InsertAt(siblings, SiblingIndex(s, siblings, node), id)
           kids == Put(s.children, node.parent, placed)
           tree == [s EXCEPT
                      !.nodes = Put(@, id, node),
                      !.order = Append(@, id),
                      !.children = IF id \in DOMAIN kids THEN kids
                                   ELSE Put(kids, id, <<>>)]
       IN IF node.deleted THEN tree
          ELSE [tree EXCEPT
                  !.spans = InsertAt(@, FindSpanInsertIndex(tree, id),
                                     RunSpan(id, Len(node.text))),
                  !.total = @ + Len(node.text)]

(***************************************************************************)
(* SPLIT: the left half keeps the id and has only the right half as child; *)
(* the right half takes over the children.                                 *)
(***************************************************************************)
ApplySplit(s, id, offset) ==
  LET right == MakeSplitId(id, offset)
      node == s.nodes[id]
      moved == ToSet(ChildrenOf(s, id))
      rightNode == RunNode(node.hlc, node.actor,
                           SubSeq(node.text, offset + 1, Len(node.text)),
                           id, node.deleted)
      nodes == [x \in DOMAIN s.nodes \cup {right} |->
                  IF x = right THEN rightNode
                  ELSE IF x = id
                  THEN [node EXCEPT !.text = SubSeq(@, 1, offset)]
                  ELSE IF x \in moved THEN [s.nodes[x] EXCEPT !.parent = right]
                  ELSE s.nodes[x]]
      halves == <<RunSpan(id, offset), RunSpan(right, Len(node.text) - offset)>>
  IN IF ~Has(s, id) \/ offset \notin 1..(Len(s.nodes[id].text) - 1)
          \/ Has(s, right)
     THEN s
     ELSE [s EXCEPT
             !.nodes = nodes,
             !.order = Append(@, right),
             !.children = Put(Put(@, right, ChildrenOf(s, id)), id, <<right>>),
             !.spans = FlattenSeq([i \in DOMAIN @ |->
                                     IF @[i].run = id THEN halves
                                     ELSE <<@[i]>>])]

(***************************************************************************)
(* DELETE_RANGE, EXTEND_RUN and the receiver's replacement of a run.       *)
(***************************************************************************)
TombstoneRun(s, id) ==
  IF ~Has(s, id) \/ s.nodes[id].deleted THEN s
  ELSE [s EXCEPT !.nodes[id].deleted = TRUE,
                 !.spans = SelectSeq(@, LAMBDA sp : sp.run # id),
                 !.total = @ - Len(s.nodes[id].text)]

ApplyDeleteRange(s, id, offset, count) ==
  LET len == Len(s.nodes[id].text)
      cut == ApplySplit(s, id, offset)
      right == MakeSplitId(id, offset)
  IN IF \/ ~Has(s, id) \/ s.nodes[id].deleted
        \/ offset < 0 \/ count <= 0 \/ offset + count > len
     THEN s
     ELSE IF offset = 0 /\ count = len THEN TombstoneRun(s, id)
     ELSE IF offset = 0 THEN TombstoneRun(ApplySplit(s, id, count), id)
     ELSE IF offset + count = len THEN TombstoneRun(cut, right)
     ELSE TombstoneRun(ApplySplit(cut, right, count), right)

Resized(spans, id, length) ==
  [i \in DOMAIN spans |-> IF spans[i].run = id THEN RunSpan(id, length)
                          ELSE spans[i]]

ApplyExtendRun(s, id, more, hlc) ==
  IF ~Has(s, id) \/ s.nodes[id].deleted THEN s
  ELSE [s EXCEPT !.nodes[id].text = @ \o more,
                 !.nodes[id].hlc = hlc,
                 !.spans = Resized(@, id, Len(s.nodes[id].text) + Len(more)),
                 !.total = @ + Len(more)]

ApplySetRun(s, id, node) ==
  IF ~Has(s, id) \/ s.nodes[id].deleted THEN s
  ELSE [s EXCEPT !.nodes[id] = [node EXCEPT !.parent = s.nodes[id].parent,
                                            !.deleted = FALSE],
                 !.spans = Resized(@, id, Len(node.text)),
                 !.total = @ + Len(node.text) - Len(s.nodes[id].text)]

(***************************************************************************)
(* The wire path.  A field is [run, live, node]: the final state of a run, *)
(* or a tombstone.  The result names what a listener is told: the kind of  *)
(* the change, or "none".                                                  *)
(***************************************************************************)
Placeholder(id, node) == RunNode(node.hlc, node.actor, <<>>, RootId, TRUE)

WithParent(s, node) ==
  IF node.parent = RootId \/ Has(s, node.parent) THEN s
  ELSE ApplyInsertRun(s, node.parent, Placeholder(node.parent, node))

\* A received state the run already has, or one older than what it has.
NothingNew(existing, node) ==
  \/ /\ node.text = existing.text
     /\ node.hlc = existing.hlc
     /\ node.actor = existing.actor
  \/ existing.hlc > node.hlc

ApplyRunFieldUpdate(s, f) ==
  LET existing == s.nodes[f.run]
      Result(state, kind) == [state |-> state, kind |-> kind]
  IN IF ~f.live
     THEN IF ~Has(s, f.run) \/ existing.deleted THEN Result(s, "none")
          ELSE Result(ApplyDeleteRange(s, f.run, 0, Len(existing.text)),
                      "tombstone")
     ELSE IF ~Has(s, f.run)
     THEN Result(ApplyInsertRun(WithParent(s, f.node), f.run, f.node), "insert")
     ELSE IF existing.deleted
     THEN Result(ApplyInsertRun(s, f.run, f.node), "insert")
     ELSE IF NothingNew(existing, f.node) THEN Result(s, "none")
     ELSE Result(ApplySetRun(s, f.run, f.node), "extend")

ApplyRunFieldUpdates(s, fields) ==
  FoldLeft(LAMBDA st, f : ApplyRunFieldUpdate(st, f).state, s, fields)
=============================================================================

----------------------------- MODULE TextDocument -----------------------------
(***************************************************************************)
(* Peers that edit one collaborative text.  A peer holds a TextDocument    *)
(* (text-document.ts) and, when it is an editor, a CodeMirror view bound   *)
(* to it (bridge.ts of packages/codemirror).  A change in the view becomes *)
(* local deletes, inserts and extends; each is applied to the peer's tree, *)
(* turned into an action by the difference of the trees before and after   *)
(* (wire.ts), and sent.  The server gives the actions one order, in which  *)
(* every peer receives them, its own included.  A reader has no view: it   *)
(* hydrates its tree from the merged `content` map of the document.        *)
(***************************************************************************)
EXTENDS CausalTree

CONSTANTS Authors,      \* the editors that type, numbered: an actor id
          Watchers,     \* editors that only receive
          Readers,      \* peers that hydrate from the content map
          TypeAhead,    \* may an author type before its edits came back
          MaxChanges,   \* bound on the changes made in all views
          MaxHlc,       \* bound on the stamps
          MaxJump,      \* how far a wall clock may run ahead of the last stamp
          MaxInsert     \* bound on the characters one change inserts

VARIABLES peer,   \* peer[p]: the document, its view and its queue
          changes,  \* how many changes were made in the views
          log     \* the committed actions, in the order of their GSNs

tvars == <<peer, log, changes>>

Peers == Authors \cup Watchers \cup Readers

ASSUME TextAssumption ==
  /\ Authors \cap Watchers = {} /\ Authors \cap Readers = {}
  /\ Watchers \cap Readers = {}
  /\ TypeAhead \in BOOLEAN
  /\ Peers \subseteq Nat \ {0}

NewDocument ==
  [doc |-> CreateDocState,   \* state
   view |-> <<>>,            \* the text CodeMirror shows
   mirror |-> <<>>,          \* idMapField: the spans the view knows
   content |-> <<>>,         \* a reader's content map, in key order
   pending |-> <<>>,         \* actions not yet accepted
   clock |-> 0,              \* localHlcState
   counter |-> 0,            \* updateCounter
   got |-> 0]                \* how much of the log was delivered

Init == /\ peer = [p \in Peers |-> NewDocument]
        /\ log = <<>>
        /\ changes = 0

(***************************************************************************)
(* wire.ts: the runs that differ between two states of a tree.             *)
(***************************************************************************)
Field(id, node) == [run |-> id, live |-> ~node.deleted, node |-> node]

\* A run that is gone is listed whether or not this edit removed it.
Differs(pre, post, id) ==
  \/ post.nodes[id].deleted
  \/ post.nodes[id].text # pre.nodes[id].text
  \/ post.nodes[id].hlc # pre.nodes[id].hlc

DiffRunMap(pre, post) ==
  LET changed == SelectSeq(pre.order,
                   LAMBDA i : i # RootId /\ Differs(pre, post, i))
      created == SelectSeq(post.order,
                   LAMBDA i : ~Has(pre, i) /\ ~post.nodes[i].deleted)
      runs == changed \o created
  IN [i \in DOMAIN runs |-> Field(runs[i], post.nodes[runs[i]])]

(***************************************************************************)
(* The content map: per run the entry with the higher stamp, and among     *)
(* equal stamps the greater update id, the incoming one if they are equal. *)
(***************************************************************************)
Wins(incoming, existing) ==
  \/ incoming.hlc > existing.hlc
  \/ /\ incoming.hlc = existing.hlc
     /\ \/ incoming.uid[1] > existing.uid[1]
        \/ incoming.uid[1] = existing.uid[1] /\ incoming.uid[2] >= existing.uid[2]

MergeEntry(content, e) ==
  LET At == {i \in DOMAIN content : content[i].field.run = e.field.run}
  IN IF At = {} THEN Append(content, e)
     ELSE [i \in DOMAIN content |->
             IF i \in At /\ Wins(e, content[i]) THEN e ELSE content[i]]

MergeContent(content, a) ==
  FoldLeft(LAMBDA c, f : MergeEntry(c, [field |-> f, hlc |-> a.hlc,
                                        uid |-> a.uid]),
           content, a.fields)

(***************************************************************************)
(* text-document.ts: local edits.  They apply to the tree at once and      *)
(* queue the action the difference makes; an edit that changes nothing     *)
(* queues nothing.                                                         *)
(***************************************************************************)

\* The action of an edit that took the stamp h, from the tree it changed.
Authored(d, post, h, uid) ==
  LET fields == DiffRunMap(d.doc, post)
      action == [fields |-> fields, hlc |-> h, uid |-> uid]
  IN [d EXCEPT !.doc = post,
               !.clock = h,
               !.pending = IF fields = <<>> THEN @ ELSE Append(@, action)]

\* Update ids compare as their prefixes do: u_<run>, u_del_<n>, u_ext_<n>.
LocalInsert(d, p, text, parent, split, h) ==
  LET id == MakeRunId(h, p)
      opened == IF split = 0 THEN d.doc ELSE ApplySplit(d.doc, parent, split)
      node == RunNode(h, p, text, parent, FALSE)
      fits == split = 0 \/ (Has(d.doc, parent)
                             /\ split \in 1..(Len(d.doc.nodes[parent].text) - 1))
  IN IF ~fits THEN [d EXCEPT !.clock = h]
     ELSE Authored(d, ApplyInsertRun(opened, id, node), h, <<0, p>>)

LocalDelete(d, id, offset, count, h) ==
  IF \/ ~Has(d.doc, id) \/ d.doc.nodes[id].deleted
     \/ offset < 0 \/ count <= 0 \/ offset + count > Len(d.doc.nodes[id].text)
  THEN d
  ELSE Authored([d EXCEPT !.counter = @ + 1],
                ApplyDeleteRange(d.doc, id, offset, count), h, <<1, d.counter>>)

LocalExtend(d, id, more, h) ==
  IF ~Has(d.doc, id) \/ d.doc.nodes[id].deleted THEN d
  ELSE Authored([d EXCEPT !.counter = @ + 1],
                ApplyExtendRun(d.doc, id, more, h), h, <<2, d.counter>>)

(***************************************************************************)
(* bridge.ts: a change of the view that removes [from, to) and types text  *)
(* there, positions counted from 0.  Every lookup reads the spans as they  *)
(* were before the change.                                                 *)
(***************************************************************************)
BridgeDelete(d, spans, from, to, h) ==
  LET Step(acc, i) ==
        LET start == SpanTotal(SubSeq(spans, 1, i - 1))
            lo == IF start < from THEN from ELSE start
            hi == IF start + spans[i].length < to THEN start + spans[i].length
                  ELSE to
        IN IF lo >= hi THEN acc
           ELSE LET next == LocalDelete(acc, spans[i].run, lo - start, hi - lo,
                                        acc.clock + 1)
                IN next
  IN FoldLeft(Step, [d EXCEPT !.clock = h - 1], [i \in DOMAIN spans |-> i])

\* Mutant: a change inside a run splits it one character too early.
BridgeInsertEarly(d, p, spans, from, text, h) ==
  LET at == LookupPosition(spans, from - 1)
      id == spans[at].run
      offset == from - 1 - SpanTotal(SubSeq(spans, 1, at - 1))
  IN IF from = 0 \/ at = 0 THEN LocalInsert(d, p, text, RootId, 0, h)
     ELSE LocalInsert(d, p, text, id, offset, h)

BridgeInsert(d, p, spans, from, text, h) ==
  LET at == LookupPosition(spans, from - 1)
      id == spans[at].run
      offset == from - 1 - SpanTotal(SubSeq(spans, 1, at - 1))
      run == d.doc.nodes[id]
      atEnd == offset = Len(run.text) - 1
  IN IF from = 0 \/ at = 0 \/ ~Has(d.doc, id) \/ run.deleted
     THEN LocalInsert(d, p, text, RootId, 0, h)
     ELSE IF atEnd /\ run.actor = p /\ ChildrenOf(d.doc, id) = <<>>
     THEN LocalExtend(d, id, text, h)
     ELSE LocalInsert(d, p, text, id, IF atEnd THEN 0 ELSE offset + 1, h)

\* What is typed with stamp h: characters nobody else types.
Typed(p, h, n) == [i \in 1..n |-> 100 * h + 10 * p + i]

\* The view after the user's change; the bridge leaves it alone.
Edited(view, from, to, text) ==
  SubSeq(view, 1, from) \o text \o SubSeq(view, to + 1, Len(view))

ChangeView(p, from, to, n, h) ==
  LET d == peer[p]
      spans == d.mirror
      cut == IF to > from THEN BridgeDelete(d, spans, from, to, h) ELSE d
      stamp == IF to > from THEN cut.clock + 1 ELSE h
      text == Typed(p, stamp, n)
      done == IF n = 0 THEN cut
              ELSE BridgeInsert(cut, p, spans, from, text, stamp)
  IN /\ changes < MaxChanges
     /\ TypeAhead \/ (d.pending = <<>> /\ d.got = Len(log))
     /\ n > 0 \/ to > from
     /\ done.clock <= MaxHlc
     /\ peer' = [peer EXCEPT ![p] =
          [done EXCEPT !.view = Edited(d.view, from, to, text),
                       !.mirror = done.doc.spans]]
     /\ changes' = changes + 1
     /\ UNCHANGED log

(***************************************************************************)
(* selfFlush: the server accepts the oldest pending action.                *)
(***************************************************************************)
Commit(p) ==
  /\ peer[p].pending # <<>>
  /\ log' = Append(log, Head(peer[p].pending))
  /\ peer' = [peer EXCEPT ![p].pending = Tail(@)]
  /\ UNCHANGED changes

(***************************************************************************)
(* Receiving: applyActions and, per changed run, the event that carries it *)
(* to the view.                                                            *)
(***************************************************************************)
RunStart(spans, id) ==
  LET At == {i \in DOMAIN spans : spans[i].run = id}
  IN IF At = {} THEN -1
     ELSE SpanTotal(SubSeq(spans, 1, (CHOOSE i \in At : TRUE) - 1))

RunLength(spans, id) ==
  FoldLeft(LAMBDA n, sp : n + IF sp.run = id THEN sp.length ELSE 0, 0, spans)

\* applyDocUpdateToCM: the range of the view an event replaces, looked up in
\* the spans mirrored so far, and what replaces it; the document is already
\* the one after the whole batch.
ViewChange(mirror, doc, id, kind) ==
  LET start == RunStart(mirror, id)
      node == doc.nodes[id]
      parent == RunStart(mirror, node.parent)
      after == IF parent = -1 THEN 0 ELSE parent + RunLength(mirror, node.parent)
      Change(from, to, text) == [from |-> from, to |-> to, text |-> text]
      end == start + RunLength(mirror, id)
  IN CASE kind = "tombstone" /\ start # -1 -> Change(start, end, <<>>)
       [] kind = "extend" /\ start # -1 /\ ~node.deleted ->
            Change(start, end, node.text)
       [] kind = "insert" /\ ~node.deleted -> Change(after, after, node.text)
       [] OTHER -> Change(0, 0, <<>>)

\* The dispatch changes the view and mirrors the new spans; a range beyond
\* the end of the view throws, which the document's listener loop swallows.
Dispatched(v, doc, e) ==
  LET c == ViewChange(v.mirror, doc, e.run, e.kind)
  IN IF c.to > Len(v.view) THEN v
     ELSE [view |-> Edited(v.view, c.from, c.to, c.text), mirror |-> doc.spans]

\* The events of a batch: the state before and after and the run's kind.
AppliedEvents(doc, fields) ==
  LET Step(acc, f) ==
        LET r == ApplyRunFieldUpdate(acc.doc, f)
        IN [doc |-> r.state,
            events |-> IF r.kind = "none" THEN acc.events
                       ELSE Append(acc.events, [run |-> f.run, kind |-> r.kind])]
  IN FoldLeft(Step, [doc |-> doc, events |-> <<>>], fields)

ApplyActions(p) ==
  LET d == peer[p]
      a == log[d.got + 1]
      applied == AppliedEvents(d.doc, a.fields)
      shown == FoldLeft(LAMBDA v, e : Dispatched(v, applied.doc, e),
                        [view |-> d.view, mirror |-> d.mirror], applied.events)
  IN /\ d.got < Len(log)
     /\ peer' = [peer EXCEPT ![p] =
          [d EXCEPT !.doc = applied.doc,
                    !.view = shown.view,
                    !.mirror = shown.mirror,
                    !.got = @ + 1]]
     /\ UNCHANGED <<log, changes>>

\* The replica of a reader takes an action in.
Materialize(p) ==
  /\ peer[p].got < Len(log)
  /\ peer' = [peer EXCEPT ![p] =
       [@ EXCEPT !.content = MergeContent(@, log[peer[p].got + 1]),
                 !.got = @ + 1]]
  /\ UNCHANGED <<log, changes>>

ParseContentField(content) == [i \in DOMAIN content |-> content[i].field]

Hydrate(p) ==
  LET doc == ApplyRunFieldUpdates(peer[p].doc, ParseContentField(peer[p].content))
  IN /\ peer[p].content # <<>>
     /\ peer' = [peer EXCEPT ![p].doc = doc]
     /\ UNCHANGED <<log, changes>>

Next ==
  \/ \E p \in Authors :
       \/ \E from \in 0..Len(peer[p].view), to \in 0..Len(peer[p].view),
             n \in 0..MaxInsert, h \in (peer[p].clock + 1)..(peer[p].clock + 1 + MaxJump) :
            from <= to /\ ChangeView(p, from, to, n, h)
       \/ Commit(p)
  \/ \E p \in Authors \cup Watchers : ApplyActions(p)
  \/ \E p \in Readers : Materialize(p) \/ Hydrate(p)

Spec == Init /\ [][Next]_tvars

-----------------------------------------------------------------------------

Settled == \A p \in Authors : peer[p].pending = <<>>

Caught(p) == peer[p].got = Len(log)

LiveText(s) == [i \in ToSet(LiveRuns(s)) |-> s.nodes[i].text]

\* The position index covers the tree: its spans are the live runs with
\* their lengths, each once, and their sum is the length of the text.  The
\* reducer keeps the index by hand through inserts, splits, deletes,
\* extends and replacements (applyInsertRun ... applySetRun).
IndexCoversTree ==
  \A p \in Peers :
    LET s == peer[p].doc
        live == LiveRuns(s)
    IN /\ \A i \in DOMAIN s.spans :
            /\ s.spans[i].run \in ToSet(live)
            /\ s.spans[i].length = Len(s.nodes[s.spans[i].run].text)
       /\ Len(s.spans) = Len(live)
       /\ s.total = Len(Reconstruct(s))

\* A sole author, once its edits came back to it, has in its tree the text
\* it typed, in its order: local edits, the differences made of them and
\* their echoes agree (localInsert ... applyActions).
AuthorKeepsText ==
  \A p \in Authors :
    (Authors = {p} /\ Settled /\ Caught(p)) =>
      /\ Reconstruct(peer[p].doc) = peer[p].view

\* Everyone who received everything from a sole author has the author's live
\* runs with the author's text in each, whether actions were applied one by
\* one or the merged map was hydrated.
ReceiversHaveRuns ==
  \A p \in Authors, q \in Peers :
    (/\ Authors = {p} /\ Settled /\ Caught(p) /\ Caught(q)
     /\ q \in Readers =>
          peer[q].doc = ApplyRunFieldUpdates(peer[q].doc,
                                             ParseContentField(peer[q].content)))
      => LiveText(peer[q].doc) = LiveText(peer[p].doc)

\* Peers that received the same actions show the same text.
PeersConverge ==
  (Settled /\ \A p \in Authors \cup Watchers : Caught(p)) =>
    \A p, q \in Authors \cup Watchers :
      Reconstruct(peer[p].doc) = Reconstruct(peer[q].doc)

=============================================================================

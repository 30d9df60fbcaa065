------------------------------ MODULE GroupSeed ------------------------------
(***************************************************************************)
(* Cold bootstrap of one group from the entity listing                     *)
(* (client/src/sync/group-listing.ts) and the content backfill             *)
(* (client/src/sync/backfill.ts), followed by catch-up over the log.       *)
(*                                                                         *)
(* The server commits puts, patches and deletes at increasing GSNs.  A row *)
(* is the GSN of its last put, the GSNs of the patches over it, the GSN of *)
(* its delete, and last_gsn.  A listing page holds one entity id.          *)
(*                                                                         *)
(* The record and the rows are durable; how rows become durable is         *)
(* ReplicaStore's subject.  A reload may happen between any two steps.     *)
(***************************************************************************)
EXTENDS Integers, Sequences, FiniteSets, SequencesExt

CONSTANTS
  Pages,       \* entity ids 1..Pages, one on each listing page
  SeedLoops,   \* concurrent subscription loops
  RollingDeploy, \* whether servers with and without the listing answer in turn
  MaxGsn,      \* bound: server commits
  MaxFaults    \* bound: reloads and refused tokens

Ents == 1..Pages

VARIABLES
  past,     \* the server's rows after each GSN; past[1] is the empty server
  rec,      \* the group's CursorRecord
  rows, orphans, seededAt,
  known,    \* GSNs of the stream that are in the client's log
  fence,    \* seededThrough of the group (volatile)
  loop,     \* the seed() call and the catch-up of each loop (volatile)
  fetch,    \* backfill's entity read in flight (volatile)
  serves,   \* whether the server has the listing endpoint
  crossed,  \* history: entities whose backfill read overlapped a listing
  faults

seedVars == <<past, rec, rows, orphans, seededAt, known, fence, loop, fetch, serves, crossed, faults>>

Watermark == Len(past) - 1
ServerRows == past[Len(past)]

Max2(a, b) == IF a > b THEN a ELSE b
NoRow == [put |-> 0, patches |-> {}, del |-> 0, gsn |-> 0]
Live(r) == r.put > 0 /\ r.del = 0

\* A cursor, a marker or a watermark that is absent is -1; so is the token of
\* the first page.
Absent == -1
NoSeed == [on |-> FALSE, w |-> Absent, token |-> Absent]
NoCursorRecord == [cursor |-> Absent, through |-> 0, seed |-> NoSeed]

\* needsGroupListing
NeedsGroupListing(r) == r.cursor = Absent \/ r.seed.on

Idle == [pc |-> "idle", held |-> NoCursorRecord, resuming |-> FALSE, token |-> Absent,
         w |-> Absent, through |-> 0, seeded |-> FALSE, retried |-> FALSE,
         page |-> NoRow, at |-> 0]
NoFetch == [id |-> 0, row |-> NoRow]

Init ==
  /\ past = <<[e \in Ents |-> NoRow]>>
  /\ rec = NoCursorRecord /\ rows = [e \in Ents |-> NoRow]
  /\ orphans = [e \in Ents |-> {}] /\ seededAt = [e \in Ents |-> 0]
  /\ known = {} /\ fence = 0
  /\ loop = [l \in SeedLoops |-> Idle] /\ fetch = NoFetch /\ crossed = {} /\ faults = 0
  /\ serves \in BOOLEAN

-----------------------------------------------------------------------------
(* Rows *)

\* applyUpdate of one committed update.
Applied(row, u) ==
  CASE u.m = "put" -> [put |-> u.gsn, patches |-> {}, del |-> 0, gsn |-> u.gsn]
    [] u.m = "patch" ->
         IF ~Live(row) THEN row
         ELSE [row EXCEPT !.patches = IF u.gsn > row.put THEN @ \cup {u.gsn} ELSE @,
                          !.gsn = Max2(@, u.gsn)]
    [] u.m = "delete" ->
         IF row = NoRow THEN row ELSE [row EXCEPT !.del = u.gsn, !.gsn = Max2(@, u.gsn)]

\* foldBase after a full row was put: the waiting updates newer than it follow.
WithOrphans(row, waiting) ==
  FoldLeft(Applied, row,
           SetToSortSeq({o \in waiting : o.gsn > row.gsn}, LAMBDA a, b : a.gsn < b.gsn))

\* A snapshot put of the server row r becomes the base of e.
Snapshot(e, r) ==
  /\ rows' = [rows EXCEPT ![e] = WithOrphans([r EXCEPT !.del = 0], orphans[e])]
  /\ orphans' = [orphans EXCEPT ![e] = {}]

\* The server commits one update to e.
Commit(e, m) ==
  LET u == [e |-> e, m |-> m, gsn |-> Watermark + 1]
  IN /\ Watermark < MaxGsn
     /\ m # "put" => Live(ServerRows[e])
     /\ past' = Append(past, [ServerRows EXCEPT ![e] = Applied(@, u)])
     /\ UNCHANGED <<rec, rows, orphans, seededAt, known, fence, loop, fetch, serves, crossed, faults>>

\* The update the server committed at GSN g.
UpdateAt(g) ==
  LET e == CHOOSE x \in Ents : past[g][x] # past[g + 1][x]
      r == past[g + 1][e]
  IN [e |-> e, gsn |-> g,
      m |-> IF r.put = g THEN "put" ELSE IF r.del = g THEN "delete" ELSE "patch"]

-----------------------------------------------------------------------------
(* seed(): one step between awaits *)

\* getRecord; a complete group only restores its fence.
SeedBegins(l) ==
  /\ loop[l].pc = "idle"
  /\ IF NeedsGroupListing(rec)
     THEN /\ loop' = [loop EXCEPT ![l] =
               [Idle EXCEPT !.pc = IF rec.seed.on THEN "page" ELSE "mark",
                            !.held = rec, !.resuming = rec.seed.on,
                            !.w = rec.seed.w,
                            !.token = IF rec.seed.w = Absent THEN Absent ELSE rec.seed.token]]
          /\ UNCHANGED fence
     ELSE /\ loop' = [loop EXCEPT ![l] = [Idle EXCEPT !.pc = "tail"]]
          /\ fence' = Max2(fence, rec.through)
  /\ UNCHANGED <<past, rec, rows, orphans, seededAt, known, fetch, serves, crossed, faults>>

\* The marker is durable before the first row lands.
SeedMark(l) ==
  /\ loop[l].pc = "mark"
  /\ rec' = [loop[l].held EXCEPT !.seed = [NoSeed EXCEPT !.on = TRUE]]
  /\ loop' = [loop EXCEPT ![l].pc = "page"]
  /\ UNCHANGED <<past, rows, orphans, seededAt, known, fence, fetch, serves, crossed, faults>>

\* readPage: rows as they are now; W is the watermark of the first page.
SeedReadPage(l) ==
  LET e == IF loop[l].token = Absent THEN 1 ELSE loop[l].token
  IN /\ loop[l].pc = "page" /\ (RollingDeploy \/ serves)
     /\ loop' = [loop EXCEPT ![l].pc = "fold", ![l].at = e, ![l].page = ServerRows[e],
                             ![l].w = IF @ = Absent THEN Watermark ELSE @]
     /\ crossed' = IF fetch = NoFetch THEN crossed ELSE crossed \cup {fetch.id}
     /\ UNCHANGED <<past, rec, rows, orphans, seededAt, known, fence, fetch, serves, faults>>

\* The server does not serve the listing: an attempt that seeded nothing leaves
\* no trace, and the client goes on with the log.
SeedUnsupported(l) ==
  /\ loop[l].pc = "page" /\ (RollingDeploy \/ ~serves)
  /\ rec' = IF loop[l].seeded THEN rec ELSE loop[l].held
  /\ fence' = Max2(fence, loop[l].held.through)
  /\ loop' = [loop EXCEPT ![l] = [Idle EXCEPT !.pc = "tail"]]
  /\ UNCHANGED <<past, rows, orphans, seededAt, known, fetch, serves, crossed, faults>>

\* A rejected token is retried once from the first page, at the same W.
SeedBadToken(l) ==
  /\ loop[l].pc = "page" /\ serves /\ loop[l].token # Absent
  /\ faults < MaxFaults /\ faults' = faults + 1
  /\ loop' = [loop EXCEPT ![l] = IF @.retried THEN Idle
                                 ELSE [@ EXCEPT !.retried = TRUE, !.token = Absent]]
  /\ UNCHANGED <<past, rec, rows, orphans, seededAt, known, fence, fetch, serves, crossed>>

\* seedPage: the live rows become snapshot puts.  Listing the same row again adds
\* nothing to its action.
SeedPage(l) ==
  LET e == loop[l].at
      r == loop[l].page
  IN /\ loop[l].pc = "fold"
     /\ IF Live(r) /\ r.gsn # seededAt[e]
        THEN Snapshot(e, r) /\ seededAt' = [seededAt EXCEPT ![e] = r.gsn]
        ELSE UNCHANGED <<rows, orphans, seededAt>>
     /\ loop' = [loop EXCEPT ![l].pc = "pin",
                   ![l].through = IF Live(r) THEN Max2(@, r.gsn) ELSE @,
                   ![l].seeded = @ \/ Live(r)]
     /\ UNCHANGED <<past, rec, known, fence, fetch, serves, crossed, faults>>

\* W and the next token are recorded after the page's rows.
SeedPin(l) ==
  LET s == loop[l]
      next == IF s.at < Pages THEN s.at + 1 ELSE Absent
  IN /\ s.pc = "pin"
     /\ rec' = [cursor |-> s.held.cursor, through |-> Max2(s.held.through, s.through),
                seed |-> [on |-> TRUE, w |-> s.w, token |-> next]]
     /\ loop' = [loop EXCEPT ![l].pc = IF next = Absent THEN "publish" ELSE "page",
                             ![l].token = next]
     /\ UNCHANGED <<past, rows, orphans, seededAt, known, fence, fetch, serves, crossed, faults>>

\* Mutant: a redo of an attempt that recorded no W trusts its own W.
PublishedCursorTrusting(s) == s.w

\* The cursor a finished listing may claim.  A redo of an attempt that recorded
\* no W does not know what that attempt skipped.
PublishedCursor(s) ==
  IF s.resuming /\ s.held.seed.w = Absent THEN Max2(s.held.cursor, 0) ELSE s.w

\* One write clears the marker and publishes the cursor.
SeedPublish(l) ==
  LET s == loop[l]
      reached == Max2(s.held.through, s.through)
  IN /\ s.pc = "publish"
     /\ rec' = [cursor |-> PublishedCursor(s), through |-> reached, seed |-> NoSeed]
     /\ fence' = Max2(fence, reached)
     /\ loop' = [loop EXCEPT ![l] = [Idle EXCEPT !.pc = "tail"]]
     /\ UNCHANGED <<past, rows, orphans, seededAt, known, fetch, serves, crossed, faults>>

-----------------------------------------------------------------------------
(* The tail: catch-up from the durable cursor *)

\* withoutFoldedUpdates: an older put or delete of a listed row is dropped.
Folded(u) ==
  /\ u.gsn <= fence /\ u.m # "patch"
  /\ rows[u.e] # NoRow /\ u.gsn <= rows[u.e].gsn
  /\ u.gsn <= seededAt[u.e]

\* _applyAction: append, fold, then the cursor (the next step).
TailApply(l) ==
  LET g == Max2(rec.cursor, 0) + 1
      u == UpdateAt(g)
      e == u.e
  IN /\ loop[l].pc = "tail" /\ g <= Watermark
     /\ IF Folded(u) \/ g \in known
        THEN UNCHANGED <<rows, orphans, known>>
        ELSE /\ known' = known \cup {g}
             /\ IF u.m # "put" /\ rows[e] = NoRow
                THEN /\ orphans' = [orphans EXCEPT ![e] = @ \cup {u}]
                     /\ UNCHANGED rows
                ELSE /\ rows' = [rows EXCEPT ![e] = IF u.m = "put"
                                   THEN WithOrphans(Applied(@, u), orphans[e])
                                   ELSE Applied(@, u)]
                     /\ orphans' = [orphans EXCEPT ![e] = IF u.m = "put" THEN {} ELSE @]
     /\ loop' = [loop EXCEPT ![l] = [Idle EXCEPT !.pc = "advance", !.at = g]]
     /\ UNCHANGED <<past, rec, seededAt, fence, fetch, serves, crossed, faults>>

\* cursors.set keeps the rest of the record.
TailAdvance(l) ==
  /\ loop[l].pc = "advance"
  /\ rec' = [rec EXCEPT !.cursor = Max2(@, loop[l].at)]
  /\ loop' = [loop EXCEPT ![l] = [Idle EXCEPT !.pc = "tail"]]
  /\ UNCHANGED <<past, rows, orphans, seededAt, known, fence, fetch, serves, crossed, faults>>

\* The stream ends; the reconnect bootstraps again.
Reconnect(l) ==
  /\ loop[l].pc = "tail"
  /\ loop' = [loop EXCEPT ![l] = Idle]
  /\ UNCHANGED <<past, rec, rows, orphans, seededAt, known, fence, fetch, serves, crossed, faults>>

-----------------------------------------------------------------------------
(* Content backfill: a member entity without a local row *)

BackfillRead(e) ==
  /\ fetch = NoFetch /\ rows[e] = NoRow /\ Live(ServerRows[e])
  /\ \E l \in SeedLoops : loop[l].pc = "tail"
  /\ fetch' = [id |-> e, row |-> ServerRows[e]]
  /\ UNCHANGED <<past, rec, rows, orphans, seededAt, known, fence, loop, serves, crossed, faults>>

\* A row that arrived during the read wins.
BackfillWanted(e) == rows[e] = NoRow

BackfillInstall ==
  /\ fetch # NoFetch /\ fetch' = NoFetch
  /\ IF BackfillWanted(fetch.id) THEN Snapshot(fetch.id, fetch.row)
     ELSE UNCHANGED <<rows, orphans>>
  /\ UNCHANGED <<past, rec, seededAt, known, fence, loop, serves, crossed, faults>>

-----------------------------------------------------------------------------
\* The tab is closed or crashes, and starts again.
Reload ==
  /\ faults < MaxFaults /\ faults' = faults + 1
  /\ loop' = [l \in SeedLoops |-> Idle] /\ fetch' = NoFetch /\ fence' = 0
  /\ UNCHANGED <<past, rec, rows, orphans, seededAt, known, serves, crossed>>

\* The handshake of a new session rejects a cursor: resetSyncState.
ResetSyncState ==
  /\ rec.cursor > 0 /\ fetch = NoFetch /\ \A l \in SeedLoops : loop[l].pc = "idle"
  /\ rec' = NoCursorRecord /\ rows' = [e \in Ents |-> NoRow]
  /\ orphans' = [e \in Ents |-> {}] /\ seededAt' = [e \in Ents |-> 0]
  /\ known' = {} /\ fence' = 0
  /\ UNCHANGED <<past, loop, fetch, serves, crossed, faults>>

Next ==
  \/ \E e \in Ents : BackfillRead(e) \/ \E m \in {"put", "patch", "delete"} : Commit(e, m)
  \/ \E l \in SeedLoops :
        \/ SeedBegins(l) \/ SeedMark(l) \/ SeedReadPage(l) \/ SeedUnsupported(l)
        \/ SeedBadToken(l) \/ SeedPage(l) \/ SeedPin(l) \/ SeedPublish(l)
        \/ TailApply(l) \/ TailAdvance(l) \/ Reconnect(l)
  \/ BackfillInstall \/ Reload \/ ResetSyncState

Spec == Init /\ [][Next]_seedVars

-----------------------------------------------------------------------------
\* "cursor(G) = W means G's view is complete as of W": whatever crashed, was
\* refused or was listed twice, no effect at or below a durable cursor is missing
\* from the rows, and no row deleted below it is shown.  (A row that was deleted
\* above the cursor may already be gone.)
CursorMeansComplete ==
  LET c == rec.cursor
  IN \A e \in Ents \ crossed : c > 0 =>
       LET s == past[c + 1][e]
           r == rows[e]
           later == {past[g][e] : g \in c + 2..Len(past)}
       IN /\ Live(s) =>
               \/ /\ r # NoRow
                  /\ r.put > s.put \/ (r.put = s.put /\ s.patches \subseteq r.patches)
                  /\ r.del = 0 \/ r.del > c
               \/ r = NoRow /\ \E x \in later : x.del > 0
          /\ s.del > 0 => ~Live(r) \/ r.put > s.del
=============================================================================

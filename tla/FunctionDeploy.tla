--------------------------- MODULE FunctionDeploy ---------------------------
(* Deploying functions: `ebb deploy` and the dev watcher of packages/cli, two    *)
(* processes that run the same pass over the functions directory, against the    *)
(* version store of the server (functions/store.ex), one SQLite table behind one *)
(* GenServer.  A pass takes the entries in turn; for each one it reads and       *)
(* bundles the file, lists the stored versions, and reuses a version with the    *)
(* same deployment hash or uploads a new one, then moves the active pointer.     *)
(* Every request is a step of its own, so the file, the other deployer and an    *)
(* operator's rollback, disable or activate come between any two of them.        *)
(*                                                                               *)
(* A file's content stands for its deployment hash: equal contents have equal    *)
(* hashes.  "none" is an absent file, "bad" one that does not bundle.  A version *)
(* is named by its place in the upload order of its function, which is also the  *)
(* order of created_at.                                                          *)
EXTENDS Integers, Sequences, FiniteSets, FiniteSetsExt

CONSTANTS Files,        \* the function entries, numbered in path order
          Good,         \* the contents that bundle
          Retention,    \* unpinned versions kept besides the active one
          Starts        \* the directories to start from, each with its bounds on edits,
                        \* one-off deploys, operator commands and failed requests

VARIABLES disk,      \* file -> its content
          rows,      \* function -> (version -> its row of function_versions)
          nextId,    \* function -> the next version
          pass,      \* deployer -> its pass
          watch,     \* "starting", "open" or "closed"
          pending,   \* the files changed since the debounce timer was armed
          queue,     \* the batches chained behind the running pass
          types,     \* the entries named by the generated contract map
          budget,    \* edits, one-off deploys, operator commands and faults left
          excused,   \* history: files whose last change no pass is bound to serve
          unmapped,  \* history: the map was written from an outdated list of entries
          again,     \* history: functions one of whose versions was re-activated
          undone     \* history: an unchanged deploy moved the pointer

fdVars == <<disk, rows, nextId, pass, watch, pending, queue, types, budget,
            excused, unmapped, again, undone>>

Contents == Good \union {"none", "bad"}
Deployers == {"watcher", "cli"}
NoVersion == 0

Plain == [activate |-> TRUE, keep |-> FALSE, force |-> FALSE]
Options == {Plain, [Plain EXCEPT !.activate = FALSE], [Plain EXCEPT !.keep = TRUE],
            [Plain EXCEPT !.force = TRUE]}
Idle == [step |-> "idle", todo |-> {}, hash |-> "none", target |-> NoVersion,
         same |-> FALSE, opts |-> Plain, found |-> {}]

Present == {f \in Files : disk[f] # "none"}
Spend(what) == /\ budget[what] > 0
               /\ budget' = [budget EXCEPT ![what] = @ - 1]

-----------------------------------------------------------------------------
(* The version store. *)

Active(table) == {v \in DOMAIN table : table[v].status = "active"}

Pruned(table) ==
  LET unpinned == {v \in DOMAIN table : ~table[v].pinned}
      kept == {v \in unpinned : Cardinality({u \in unpinned : u > v}) < Retention}
      left == {v \in DOMAIN table : table[v].pinned \/ table[v].status = "active" \/ v \in kept}
  IN [v \in left |-> table[v]]

PutVersion(f, hash, pinned) ==
  LET new == [hash |-> hash, status |-> "retired", prev |-> NoVersion, pinned |-> pinned,
              served |-> FALSE]
      table == [v \in DOMAIN rows[f] \union {nextId[f]} |->
                  IF v = nextId[f] THEN new ELSE rows[f][v]]
  IN /\ rows' = [rows EXCEPT ![f] = Pruned(table)]
     /\ nextId' = [nextId EXCEPT ![f] = @ + 1]

Switched(table, target, prev) ==
  [v \in DOMAIN table |->
     IF v = target THEN [table[v] EXCEPT !.status = "active", !.prev = prev, !.served = TRUE]
     ELSE IF table[v].status = "active" THEN [table[v] EXCEPT !.status = "retired"]
     ELSE table[v]]

Activated(table, target) ==
  LET others == Active(table) \ {target}
  IN Switched(table, target,
              IF others = {} THEN table[target].prev ELSE CHOOSE v \in others : TRUE)

\* `again` records a re-activation: activate_in keeps one pointer per row, so it then
\* overwrites the pointer an earlier activation left.
ActivateIn(f, target) ==
  /\ target \in DOMAIN rows[f]
  /\ rows' = [rows EXCEPT ![f] = Activated(@, target)]
  /\ again' = IF rows[f][target].served /\ rows[f][target].status # "active"
              THEN again \union {f} ELSE again

RollbackTargets(table) ==
  {v \in DOMAIN table : table[v].status = "retired"
                        /\ \E a \in Active(table) : table[a].prev = v}

RolledBack(table, target) == Switched(table, target, table[target].prev)

-----------------------------------------------------------------------------
(* The operator: `ebb functions activate`, `rollback` and `disable`. *)

OperatorUnchanged(f) ==
  /\ Spend("moves")
  /\ excused' = excused \union {f}
  /\ UNCHANGED <<disk, nextId, pass, watch, pending, queue, types, unmapped, undone>>

ActivateCommand(f) ==
  /\ \E target \in DOMAIN rows[f] : ActivateIn(f, target)
  /\ OperatorUnchanged(f)

RollbackCommand(f) ==
  /\ \E target \in RollbackTargets(rows[f]) :
       rows' = [rows EXCEPT ![f] = RolledBack(@, target)]
  /\ OperatorUnchanged(f)
  /\ UNCHANGED again

DisableCommand(f) ==
  /\ Active(rows[f]) # {}
  /\ rows' = [rows EXCEPT ![f] = [v \in DOMAIN @ |->
                IF v \in Active(@) THEN [@[v] EXCEPT !.status = "disabled"] ELSE @[v]]]
  /\ OperatorUnchanged(f)
  /\ UNCHANGED again

-----------------------------------------------------------------------------
(* The files.  A change is seen by the watcher once it is open; a file may be      *)
(* written with the content it has.                                                *)

Edit(f, content) ==
  /\ Spend("edits")
  /\ content # "none" \/ disk[f] # "none"
  /\ disk' = [disk EXCEPT ![f] = content]
  /\ pending' = IF watch = "open" THEN pending \union {f} ELSE pending
  /\ excused' = IF watch = "open" THEN excused ELSE excused \union {f}
  /\ UNCHANGED <<rows, nextId, pass, watch, queue, types, unmapped, again, undone>>

DebounceFires ==
  /\ pending # {}
  /\ queue' = Append(queue, pending)
  /\ pending' = {}
  /\ UNCHANGED <<disk, rows, nextId, pass, watch, types, budget, excused, unmapped, again, undone>>

CloseWatcher ==
  /\ watch = "open"
  /\ watch' = "closed"
  /\ pending' = {}
  /\ UNCHANGED <<disk, rows, nextId, pass, queue, types, budget, excused, unmapped, again, undone>>

-----------------------------------------------------------------------------
(* A pass. *)

\* The entries are deployed in path order.
NextEntry(p) == Min(p.todo)

Started(chosen, opts) ==
  [Idle EXCEPT !.step = IF chosen = {} THEN "types" ELSE "read",
               !.todo = chosen, !.opts = opts]

\* `ebb deploy`, one off.
DeployCommand(opts) ==
  /\ pass["cli"].step = "idle"
  /\ Spend("runs")
  /\ pass' = [pass EXCEPT !["cli"] = Started(Present, opts)]
  /\ UNCHANGED <<disk, rows, nextId, watch, pending, queue, types, excused, unmapped, again, undone>>

\* deployFiles: the changed files that still are entries.
NextBatch ==
  /\ pass["watcher"].step = "idle"
  /\ queue # <<>>
  /\ pass' = [pass EXCEPT !["watcher"] = Started(Head(queue) \intersect Present, Plain)]
  /\ queue' = Tail(queue)
  /\ UNCHANGED <<disk, rows, nextId, watch, pending, types, budget, excused, unmapped, again, undone>>

\* An error ends the pass; `ebb deploy` ends there, the watcher goes on to its map.
\* What the pass had not yet served is not served by it.
FailPass(d) ==
  /\ pass' = [pass EXCEPT ![d] = IF d = "watcher" THEN [Idle EXCEPT !.step = "types"] ELSE Idle]
  /\ excused' = IF d = "watcher"
                THEN excused \union pass[d].todo ELSE excused
  /\ UNCHANGED <<disk, rows, nextId, watch, pending, queue, types, unmapped, again, undone>>

\* prepareDeployment: read, bundle, evaluate and validate the entry.
Prepare(d) ==
  LET f == NextEntry(pass[d]) IN
  /\ pass[d].step = "read"
  /\ disk[f] \in Good
  /\ pass' = [pass EXCEPT ![d].step = IF pass[d].opts.force \/ pass[d].opts.keep
                                      THEN "upload" ELSE "list",
                          ![d].hash = disk[f]]
  /\ excused' = IF d = "watcher" THEN excused \ {f} ELSE excused
  /\ UNCHANGED <<disk, rows, nextId, watch, pending, queue, types, budget, unmapped, again, undone>>

PrepareFails(d) ==
  /\ pass[d].step = "read"
  /\ disk[NextEntry(pass[d])] \notin Good
  /\ UNCHANGED budget
  /\ FailPass(d)

RequestFails(d) ==
  /\ pass[d].step \in {"list", "upload", "activate"}
  /\ Spend("faults")
  /\ FailPass(d)

\* Mutant: the newest match, whatever is active.
MatchingVersionNewest(table, hash) ==
  LET matches == {v \in DOMAIN table : table[v].hash = hash}
  IN IF matches = {} THEN NoVersion ELSE Max(matches)

\* matchingVersion: the active row wins over a newer duplicate.
MatchingVersion(table, hash) ==
  LET matches == {v \in DOMAIN table : table[v].hash = hash}
      active == matches \intersect Active(table)
  IN IF matches = {} THEN NoVersion
     ELSE IF active # {} THEN CHOOSE v \in active : TRUE
     ELSE Max(matches)

\* The entry is done; after the last one the pass writes the map.
Served(p) ==
  LET left == p.todo \ {NextEntry(p)}
  IN [p EXCEPT !.step = IF left = {} THEN "types" ELSE "read", !.todo = left,
               !.hash = "none", !.target = NoVersion, !.same = FALSE]

ListVersions(d) ==
  LET f == NextEntry(pass[d])
      hash == pass[d].hash
      reuse == MatchingVersion(rows[f], hash)
      p == [pass[d] EXCEPT !.target = reuse,
                           !.same = \E v \in Active(rows[f]) : rows[f][v].hash = hash]
  IN /\ pass[d].step = "list"
     /\ pass' = [pass EXCEPT ![d] =
          IF reuse = NoVersion THEN [p EXCEPT !.step = "upload"]
          ELSE IF p.opts.activate /\ rows[f][reuse].status # "active"
               THEN [p EXCEPT !.step = "activate"]
          ELSE Served(p)]
     /\ UNCHANGED <<disk, rows, nextId, watch, pending, queue, types, budget,
                    excused, unmapped, again, undone>>

UploadVersion(d) ==
  LET f == NextEntry(pass[d])
      p == [pass[d] EXCEPT !.target = nextId[f], !.same = FALSE]
  IN /\ pass[d].step = "upload"
     /\ PutVersion(f, p.hash, p.opts.keep)
     /\ pass' = [pass EXCEPT ![d] = IF p.opts.activate THEN [p EXCEPT !.step = "activate"]
                                    ELSE Served(p)]
     /\ UNCHANGED <<disk, watch, pending, queue, types, budget, excused, unmapped, again, undone>>

\* `ebb deploy` is told of no later change, so what it activates may be old.
ActivateVersion(d) ==
  LET f == NextEntry(pass[d]) IN
  /\ pass[d].step = "activate"
  /\ ActivateIn(f, pass[d].target)
  /\ pass' = [pass EXCEPT ![d] = Served(@)]
  /\ excused' = IF d = "cli" /\ pass[d].hash # disk[f] THEN excused \union {f} ELSE excused
  /\ undone' = (undone \/ pass[d].same)
  /\ UNCHANGED <<disk, nextId, watch, pending, queue, types, budget, unmapped>>

\* The version was pruned after it was listed or uploaded: 404.
ActivateGone(d) ==
  /\ pass[d].step = "activate"
  /\ pass[d].target \notin DOMAIN rows[NextEntry(pass[d])]
  /\ UNCHANGED budget
  /\ FailPass(d)

\* writeTypes: the entries are found afresh, ...
FindEntries(d) ==
  /\ pass[d].step = "types"
  /\ pass' = [pass EXCEPT ![d].step = "map", ![d].found = Present]
  /\ UNCHANGED <<disk, rows, nextId, watch, pending, queue, types, budget, excused,
                 unmapped, again, undone>>

\* ... and the map is written.  The first pass opens the watcher.  A file that came or went
\* in between is missing from the map, and only an open watcher has heard of it.
WriteMap(d) ==
  /\ pass[d].step = "map"
  /\ types' = pass[d].found
  /\ pass' = [pass EXCEPT ![d] = Idle]
  /\ watch' = IF d = "watcher" /\ watch = "starting" THEN "open" ELSE watch
  /\ unmapped' = (pass[d].found # Present /\ (d = "cli" \/ watch # "open"))
  /\ UNCHANGED <<disk, rows, nextId, pending, queue, budget, excused, again, undone>>

-----------------------------------------------------------------------------
FdInit ==
  /\ \E start \in Starts : disk = start.disk /\ budget = start.budget
  /\ rows = [f \in Files |-> <<>>]
  /\ nextId = [f \in Files |-> 1]
  /\ watch = "starting"
  /\ pass = [d \in Deployers |-> IF d = "watcher" THEN Started(Present, Plain) ELSE Idle]
  /\ pending = {} /\ queue = <<>> /\ types = {}
  /\ excused = Files /\ unmapped = FALSE /\ again = {} /\ undone = FALSE

Step(d) ==
  \/ Prepare(d) \/ PrepareFails(d) \/ RequestFails(d) \/ ListVersions(d)
  \/ UploadVersion(d) \/ ActivateVersion(d) \/ ActivateGone(d)
  \/ FindEntries(d) \/ WriteMap(d)

FdNext ==
  \/ \E d \in Deployers : Step(d)
  \/ \E opts \in Options : DeployCommand(opts)
  \/ NextBatch \/ DebounceFires \/ CloseWatcher
  \/ \E f \in Files : \/ \E content \in Contents : Edit(f, content)
                      \/ ActivateCommand(f) \/ RollbackCommand(f) \/ DisableCommand(f)

FdSpec == FdInit /\ [][FdNext]_fdVars

-----------------------------------------------------------------------------
(* Properties. *)

Quiet == /\ watch = "open" /\ pending = {} /\ queue = <<>>
         /\ pass["watcher"].step = "idle"

\* A watcher at rest serves every file as it is: edits that come while a pass reads,
\* lists, uploads or activates are caught by the batch behind it.
ServesLatest ==
  Quiet => \A f \in Files \ excused :
    disk[f] \in Good => \E v \in Active(rows[f]) : rows[f][v].hash = disk[f]

\* ... and its contract map names the entries there are.
MapIsCurrent == Quiet /\ ~unmapped => types = Present

\* Repeated rollbacks walk back: from the active row, the pointers that rollback follows
\* lead out of any set of rows, so they come back to none.
WalksBack(table) ==
  \A around \in SUBSET DOMAIN table :
    around \intersect Active(table) # {} => \E v \in around : table[v].prev \notin around

\* ... as long as no version has been activated twice.
RollbackWalks == \A f \in Files \ again : WalksBack(rows[f])

\* A deploy of what is already served leaves the pointer alone, so it does not undo a
\* rollback to an older copy of the same code.
NothingUndone == ~undone

\* What deploys promise: the watcher serves the files as they are and keeps the map of
\* them, rollback walks back, and an unchanged deploy moves nothing.
DeploysFollow == ServesLatest /\ MapIsCurrent /\ RollbackWalks /\ NothingUndone

\* Repeated rollbacks walk back through the activation history rather than toggling,
\* as the doc of rollback/2 in functions/store.ex has it.
RollbackAlwaysWalks == \A f \in Files : WalksBack(rows[f])
=============================================================================

----------------------------- MODULE RunnerGuards -----------------------------
(***************************************************************************)
(* The guardrails a runner process puts around one invocation after        *)
(* another (packages/runner): limits.ts resolves the host's budget,        *)
(* fetch.ts replaces the global fetch, logging.ts the console methods, and *)
(* runInvocation of index.ts installs both and takes them away.            *)
(*                                                                         *)
(* The code of an invocation may leave work behind that goes on after it,  *)
(* between two invocations and during the next: a call below may come from *)
(* any invocation that has started.  A body is counted in chunks, a line   *)
(* in bytes.  Host calls, replies and results are FunctionSession's.       *)
(***************************************************************************)
EXTENDS Integers, Sequences, FiniteSets, FiniteSetsExt

CONSTANTS Wire,           \* the limits of each invoke frame, in the order they come
          DefaultLines, DefaultBytes,
          Destinations,   \* the urls code fetches: host, scheme and port, 0 for none
          Cap,            \* the response bound, in chunks
          Sizes,          \* sizes of log lines
          MaxRequests, MaxChunks, MaxLines,
          MaxCalls        \* requests and lines together

Runs == DOMAIN Wire
Native == 0
NoPort == 0
Unknown == -1             \* a response that declares no length

VARIABLES
  phase,     \* invocation -> "new", "running", "left", "settled", "finished"
  fetchIs,   \* whose guard globalThis.fetch is, or Native
  consoleIs, \* whose capture the console methods are, or Native
  kept,      \* invocation -> what each global was when it was installed over
  sink,      \* invocation -> its log budget
  reqs,      \* the requests made, in order
  lines      \* history: log calls

rgVars == <<phase, fetchIs, consoleIs, kept, sink, reqs, lines>>

-----------------------------------------------------------------------------
(* limits.ts: what the wire does not state, or not as a positive integer.   *)

Positive(v, default) == IF v > 0 THEN v ELSE default
ResolveLimits(k) ==
  [lines |-> Positive(Wire[k].lines, DefaultLines), bytes |-> Positive(Wire[k].bytes, DefaultBytes),
   allow |-> Wire[k].allow]

-----------------------------------------------------------------------------
(* fetch.ts: the allowlist.  An entry is a host, a host with a port, a url, *)
(* or something that names no host.                                         *)

DefaultPort(scheme) == IF scheme = "https" THEN 443 ELSE 80

\* parseAllowlistEntry.  A url that states its scheme's own port states none.
Names(entry) == entry.form # "junk"
PortOf(entry) ==
  IF entry.form = "url" /\ entry.port = DefaultPort(entry.scheme) THEN NoPort ELSE entry.port
CompileAllowlist(entries) ==
  {[host |-> e.host, port |-> PortOf(e)] : e \in {f \in entries : Names(f)}}

EffectivePort(url) == IF url.port = NoPort THEN DefaultPort(url.scheme) ELSE url.port
IsAllowed(list, url) ==
  \E e \in list : e.host = url.host /\ (e.port = NoPort \/ e.port = EffectivePort(url))

Blocked(k, url) ==
  LET list == CompileAllowlist(ResolveLimits(k).allow) IN list # {} /\ ~IsAllowed(list, url)

-----------------------------------------------------------------------------
(* fetch.ts: a request.                                                     *)

Closed(k) == phase[k] = "finished"

\* An audit frame, unless the transport of the guard's invocation is closed.
Audited(r) == [r EXCEPT !.audits = IF Closed(r.under) THEN @ ELSE @ + 1,
                        !.unheard = Closed(r.under)]

Request(url) ==
  [under |-> fetchIs, url |-> url, at |-> "sent", got |-> 0, declared |-> Unknown,
   capped |-> FALSE, rebuilt |-> TRUE, audits |-> 0, unheard |-> FALSE]

Started(k) == phase[k] # "new"
Room == Len(reqs) + lines < MaxCalls
Others == UNCHANGED <<phase, fetchIs, consoleIs, kept, sink, lines>>

\* The global fetch is called: refused before anything is sent, or sent.
Fetch(url) ==
  /\ (\E k \in Runs : Started(k)) /\ Len(reqs) < MaxRequests /\ Room
  /\ LET r == Request(url)
     IN  reqs' = Append(reqs, IF fetchIs # Native /\ Blocked(fetchIs, url)
                              THEN [Audited(r) EXCEPT !.at = "blocked"] ELSE r)
  /\ Others

Guarded(i) == reqs[i].under # Native
At(i, state) == i \in DOMAIN reqs /\ reqs[i].at = state

NetworkFails(i) ==
  /\ At(i, "sent")
  /\ reqs' = [reqs EXCEPT ![i] = [(IF Guarded(i) THEN Audited(@) ELSE @) EXCEPT !.at = "failed"]]
  /\ Others

\* A declared length over the bound: audited, then discarded unread.
Refused(r) == Audited([r EXCEPT !.at = "refusing"])

\* The answer: a declared length that fits passes the response through; one of
\* unknown length is rebuilt around a counter, if the runtime can rebuild it.
Responds(i, declared, rebuilt) ==
  /\ At(i, "sent") /\ (declared # Unknown => rebuilt)
  /\ reqs' = [reqs EXCEPT ![i] =
       LET r == [@ EXCEPT !.declared = declared]
       IN  IF ~Guarded(i) THEN [r EXCEPT !.at = "open"]
           ELSE IF declared > Cap THEN Refused(r)
           ELSE [Audited(r) EXCEPT !.at = "open", !.capped = declared = Unknown /\ rebuilt,
                                   !.rebuilt = rebuilt]]
  /\ Others

Discarded(i) == At(i, "refusing") /\ reqs' = [reqs EXCEPT ![i].at = "refused"] /\ Others

\* byteLimit: a chunk past the bound errors the stream and is not delivered.
\* A stated length is the transport's to keep.
Chunk(i) ==
  /\ At(i, "open") /\ reqs[i].got < MaxChunks
  /\ reqs[i].declared # Unknown => reqs[i].got < reqs[i].declared
  /\ LET r == reqs[i]
     IN  reqs' = [reqs EXCEPT ![i] = IF r.capped /\ r.got + 1 > Cap THEN [r EXCEPT !.at = "errored"]
                                     ELSE [r EXCEPT !.got = r.got + 1]]
  /\ Others

-----------------------------------------------------------------------------
(* logging.ts                                                               *)

FreshSink == [lines |-> 0, bytes |-> 0, truncated |-> FALSE, closed |-> FALSE, frames |-> 0, notices |-> 0]

Overflows(k, size) ==
  \/ sink[k].lines + 1 > ResolveLimits(k).lines
  \/ sink[k].bytes + size > ResolveLimits(k).bytes

\* The first line that does not fit becomes the notice; nothing follows it.
Logged(k, size) ==
  IF sink[k].closed \/ sink[k].truncated THEN sink
  ELSE IF Overflows(k, size) THEN [sink EXCEPT ![k].truncated = TRUE, ![k].notices = @ + 1]
  ELSE [sink EXCEPT ![k].lines = @ + 1, ![k].bytes = @ + size, ![k].frames = @ + 1]

Log ==
  /\ lines < MaxLines /\ Room /\ lines' = lines + 1
  /\ UNCHANGED <<phase, fetchIs, consoleIs, kept, reqs>>

\* ctx.log writes to the sink of its own invocation.
ContextLog(by, size) == Started(by) /\ sink' = Logged(by, size) /\ Log

\* A console method writes to whatever is installed: no sink between invocations.
ConsoleLog(size) ==
  /\ \E k \in Runs : Started(k)
  /\ sink' = IF consoleIs = Native THEN sink ELSE Logged(consoleIs, size)
  /\ Log

-----------------------------------------------------------------------------
(* index.ts and session.ts: the life of an invocation.                      *)

\* One at a time: the next starts when the session has none.
RunInvocation(k) ==
  /\ phase[k] = "new" /\ \A j \in Runs : j < k => phase[j] = "finished"
  /\ phase' = [phase EXCEPT ![k] = "running"]
  /\ kept' = [kept EXCEPT ![k] = [fetch |-> fetchIs, console |-> consoleIs]]
  /\ fetchIs' = k /\ consoleIs' = k
  /\ UNCHANGED <<sink, reqs, lines>>

\* finally: the globals go back and the sink closes, whether the handler
\* returned and its writes were committed, or something threw.
Leaves(k) ==
  /\ phase[k] = "running" /\ phase' = [phase EXCEPT ![k] = "left"]
  /\ fetchIs' = kept[k].fetch /\ consoleIs' = kept[k].console
  /\ sink' = [sink EXCEPT ![k].closed = TRUE]
  /\ UNCHANGED <<kept, reqs, lines>>

\* The result frame, and a microtask later the transport closes.
Settles(k) ==
  /\ phase[k] = "left" /\ phase' = [phase EXCEPT ![k] = "settled"]
  /\ UNCHANGED <<fetchIs, consoleIs, kept, sink, reqs, lines>>
Finishes(k) ==
  /\ phase[k] = "settled" /\ phase' = [phase EXCEPT ![k] = "finished"]
  /\ UNCHANGED <<fetchIs, consoleIs, kept, sink, reqs, lines>>

RgInit ==
  /\ phase = [k \in Runs |-> "new"] /\ fetchIs = Native /\ consoleIs = Native
  /\ kept = [k \in Runs |-> [fetch |-> Native, console |-> Native]]
  /\ sink = [k \in Runs |-> FreshSink] /\ reqs = <<>> /\ lines = 0

RgNext ==
  \/ \E k \in Runs : RunInvocation(k) \/ Leaves(k) \/ Settles(k) \/ Finishes(k)
  \/ \E url \in Destinations : Fetch(url)
  \/ \E i \in DOMAIN reqs :
       \/ NetworkFails(i) \/ Discarded(i) \/ Chunk(i)
       \/ \E declared \in {Unknown, Cap, MaxChunks}, rebuilt \in BOOLEAN :
            Responds(i, declared, rebuilt)
  \/ \E size \in Sizes : ConsoleLog(size) \/ \E k \in Runs : ContextLog(k, size)

RgSpec == RgInit /\ [][RgNext]_rgVars

-----------------------------------------------------------------------------
(* Properties                                                               *)

Ended(r) == r.at # "sent"

\* A request that began under a guard has one audit frame once it is answered,
\* refused or failed, whichever way it ended and however long after its own
\* invocation - or none, if the invocation's transport had closed by then.
AuditedOnce ==
  \A i \in DOMAIN reqs :
    IF Guarded(i) /\ Ended(reqs[i]) THEN reqs[i].audits = IF reqs[i].unheard THEN 0 ELSE 1
    ELSE reqs[i].audits = 0

\* What was sent under a guard whose invocation lists a host goes to a listed
\* one, and to the port the entry pins; a url that states its scheme's own port
\* pins none.
EgressIsListed ==
  \A i \in DOMAIN reqs :
    LET entries == {e \in ResolveLimits(reqs[i].under).allow : e.form # "junk"}
    IN  Guarded(i) /\ reqs[i].at # "blocked" /\ entries # {} =>
          \E e \in entries :
            /\ e.host = reqs[i].url.host
            /\ \/ e.port \in {NoPort, EffectivePort(reqs[i].url)}
               \/ e.form = "url" /\ e.port = DefaultPort(e.scheme)

\* No guarded response gives its reader more than the bound, however late it is
\* read, unless the runtime could not rebuild it.
BodiesAreCapped ==
  \A i \in DOMAIN reqs : Guarded(i) /\ reqs[i].rebuilt => reqs[i].got <= Cap

\* ctx.log, the console and what an earlier invocation left running share one
\* budget: no more lines and bytes than it, and one notice at most, after them.
LogsAreBounded ==
  \A k \in Runs :
    /\ sink[k].frames <= ResolveLimits(k).lines /\ sink[k].bytes <= ResolveLimits(k).bytes
    /\ sink[k].notices <= 1 /\ (sink[k].notices = 1 <=> sink[k].truncated)

\* Outside an invocation the globals are the process's own again.
GlobalsAreRestored ==
  (\A k \in Runs : phase[k] # "running") => fetchIs = Native /\ consoleIs = Native

\* What the guardrails of a runner promise, invocation after invocation.
GuardsHold ==
  AuditedOnce /\ EgressIsListed /\ BodiesAreCapped /\ LogsAreBounded /\ GlobalsAreRestored

\* index.ts: "emits one `fetch_audit` per request".  Not for one that outlives
\* its invocation, nor for one that work left behind makes between invocations.
EveryRequestAudited == \A i \in DOMAIN reqs : Ended(reqs[i]) => reqs[i].audits = 1

-----------------------------------------------------------------------------
(* The inductive invariant behind GuardsHold *)

Owners == Runs \union {Native}
Phases == {"new", "running", "left", "settled", "finished"}
SinkType == [lines : Nat, bytes : Nat, truncated : BOOLEAN, closed : BOOLEAN, frames : Nat,
             notices : Nat]
RequestType ==
  [under : Owners, url : Destinations,
   at : {"sent", "blocked", "failed", "refusing", "refused", "open", "errored"},
   got : Nat, declared : Nat \union {Unknown}, capped : BOOLEAN, rebuilt : BOOLEAN,
   audits : Nat, unheard : BOOLEAN]

RgTypeOK ==
  /\ phase \in [Runs -> Phases] /\ fetchIs \in Owners /\ consoleIs \in Owners
  /\ kept \in [Runs -> [fetch : Owners, console : Owners]]
  /\ sink \in [Runs -> SinkType] /\ reqs \in Seq(RequestType) /\ lines \in Nat

\* Invocations come in turn, and each is installed over the process's own globals.
InTurn ==
  \A k \in Runs :
    /\ phase[k] # "new" => \A j \in Runs : j < k => phase[j] = "finished"
    /\ phase[k] = "running" => kept[k].fetch = Native /\ kept[k].console = Native

\* A request that was let through is listed; it has no bytes before it is answered, and
\* its body a counter or a length within the bound; it is audited as AuditedOnce says.
IsSound(r) ==
  /\ r.at = "sent" => r.got = 0
  /\ IF r.under # Native /\ Ended(r) THEN r.audits = IF r.unheard THEN 0 ELSE 1
     ELSE r.audits = 0
  /\ r.under # Native =>
       /\ r.at # "blocked" => ~Blocked(r.under, r.url)
       /\ r.rebuilt => /\ r.got <= Cap
                       /\ r.at = "open" =>
                            r.capped \/ (r.declared # Unknown /\ r.declared <= Cap)

RgInv ==
  /\ RgTypeOK /\ InTurn /\ GlobalsAreRestored /\ LogsAreBounded
  /\ \A i \in DOMAIN reqs : IsSound(reqs[i])
  /\ \A k \in Runs : sink[k].frames = sink[k].lines
===============================================================================

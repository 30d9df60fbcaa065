---------------------------- MODULE MCFunctions ----------------------------
(* The function modules side by side, one at a time: `part` names the one that *)
(* runs, and the variables of the others rest.                                 *)
EXTENDS FunctionSession, TLC

CONSTANTS
  Nobody,           \* no id
  Wire, DefaultLines, DefaultBytes, Destinations, Cap, Sizes,
  MaxRequests, MaxChunks, MaxLines, MaxCalls,     \* of RunnerGuards
  Files, Good, Retention, Starts                  \* of FunctionDeploy

\* The fields of a frame are what they are; the defaults are positive.
ASSUME GuardsAssumption ==
  /\ DOMAIN Wire \subseteq Nat \ {0}
  /\ \A k \in DOMAIN Wire : Wire[k].lines \in Int /\ Wire[k].bytes \in Int
  /\ {DefaultLines, DefaultBytes} \subseteq Nat \ {0}
  /\ {Cap, MaxRequests, MaxChunks, MaxLines, MaxCalls} \subseteq Nat
  /\ Sizes \subseteq Nat

\* Entries have a place; a file that is absent or does not bundle is not good.
ASSUME DeployAssumption ==
  /\ Files \subseteq Nat /\ {"none", "bad"} \intersect Good = {} /\ Retention \in Nat
  /\ \A start \in Starts : start.disk \in [Files -> Good \union {"none", "bad"}]

VARIABLES part,   \* the module that runs
  updates, since, membershipGroup, membershipEntity, groupsByEntity, createdGroups,
  membersByGroup, memberGroup, edges, sealed, waiting, reading, sent, host, applied,
  ops, want, crossed, told, disk, rows, nextId, pass, watch, pending, queue, types,
  budget, excused, unmapped, again, undone, phase, fetchIs, consoleIs, kept, sink,
  reqs, lines

\* An invocation with three verbs or reads on one new entity, two groups, two member
\* rows and a stored row with two links.  Ids are tuples, as membership ids are made
\* of two of them.
Writes == INSTANCE FunctionWrites WITH
  Entities <- {<<"e1">>}, Groups <- {<<"g1">>, <<"g2">>}, Members <- {<<"m1">>, <<"m2">>},
  Existing <- <<"h">>, Targets <- <<<<"t1">>, <<"t2">>>>, MaxOps <- 3

\* Two files and no one-off deploy, or one file with them and with operator commands.
DeployStart(disks, e, r, m, x) ==
  [disk : disks, budget : {[edits |-> e, runs |-> r, moves |-> m, faults |-> x]}]
OneFile == {<<"h1", "none">>}
BothFiles == {<<"h1", "h1">>, <<"none", "h2">>}
DeployStarts ==
  DeployStart(BothFiles, 2, 0, 0, 1) \union DeployStart(OneFile, 0, 2, 2, 0)
    \union DeployStart(OneFile, 1, 1, 0, 1) \union DeployStart(BothFiles, 1, 0, 1, 0)
Deploy == INSTANCE FunctionDeploy

\* Two invocations: one with a pinned port, a url and an entry that names no host, and
\* room for one line; one that states nothing.
Entry(f, h, s, p) == [form |-> f, host |-> h, scheme |-> s, port |-> p]
Url(h, s, p) == [host |-> h, scheme |-> s, port |-> p]
GuardWire ==
  <<[lines |-> 1, bytes |-> 2,
     allow |-> {Entry("host", "h", "https", 8443), Entry("url", "u", "https", 443),
                Entry("junk", "j", "https", 0)}],
    [lines |-> 0, bytes |-> 2, allow |-> {}]>>
GuardUrls == {Url("h", "https", 0), Url("h", "https", 8443), Url("u", "http", 0)}
Guards == INSTANCE RunnerGuards

sessionVars == <<run, toRunner, toHost, loop, outcome, durable, retries, bad, results,
           wrote, loose, foreign>>
writesVars == <<updates, since, membershipGroup, membershipEntity, groupsByEntity,
           createdGroups, membersByGroup, memberGroup, edges, sealed, waiting, reading,
           sent, host, applied, ops, want, crossed, told>>
deployVars == <<disk, rows, nextId, pass, watch, pending, queue, types, budget,
           excused, unmapped, again, undone>>
guardVars == <<phase, fetchIs, consoleIs, kept, sink, reqs, lines>>
allVars == <<part, sessionVars, writesVars, deployVars, guardVars>>

Off == "off"
sessionOff ==
  /\ run = Off /\ toRunner = Off /\ toHost = Off /\ loop = Off /\ outcome = Off
  /\ durable = Off /\ retries = Off /\ bad = Off /\ results = Off /\ wrote = Off
  /\ loose = Off /\ foreign = Off
writesOff ==
  /\ updates = Off /\ since = Off /\ membershipGroup = Off /\ membershipEntity = Off
  /\ groupsByEntity = Off /\ createdGroups = Off /\ membersByGroup = Off
  /\ memberGroup = Off /\ edges = Off /\ sealed = Off /\ waiting = Off /\ reading = Off
  /\ sent = Off /\ host = Off /\ applied = Off /\ ops = Off /\ want = Off
  /\ crossed = Off /\ told = Off
deployOff ==
  /\ disk = Off /\ rows = Off /\ nextId = Off /\ pass = Off /\ watch = Off
  /\ pending = Off /\ queue = Off /\ types = Off /\ budget = Off /\ excused = Off
  /\ unmapped = Off /\ again = Off /\ undone = Off
guardOff ==
  /\ phase = Off /\ fetchIs = Off /\ consoleIs = Off /\ kept = Off /\ sink = Off
  /\ reqs = Off /\ lines = Off

SumInit ==
  \/ part = "session" /\ Init /\ writesOff /\ deployOff /\ guardOff
  \/ part = "writes" /\ Writes!Init /\ sessionOff /\ deployOff /\ guardOff
  \/ part = "deploy" /\ Deploy!FdInit /\ sessionOff /\ writesOff /\ guardOff
  \/ part = "guards" /\ Guards!RgInit /\ sessionOff /\ writesOff /\ deployOff

SumNext ==
  \/ part = "session" /\ Next /\ UNCHANGED <<part, writesVars, deployVars, guardVars>>
  \/ part = "writes" /\ Writes!Next
     /\ UNCHANGED <<part, sessionVars, deployVars, guardVars>>
  \/ part = "deploy" /\ Deploy!FdNext
     /\ UNCHANGED <<part, sessionVars, writesVars, guardVars>>
  \/ part = "guards" /\ Guards!RgNext
     /\ UNCHANGED <<part, sessionVars, writesVars, deployVars>>

SumSpec == SumInit /\ [][SumNext]_allVars

-----------------------------------------------------------------------------
\* One invocation has one result, replies stay with it, and "ok" means committed once.
\* The guardrails around it audit each request once, keep their bounds and are taken down.
SessionKeepsWord ==
  /\ part = "session" => SessionHolds
  /\ part = "guards" => Guards!GuardsHold

\* A handler's verbs leave its rows filed, its groups administered and its links as it
\* asked, in one Action that its own reads see.
InvocationKeepsWord == part = "writes" => Writes!InvocationHolds

\* Deploys serve the files as they are, and rollbacks walk back and are not undone.
DeploysKeepWord == part = "deploy" => Deploy!DeploysFollow
=============================================================================

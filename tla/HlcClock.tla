------------------------------- MODULE HlcClock -------------------------------
(***************************************************************************)
(* The hybrid logical clock of packages/core/src/hlc, as the clients use   *)
(* it: every leaf of an Action and the Action itself take a stamp of the   *)
(* client's clock (action/index.ts, seed/index.ts, client.ts), and every   *)
(* Action that comes in is merged into it (client.ts mergeRemoteHLC).      *)
(*                                                                         *)
(* A stamp is the packed integer that travels as a decimal string.  The    *)
(* counter has CounterBits bits and wraps.  Each client has its own wall   *)
(* clock, none of which runs backwards.                                    *)
(***************************************************************************)
EXTENDS Integers, Sequences, FiniteSets

CONSTANTS Clients, CounterBits, MaxDrift, MaxTime,
          MaxStamps,    \* stamps the clients take, all together
          MaxMerges     \* Actions that come in at one client, repeats included

\* The last conjunct follows from the first, but the provers know no powers.
ASSUME HlcAssumption ==
  CounterBits \in Nat \ {0} /\ MaxDrift \in Nat /\ 2 ^ CounterBits \in Nat \ {0}

VARIABLES wall, clock,
  stamps,   \* every stamp a client took, in the order it took them
  open,     \* the leaf stamps whose Action is still to be created
  wraps,    \* how often a client's counter wrapped
  heard, merges
hlVars == <<wall, clock, stamps, open, wraps, heard, merges>>

Mask == 2 ^ CounterBits

\* pack, unpack, compare
Pack(l, c) == l * Mask + (c % Mask)
LogicalTime(hlc) == hlc \div Mask
Counter(hlc) == hlc % Mask
IsBefore(a, b) == a < b
LatestHlc(a, b) == IF b < a THEN a ELSE b

\* localEvent
AfterLocal(s, now) == IF now > s.l THEN [l |-> now, c |-> 0] ELSE [l |-> s.l, c |-> (s.c + 1) % Mask]

\* receiveRemoteHLC: a stamp too far ahead of the wall clock is refused.
Adoptable(remote, now) == LogicalTime(remote) - now <= MaxDrift
\* Mutant: the counter starts anew on an equal logical time.
AfterRemoteResets(s, remote) ==
  IF LogicalTime(remote) >= s.l THEN [l |-> LogicalTime(remote), c |-> 0] ELSE s

AfterRemote(s, remote) ==
  IF LogicalTime(remote) > s.l THEN [l |-> LogicalTime(remote), c |-> 0]
  ELSE IF LogicalTime(remote) = s.l /\ Counter(remote) > s.c THEN [s EXCEPT !.c = Counter(remote)]
  ELSE [s EXCEPT !.c = (s.c + 1) % Mask]

Wraps(s, t) == t.l = s.l /\ s.c = Mask - 1 /\ t.c = 0

-----------------------------------------------------------------------------

HlInit ==
  /\ wall \in [Clients -> {0, 1}]
  /\ clock = [n \in Clients |-> [l |-> 0, c |-> 0]]
  /\ stamps = [n \in Clients |-> <<>>] /\ open = [n \in Clients |-> {}]
  /\ wraps = [n \in Clients |-> 0] /\ heard = [n \in Clients |-> 0] /\ merges = [n \in Clients |-> 0]

Tick(n) ==
  /\ wall[n] < MaxTime /\ wall' = [wall EXCEPT ![n] = @ + 1]
  /\ UNCHANGED <<clock, stamps, open, wraps, heard, merges>>

Advance(n, t) ==
  /\ clock' = [clock EXCEPT ![n] = t]
  /\ wraps' = IF Wraps(clock[n], t) THEN [wraps EXCEPT ![n] = @ + 1] ELSE wraps

Taken == Cardinality(UNION {{n} \X DOMAIN stamps[n] : n \in Clients})

\* A stamp of a leaf, or one of an Action over the leaves stamped at `leaves`.
Stamp(n, leaves) ==
  /\ Taken < MaxStamps /\ Advance(n, AfterLocal(clock[n], wall[n]))
  /\ stamps' = [stamps EXCEPT ![n] = Append(@,
       [hlc |-> Pack(clock'[n].l, clock'[n].c), wraps |-> wraps'[n], at |-> wall[n],
        after |-> heard[n], leaves |-> leaves])]
  /\ UNCHANGED <<wall, heard, merges>>

\* freshHlc: a leaf's stamp.  Some are taken and thrown away (submitRelationshipUpdates).
FreshHlc(n) == Stamp(n, {}) /\ open' = [open EXCEPT ![n] = @ \union {Len(stamps'[n])}]

\* createAction, after an import the caller awaits: other writes of this client may have
\* stamped leaves, and created their Actions, since this one's leaves were stamped.
CreateAction(n) ==
  \E leaves \in SUBSET open[n] \ {{}} :
    Stamp(n, leaves) /\ open' = [open EXCEPT ![n] = @ \ leaves]

\* mergeRemoteHLC, of an Action's stamp: a refused one is swallowed.
MergeRemoteHLC(n) ==
  \E m \in Clients \ {n} : \E i \in DOMAIN stamps[m] :
    /\ stamps[m][i].leaves # {} /\ merges[n] < MaxMerges /\ merges' = [merges EXCEPT ![n] = @ + 1]
    /\ Adoptable(stamps[m][i].hlc, wall[n])
    /\ Advance(n, AfterRemote(clock[n], stamps[m][i].hlc))
    /\ heard' = [heard EXCEPT ![n] = LatestHlc(@, stamps[m][i].hlc)]
    /\ UNCHANGED <<wall, stamps, open>>

HlNext == \E n \in Clients : Tick(n) \/ FreshHlc(n) \/ CreateAction(n) \/ MergeRemoteHLC(n)
HlSpec == HlInit /\ [][HlNext]_hlVars

-----------------------------------------------------------------------------
(* Properties                                                               *)

Follows(a, b) ==
  /\ LogicalTime(a.hlc) <= LogicalTime(b.hlc)
  /\ IsBefore(a.hlc, b.hlc) \/ (LogicalTime(a.hlc) = LogicalTime(b.hlc) /\ a.wraps < b.wraps)

\* clock.ts: a client's stamps, of leaves and of Actions that overlap, never go back in
\* logical time and never repeat or turn round, whatever it hears from others between
\* two of them; only stamps of one logical time with a wrap of the counter between them
\* may, and no others.
OwnOrder ==
  \A n \in Clients : \A i, j \in DOMAIN stamps[n] : i < j => Follows(stamps[n][i], stamps[n][j])

\* constants.ts: "a value adopted here never mints an Action the server would
\* refuse": no stamp is further ahead of the client's own wall clock than the
\* drift the server allows, however stamps are passed on.
NeverTooFarAhead ==
  \A n \in Clients : \A i \in DOMAIN stamps[n] :
    LogicalTime(stamps[n][i].hlc) - stamps[n][i].at <= MaxDrift

\* client.ts: "so the next local event is guaranteed monotonic against the
\* server's authoritative HLC".
AfterWhatWasHeard ==
  \A n \in Clients : \A i \in DOMAIN stamps[n] :
    stamps[n][i].wraps = 0 => IsBefore(stamps[n][i].after, stamps[n][i].hlc)

\* A client's Actions are ordered as their leaves are.
ActionsFollowLeaves ==
  \A n \in Clients : \A i, j \in {k \in DOMAIN stamps[n] : stamps[n][k].leaves # {}} :
    i < j => \A a \in stamps[n][i].leaves, b \in stamps[n][j].leaves : a < b

\* clock.ts: leaves are "at or below the Action HLC" that carries them.
LeavesAtOrBelow ==
  \A n \in Clients : \A i \in DOMAIN stamps[n] : \A a \in stamps[n][i].leaves :
    stamps[n][a].hlc <= stamps[n][i].hlc
=============================================================================

------------------------------- MODULE Presence -------------------------------
(***************************************************************************)
(* Ephemeral presence (packages/client/src/presence): the sender's keyed   *)
(* trailing debounce in front of POST /sync/presence (transport.ts) and    *)
(* the receiver's store of peers with its time to live, its cap and its    *)
(* listeners (store.ts).                                                   *)
(*                                                                         *)
(* A target is an (entity, channel) pair.  A post may be lost, and posts   *)
(* may arrive in any order.  A value is the number of the send it comes    *)
(* from; Cleared stands for a null value.  One channel's options are the   *)
(* constants.                                                              *)
(***************************************************************************)
EXTENDS Integers, FiniteSets, FiniteSetsExt

CONSTANTS Peers, Targets, Ttl, Cap, MaxNow,
          MaxSends      \* sends of all peers

VARIABLES
  last,       \* what each peer last set on a target
  pending,    \* each peer's debounced sends: target -> value
  posts,      \* posts under way
  posted,     \* the value each peer last posted on a target
  sends,
  entries,    \* the receiver's peers: <<target, peer>> -> value and receive time
  timer,      \* the sweep timer's deadline, 0 for none
  now, closed,
  seen        \* per target, the map a listener read when it was last told

prVars == <<last, pending, posts, posted, sends, entries, timer, now, closed, seen>>
senders == <<last, pending, posts, posted, sends>>
receiver == <<entries, timer, now, closed, seen>>

Cleared == 0
Without(f, ks) == [k \in DOMAIN f \ ks |-> f[k]]
Joined(f, g) == [k \in DOMAIN f \cup DOMAIN g |-> IF k \in DOMAIN f THEN f[k] ELSE g[k]]
Put(f, k, v) == [j \in DOMAIN f \cup {k} |-> IF j = k THEN v ELSE f[j]]

PrInit ==
  /\ last = [p \in Peers |-> <<>>] /\ pending = [p \in Peers |-> <<>>]
  /\ posts = {} /\ posted = [p \in Peers |-> <<>>]
  /\ sends = 0
  /\ entries = <<>> /\ timer = 0 /\ now = 1 /\ closed = FALSE /\ seen = [x \in Targets |-> <<>>]

-----------------------------------------------------------------------------
(* transport.ts                                                             *)

Post(p, x, v) == [peer |-> p, target |-> x, value |-> v, nr |-> sends]

\* A send replaces what its own target has pending and restarts that timer.
Keyed(p, x, v) == Put(pending[p], x, v)
Send(p, x) ==
  /\ sends < MaxSends /\ sends' = sends + 1
  /\ \E v \in {sends + 1, Cleared} :
       /\ pending' = [pending EXCEPT ![p] = Keyed(p, x, v)]
       /\ last' = [last EXCEPT ![p] = Put(@, x, v)]
  /\ UNCHANGED <<posts, posted>> /\ UNCHANGED receiver

DebounceFires(p, x) ==
  /\ x \in DOMAIN pending[p]
  /\ posts' = posts \union {Post(p, x, pending[p][x])}
  /\ posted' = [posted EXCEPT ![p] = Put(@, x, pending[p][x])]
  /\ pending' = [pending EXCEPT ![p] = Without(@, {x})]
  /\ UNCHANGED <<last, sends>> /\ UNCHANGED receiver

\* flush posts everything pending; what it awaits changes no state.
Flush(p) ==
  /\ DOMAIN pending[p] # {}
  /\ posts' = posts \union {Post(p, x, pending[p][x]) : x \in DOMAIN pending[p]}
  /\ posted' = [posted EXCEPT ![p] = Joined(pending[p], @)]
  /\ pending' = [pending EXCEPT ![p] = <<>>]
  /\ UNCHANGED <<last, sends>> /\ UNCHANGED receiver

\* close: what is pending is dropped unsent.
Cancel(p) ==
  /\ DOMAIN pending[p] # {}
  /\ last' = [last EXCEPT ![p] = Without(@, DOMAIN pending[p])]
  /\ pending' = [pending EXCEPT ![p] = <<>>]
  /\ UNCHANGED <<posts, posted, sends>> /\ UNCHANGED receiver

-----------------------------------------------------------------------------
(* store.ts                                                                 *)

ForEntity(es, x) == [p \in {k[2] : k \in {j \in DOMAIN es : j[1] = x}} |-> es[<<x, p>>].value]
Expired(es, at) == {k \in DOMAIN es : es[k].at + Ttl <= at}

\* armTimer: the earliest expiry, or no timer for an empty store.
ArmTimer(es) == IF DOMAIN es = {} THEN 0 ELSE Min({es[k].at + Ttl : k \in DOMAIN es})

\* Mutant: no entry goes past the cap.
OverNone(es, key) == {}

\* enforceCap: past the cap the oldest entry of the target goes; the one just
\* set is the newest.  Between equals the insertion order decides, not modelled.
Over(es, key) ==
  LET scoped == {k \in DOMAIN es : k[1] = key[1]}
      others == scoped \ {key}
  IN  IF Cardinality(scoped) <= Cap THEN {}
      ELSE {CHOOSE k \in others : \A j \in others : es[k].at <= es[j].at}

\* Every target that changed is announced, expired peers included.
Told(es, xs) == [x \in Targets |-> IF x \in xs THEN ForEntity(es, x) ELSE seen[x]]
Changed(es, gone, x) == {x} \union {k[1] : k \in gone}

Ingest(m) ==
  LET gone == Expired(entries, now)
      live == Without(entries, gone)
      key == <<m.target, m.peer>>
      set == Put(live, key, [value |-> m.value, at |-> now])
      next == IF m.value = Cleared THEN Without(live, {key}) ELSE Without(set, Over(set, key))
  IN  /\ ~closed
      /\ entries' = next /\ timer' = ArmTimer(next)
      /\ seen' = Told(next, Changed(live, gone, m.target))
      /\ UNCHANGED <<now, closed>>

\* A post settles: the packet reached the live stream, or was lost.
Arrives(m) == posts' = posts \ {m} /\ Ingest(m) /\ UNCHANGED <<last, pending, posted, sends>>
Lost(m) == posts' = posts \ {m} /\ UNCHANGED <<last, pending, posted, sends>> /\ UNCHANGED receiver

Sweep ==
  /\ timer # 0 /\ timer <= now
  /\ LET gone == Expired(entries, now)
     IN  /\ entries' = Without(entries, gone) /\ timer' = ArmTimer(entries')
         /\ seen' = Told(entries', {k[1] : k \in gone})
  /\ UNCHANGED <<now, closed>> /\ UNCHANGED senders

\* The stream closed: every peer observed on it is gone.
Reset ==
  /\ entries # <<>> /\ entries' = <<>> /\ timer' = 0
  /\ seen' = Told(<<>>, {k[1] : k \in DOMAIN entries})
  /\ UNCHANGED <<now, closed>> /\ UNCHANGED senders
Close ==
  /\ ~closed /\ closed' = TRUE /\ entries' = <<>> /\ timer' = 0
  /\ UNCHANGED <<now, seen>> /\ UNCHANGED senders

Tick == now < MaxNow /\ now' = now + 1 /\ UNCHANGED <<entries, timer, closed, seen>> /\ UNCHANGED senders

PrNext ==
  \/ \E p \in Peers : Flush(p) \/ Cancel(p)
                      \/ \E x \in Targets : Send(p, x) \/ DebounceFires(p, x)
  \/ \E m \in posts : Arrives(m) \/ Lost(m)
  \/ Sweep \/ Reset \/ Close \/ Tick

PrSpec == PrInit /\ [][PrNext]_prVars

-----------------------------------------------------------------------------
(* Properties                                                               *)

\* Whatever order packets, expiries and resets come in, a peer that stopped
\* sending is due to be swept when its time to live is over, a target never
\* shows more peers than its cap, and a listener that reads when it is told
\* has what a read would give it now.
PeersAreCurrent ==
  ~closed =>
    /\ \A k \in DOMAIN entries : timer # 0 /\ timer <= entries[k].at + Ttl
    /\ \A x \in Targets : /\ Cardinality(DOMAIN ForEntity(entries, x)) <= Cap
                          /\ seen[x] = ForEntity(entries, x)

\* A send is replaced only by a later one on its own target: the newest value
\* of every target is pending or was posted.
LatestIsSent ==
  \A p \in Peers :
    \A x \in DOMAIN last[p] :
      IF x \in DOMAIN pending[p] THEN pending[p][x] = last[p][x]
      ELSE x \in DOMAIN posted[p] /\ posted[p][x] = last[p][x]
=============================================================================

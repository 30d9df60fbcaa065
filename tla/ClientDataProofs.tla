--------------------------- MODULE ClientDataProofs ---------------------------
(***************************************************************************)
(* Two of the modules of MCClientData, for every value of their constants: *)
(* a client's stamps, whatever the width of the counter, the number of     *)
(* clients and what they hear; and the live subscription, however many     *)
(* groups there are and however often they change, handshakes overlap,     *)
(* requests fail and streams drop.                                         *)
(***************************************************************************)
EXTENDS MCClientData, TLAPS

-----------------------------------------------------------------------------
(* The clock: the inductive invariant *)

ClockType == [l : Nat, c : {k \in Nat : k < Mask}]
StampType == [hlc : Nat, wraps : Nat, at : Nat, after : Nat, leaves : SUBSET Nat]
Now(n) == Pack(clock[n].l, clock[n].c)

HlType ==
  /\ wall \in [Clients -> Nat] /\ clock \in [Clients -> ClockType] /\ wraps \in [Clients -> Nat]
  /\ stamps \in [Clients -> Seq(StampType)] /\ open \in [Clients -> SUBSET Nat] /\ heard \in [Clients -> Nat]

\* What a client has stamped is not later than its clock, and below it if the counter did
\* not wrap since.
Behind(s, c, w) ==
  LogicalTime(s.hlc) <= c.l /\ s.wraps <= w /\ (s.wraps = w => s.hlc <= Pack(c.l, c.c))
StampsBehind == \A n \in Clients : \A i \in DOMAIN stamps[n] : Behind(stamps[n][i], clock[n], wraps[n])

ClocksNear == \A n \in Clients : clock[n].l <= wall[n] + MaxDrift

HlInv == HlType /\ StampsBehind /\ ClocksNear /\ OwnOrder /\ NeverTooFarAhead

-----------------------------------------------------------------------------
(* Stamps *)

LEMMA MaskIs == Mask \in Nat \ {0}
BY HlcAssumption DEF Mask

LEMMA DivOf ==
  ASSUME NEW m \in Nat \ {0}, NEW x \in Nat, NEW y \in Nat, y < m
  PROVE  x * m \in Nat /\ (x * m + y) \div m = x
OBVIOUS

\* pack and unpack: a counter below the mask comes back, and stamps compare by their
\* logical time first.
LEMMA PackIs ==
  ASSUME NEW s \in ClockType
  PROVE  /\ Pack(s.l, s.c) = s.l * Mask + s.c /\ Pack(s.l, s.c) \in Nat
         /\ LogicalTime(Pack(s.l, s.c)) = s.l
<1>1. PICK m \in Nat \ {0} : m = Mask
  BY MaskIs
<1>2. s.l \in Nat /\ s.c \in Nat /\ s.c < m
  BY <1>1 DEF ClockType
<1>3. s.c % m = s.c
  BY <1>2
<1>4. s.l * m \in Nat /\ (s.l * m + s.c) \div m = s.l
  BY <1>2, DivOf
<1> QED BY <1>1, <1>2, <1>3, <1>4 DEF Pack, LogicalTime

LEMMA PackOrder ==
  ASSUME NEW s \in ClockType, NEW t \in ClockType, s.l < t.l \/ (s.l = t.l /\ s.c < t.c)
  PROVE  Pack(s.l, s.c) < Pack(t.l, t.c)
<1>1. PICK m \in Nat \ {0} : m = Mask
  BY MaskIs
<1>2. s.l \in Nat /\ s.c \in Nat /\ s.c < m /\ t.l \in Nat /\ t.c \in Nat
  BY <1>1 DEF ClockType
<1>3. s.l * m + s.c < t.l * m + t.c
  <2>1. CASE s.l < t.l
    <3>1. (s.l + 1) * m <= t.l * m
      BY <1>2, <2>1
    <3>2. (s.l + 1) * m = s.l * m + m
      BY <1>2
    <3>3. s.l * m \in Nat /\ t.l * m \in Nat
      BY <1>2
    <3> QED BY <1>2, <3>1, <3>2, <3>3
  <2>2. CASE s.l = t.l /\ s.c < t.c
    <3>1. s.l * m \in Nat
      BY <1>2
    <3> QED BY <1>2, <2>2, <3>1
  <2> QED BY <2>1, <2>2
<1> QED BY <1>1, <1>3, PackIs

\* localEvent and receiveRemoteHLC move a clock forward, unless the counter wraps.
LEMMA CounterUp ==
  ASSUME NEW s \in ClockType, NEW t, t = [l |-> s.l, c |-> (s.c + 1) % Mask]
  PROVE  t \in ClockType /\ (~Wraps(s, t) => Pack(s.l, s.c) < Pack(t.l, t.c))
<1>1. PICK m \in Nat \ {0} : m = Mask
  BY MaskIs
<1>2. s.l \in Nat /\ s.c \in Nat /\ s.c < m
  BY <1>1 DEF ClockType
<1>3. CASE s.c + 1 = m
  <2>1. (s.c + 1) % m = 0
    BY <1>2, <1>3
  <2>2. t \in ClockType
    BY <1>1, <1>2, <2>1 DEF ClockType
  <2>3. Wraps(s, t)
    BY <1>1, <1>2, <1>3, <2>1 DEF Wraps
  <2> QED BY <2>2, <2>3
<1>4. CASE s.c + 1 # m
  <2>1. (s.c + 1) % m = s.c + 1 /\ s.c + 1 < m
    BY <1>2, <1>4
  <2>2. t \in ClockType
    BY <1>1, <1>2, <2>1 DEF ClockType
  <2>3. s.l = t.l /\ s.c < t.c
    BY <1>1, <1>2, <2>1
  <2> QED BY <2>2, <2>3, PackOrder
<1> QED BY <1>3, <1>4

LEMMA AfterLocalIs ==
  ASSUME NEW s \in ClockType, NEW now \in Nat, NEW t, t = AfterLocal(s, now)
  PROVE  /\ t \in ClockType /\ t.l \in {s.l, now} /\ s.l <= t.l
         /\ ~Wraps(s, t) => Pack(s.l, s.c) < Pack(t.l, t.c)
<1>1. CASE now > s.l
  <2>1. t = [l |-> now, c |-> 0]
    BY <1>1 DEF AfterLocal
  <2>2. t \in ClockType
    BY <2>1, MaskIs DEF ClockType
  <2> QED BY <1>1, <2>1, <2>2, PackOrder DEF ClockType
<1>2. CASE ~(now > s.l)
  <2>1. t = [l |-> s.l, c |-> (s.c + 1) % Mask]
    BY <1>2 DEF AfterLocal
  <2>2. s.l \in Nat /\ t.l = s.l
    BY <2>1 DEF ClockType
  <2> QED BY <2>1, <2>2, CounterUp
<1> QED BY <1>1, <1>2

LEMMA AfterRemoteIs ==
  ASSUME NEW s \in ClockType, NEW remote \in Nat, NEW t, t = AfterRemote(s, remote)
  PROVE  /\ t \in ClockType /\ t.l \in {s.l, LogicalTime(remote)} /\ s.l <= t.l
         /\ ~Wraps(s, t) => Pack(s.l, s.c) < Pack(t.l, t.c)
<1>1. PICK m \in Nat \ {0} : m = Mask
  BY MaskIs
<1>2. /\ LogicalTime(remote) \in Nat /\ Counter(remote) \in Nat /\ Counter(remote) < Mask
      /\ s.l \in Nat /\ s.c \in Nat
  <2>1. remote \div m \in Nat /\ remote % m \in Nat /\ remote % m < m
    OBVIOUS
  <2> QED BY <1>1, <2>1 DEF LogicalTime, Counter, ClockType
<1>3. CASE LogicalTime(remote) > s.l
  <2>1. t = [l |-> LogicalTime(remote), c |-> 0]
    BY <1>3 DEF AfterRemote
  <2>2. t \in ClockType
    BY <1>2, <2>1, MaskIs DEF ClockType
  <2> QED BY <1>2, <1>3, <2>1, <2>2, PackOrder
<1>4. CASE LogicalTime(remote) = s.l /\ Counter(remote) > s.c
  <2>1. t = [s EXCEPT !.c = Counter(remote)]
    BY <1>2, <1>4 DEF AfterRemote
  <2>2. t \in ClockType /\ t.l = s.l /\ t.c = Counter(remote)
    BY <1>2, <2>1 DEF ClockType
  <2> QED BY <1>2, <1>4, <2>2, PackOrder
<1>5. CASE ~(LogicalTime(remote) > s.l) /\ ~(LogicalTime(remote) = s.l /\ Counter(remote) > s.c)
  <2>1. t = [l |-> s.l, c |-> (s.c + 1) % Mask]
    BY <1>5 DEF AfterRemote, ClockType
  <2> QED BY <1>2, <2>1, CounterUp
<1> QED BY <1>3, <1>4, <1>5

\* A stamp of an earlier logical time is the smaller one, whatever the counters.
LEMMA TimeOrder ==
  ASSUME NEW x \in Nat, NEW t \in ClockType, LogicalTime(x) < t.l
  PROVE  x < Pack(t.l, t.c)
<1>1. PICK m \in Nat \ {0} : m = Mask
  BY MaskIs
<1>2. t.l \in Nat /\ t.c \in Nat
  BY DEF ClockType
<1>3. PICK q \in Nat : q = x \div m
  BY <1>1
<1>4. x < (q + 1) * m /\ q < t.l
  <2>1. x = m * (x \div m) + (x % m) /\ x % m < m
    BY <1>1
  <2>2. m * q = q * m /\ (q + 1) * m = q * m + m
    BY <1>3
  <2> QED BY <1>1, <1>3, <2>1, <2>2 DEF LogicalTime
<1>5. (q + 1) * m <= t.l * m /\ t.l * m \in Nat /\ (q + 1) * m \in Nat
  BY <1>2, <1>4
<1> QED BY <1>1, <1>2, <1>4, <1>5, PackIs

-----------------------------------------------------------------------------
(* Every step keeps the clock's invariant *)

LEMMA HlTypes ==
  ASSUME HlInv, NEW n \in Clients
  PROVE  /\ stamps[n] \in Seq(StampType) /\ DOMAIN stamps[n] = 1..Len(stamps[n]) /\ Len(stamps[n]) \in Nat
         /\ \A i \in DOMAIN stamps[n] : stamps[n][i] \in StampType
         /\ clock[n] \in ClockType /\ clock[n].l \in Nat /\ wraps[n] \in Nat /\ Now(n) \in Nat
         /\ wall[n] \in Nat /\ MaxDrift \in Nat /\ heard[n] \in Nat
<1>1. /\ stamps[n] \in Seq(StampType) /\ clock[n] \in ClockType /\ wraps[n] \in Nat /\ wall[n] \in Nat
      /\ heard[n] \in Nat
  BY DEF HlInv, HlType
<1>2. \A i \in DOMAIN stamps[n] : stamps[n][i] \in StampType
  BY <1>1
<1>3. Now(n) \in Nat
  BY <1>1, PackIs DEF Now
<1>4. DOMAIN stamps[n] = 1..Len(stamps[n]) /\ Len(stamps[n]) \in Nat
  BY <1>1
<1>5. clock[n].l \in Nat /\ MaxDrift \in Nat
  BY <1>1, HlcAssumption DEF ClockType
<1> QED BY <1>1, <1>2, <1>3, <1>4, <1>5

\* An operation that moves a client's clock, by its own wall clock or by a stamp that it
\* hears, leaves what the client has stamped behind it.
LEMMA AdvanceKeeps ==
  ASSUME HlInv, NEW n \in Clients, NEW t \in ClockType, Advance(n, t), UNCHANGED wall,
         clock[n].l <= t.l, t.l <= wall[n] + MaxDrift,
         ~Wraps(clock[n], t) => Pack(clock[n].l, clock[n].c) < Pack(t.l, t.c)
  PROVE  /\ clock' \in [Clients -> ClockType] /\ wraps' \in [Clients -> Nat] /\ clock'[n] = t /\ ClocksNear'
         /\ \A m \in Clients : \A i \in DOMAIN stamps[m] : Behind(stamps[m][i], clock'[m], wraps'[m])
         /\ \A i \in DOMAIN stamps[n], b \in StampType :
              b.hlc = Pack(t.l, t.c) /\ b.wraps = wraps'[n] => Follows(stamps[n][i], b)
<1>1. /\ clock' \in [Clients -> ClockType] /\ clock'[n] = t /\ \A m \in Clients \ {n} : clock'[m] = clock[m]
  BY DEF Advance, HlInv, HlType
<1>2. /\ wraps' \in [Clients -> Nat] /\ \A m \in Clients \ {n} : wraps'[m] = wraps[m]
      /\ wraps'[n] = IF Wraps(clock[n], t) THEN wraps[n] + 1 ELSE wraps[n]
  <2>1. wraps \in [Clients -> Nat]
    BY DEF HlInv, HlType
  <2>2. CASE Wraps(clock[n], t)
    <3>1. wraps' = [wraps EXCEPT ![n] = @ + 1]
      BY <2>2 DEF Advance
    <3> QED BY <2>1, <2>2, <3>1
  <2>3. CASE ~Wraps(clock[n], t)
    BY <2>1, <2>3 DEF Advance
  <2> QED BY <2>2, <2>3
<1>3. ClocksNear'
  BY <1>1 DEF HlInv, ClocksNear
<1>4. /\ t.l \in Nat /\ Pack(t.l, t.c) \in Nat /\ LogicalTime(Pack(t.l, t.c)) = t.l
      /\ wraps[n] \in Nat /\ wraps'[n] \in Nat
  BY <1>2, PackIs, HlTypes DEF ClockType
<1>5. ASSUME NEW i \in DOMAIN stamps[n]
      PROVE  /\ LogicalTime(stamps[n][i].hlc) <= t.l /\ stamps[n][i].wraps <= wraps'[n]
             /\ stamps[n][i].wraps = wraps'[n] => stamps[n][i].hlc < Pack(t.l, t.c)
             /\ stamps[n][i].hlc < Pack(t.l, t.c) \/ LogicalTime(stamps[n][i].hlc) = t.l
             /\ stamps[n][i].hlc \in Nat /\ stamps[n][i].wraps \in Nat
  <2>1. PICK s \in StampType : s = stamps[n][i]
    BY HlTypes
  <2>2. s.hlc \in Nat /\ s.wraps \in Nat /\ LogicalTime(s.hlc) \in Nat
    <3>1. PICK m \in Nat \ {0} : m = Mask
      BY MaskIs
    <3> QED BY <3>1 DEF StampType, LogicalTime
  <2>3. /\ LogicalTime(s.hlc) <= clock[n].l /\ s.wraps <= wraps[n]
        /\ s.wraps = wraps[n] => s.hlc <= Pack(clock[n].l, clock[n].c)
    BY <2>1 DEF HlInv, StampsBehind, Behind
  <2>4. LogicalTime(s.hlc) <= t.l /\ s.wraps <= wraps'[n]
    <3>1. clock[n].l \in Nat
      BY HlTypes
    <3>2. LogicalTime(s.hlc) <= t.l
      BY <1>4, <2>2, <2>3, <3>1
    <3>3. s.wraps <= wraps'[n]
      BY <1>2, <1>4, <2>2, <2>3
    <3> QED BY <3>2, <3>3
  <2>5. ASSUME s.wraps = wraps'[n] PROVE s.hlc < Pack(t.l, t.c)
    <3>1. s.wraps = wraps[n] /\ ~Wraps(clock[n], t)
      BY <1>2, <1>4, <2>2, <2>3, <2>5
    <3>2. Pack(clock[n].l, clock[n].c) \in Nat
      BY HlTypes DEF Now
    <3> QED BY <1>4, <2>2, <2>3, <3>1, <3>2
  <2>6. s.hlc < Pack(t.l, t.c) \/ LogicalTime(s.hlc) = t.l
    BY <1>4, <2>2, <2>4, TimeOrder
  <2> QED BY <2>1, <2>2, <2>4, <2>5, <2>6
<1>6. ASSUME NEW m \in Clients, NEW i \in DOMAIN stamps[m] PROVE Behind(stamps[m][i], clock'[m], wraps'[m])
  <2>1. CASE m = n
    BY <1>1, <1>4, <1>5, <2>1 DEF Behind
  <2>2. CASE m # n
    BY <1>1, <1>2, <2>2 DEF HlInv, StampsBehind
  <2> QED BY <2>1, <2>2
<1>7. ASSUME NEW i \in DOMAIN stamps[n], NEW b \in StampType, b.hlc = Pack(t.l, t.c), b.wraps = wraps'[n]
      PROVE  Follows(stamps[n][i], b)
  BY <1>4, <1>5, <1>7 DEF Follows, IsBefore
<1> QED BY <1>1, <1>2, <1>3, <1>6, <1>7

LEMMA TickKeeps ==
  ASSUME HlInv, NEW n \in Clients, Tick(n)
  PROVE  HlInv'
<1>1. /\ wall' \in [Clients -> Nat] /\ \A m \in Clients : wall[m] <= wall'[m] /\ wall'[m] \in Nat /\ wall[m] \in Nat
      /\ UNCHANGED <<clock, stamps, open, wraps, heard>>
  BY DEF Tick, HlInv, HlType
<1>2. ClocksNear'
  <2> SUFFICES ASSUME NEW m \in Clients PROVE clock[m].l <= wall'[m] + MaxDrift
    BY <1>1 DEF ClocksNear
  <2>1. clock[m].l \in Nat /\ MaxDrift \in Nat
    BY HlTypes
  <2>2. clock[m].l <= wall[m] + MaxDrift
    BY DEF HlInv, ClocksNear
  <2> QED BY <1>1, <2>1, <2>2
<1> QED BY <1>1, <1>2 DEF HlInv, HlType, StampsBehind, OwnOrder, NeverTooFarAhead

\* A stamp is appended to what its client has stamped, and follows all of it.
LEMMA StampKeeps ==
  ASSUME HlInv, NEW n \in Clients, NEW leaves \in SUBSET Nat, Stamp(n, leaves), open' \in [Clients -> SUBSET Nat]
  PROVE  HlInv'
<1>1. PICK t : t = AfterLocal(clock[n], wall[n])
  OBVIOUS
<1>2. t \in ClockType /\ clock[n].l <= t.l /\ t.l <= wall[n] + MaxDrift
      /\ (~Wraps(clock[n], t) => Pack(clock[n].l, clock[n].c) < Pack(t.l, t.c))
  <2>1. /\ t \in ClockType /\ t.l \in {clock[n].l, wall[n]} /\ clock[n].l <= t.l
        /\ ~Wraps(clock[n], t) => Pack(clock[n].l, clock[n].c) < Pack(t.l, t.c)
    BY <1>1, HlTypes, AfterLocalIs
  <2> QED BY <2>1, HlTypes DEF HlInv, ClocksNear
<1>3. Advance(n, t) /\ UNCHANGED <<wall, heard>>
  BY <1>1 DEF Stamp
<1>4. /\ clock' \in [Clients -> ClockType] /\ wraps' \in [Clients -> Nat] /\ clock'[n] = t /\ ClocksNear'
      /\ \A m \in Clients : \A i \in DOMAIN stamps[m] : Behind(stamps[m][i], clock'[m], wraps'[m])
      /\ \A i \in DOMAIN stamps[n], b \in StampType :
           b.hlc = Pack(t.l, t.c) /\ b.wraps = wraps'[n] => Follows(stamps[n][i], b)
  BY <1>2, <1>3, AdvanceKeeps
<1> DEFINE a == [hlc |-> Pack(clock'[n].l, clock'[n].c), wraps |-> wraps'[n], at |-> wall[n],
                 after |-> heard[n], leaves |-> leaves]
<1>5. Pack(t.l, t.c) \in Nat /\ LogicalTime(Pack(t.l, t.c)) = t.l /\ wraps'[n] \in Nat /\ t.l \in Nat
  BY <1>2, <1>4, PackIs DEF ClockType
<1>6. PICK x \in StampType : x = a
  BY <1>4, <1>5, HlTypes DEF StampType
<1>7. x.hlc = Pack(t.l, t.c) /\ x.wraps = wraps'[n] /\ x.at = wall[n]
  BY <1>4, <1>6
<1>8. stamps' = [stamps EXCEPT ![n] = Append(@, a)]
  BY DEF Stamp
<1> HIDE DEF a
<1>9. /\ stamps' \in [Clients -> Seq(StampType)] /\ stamps'[n] = Append(stamps[n], x)
      /\ \A m \in Clients \ {n} : stamps'[m] = stamps[m]
  <2>1. PICK z : z = Append(stamps[n], x)
    OBVIOUS
  <2>2. z \in Seq(StampType)
    BY <2>1, HlTypes
  <2>3. stamps' = [stamps EXCEPT ![n] = z] /\ stamps \in [Clients -> Seq(StampType)]
    BY <1>6, <1>8, <2>1 DEF HlInv, HlType
  <2> QED BY <2>1, <2>2, <2>3
<1>10. /\ DOMAIN stamps'[n] = 1..(Len(stamps[n]) + 1) /\ stamps'[n][Len(stamps[n]) + 1] = x
       /\ \A i \in DOMAIN stamps[n] : stamps'[n][i] = stamps[n][i]
       /\ \A i \in DOMAIN stamps'[n] : i \in DOMAIN stamps[n] \/ i = Len(stamps[n]) + 1
  <2>1. stamps[n] \in Seq(StampType) /\ DOMAIN stamps[n] = 1..Len(stamps[n]) /\ Len(stamps[n]) \in Nat
    BY HlTypes
  <2> QED BY <1>9, <2>1
<1>11. HlType'
  BY <1>3, <1>4, <1>9 DEF HlInv, HlType
<1>12. StampsBehind'
  <2> SUFFICES ASSUME NEW m \in Clients, NEW i \in DOMAIN stamps'[m]
               PROVE  Behind(stamps'[m][i], clock'[m], wraps'[m])
    BY DEF StampsBehind
  <2>1. CASE m # n
    BY <1>4, <1>9, <2>1
  <2>2. CASE m = n /\ i \in DOMAIN stamps[n]
    BY <1>4, <1>10, <2>2
  <2>3. CASE m = n /\ i = Len(stamps[n]) + 1
    BY <1>4, <1>5, <1>7, <1>10, <2>3 DEF Behind
  <2> QED BY <1>10, <2>1, <2>2, <2>3
<1>13. OwnOrder'
  <2> SUFFICES ASSUME NEW m \in Clients, NEW i \in DOMAIN stamps'[m], NEW j \in DOMAIN stamps'[m], i < j
               PROVE  Follows(stamps'[m][i], stamps'[m][j])
    BY DEF OwnOrder
  <2>1. CASE m # n
    BY <1>9, <2>1 DEF HlInv, OwnOrder
  <2>2. CASE m = n
    <3>1. i \in DOMAIN stamps[n]
      BY <1>10, <2>2, HlTypes
    <3>2. CASE j \in DOMAIN stamps[n]
      BY <1>10, <2>2, <3>1, <3>2 DEF HlInv, OwnOrder
    <3>3. CASE j = Len(stamps[n]) + 1
      BY <1>4, <1>7, <1>10, <2>2, <3>1, <3>3
    <3> QED BY <1>10, <2>2, <3>2, <3>3
  <2> QED BY <2>1, <2>2
<1>14. NeverTooFarAhead'
  <2> SUFFICES ASSUME NEW m \in Clients, NEW i \in DOMAIN stamps'[m]
               PROVE  LogicalTime(stamps'[m][i].hlc) - stamps'[m][i].at <= MaxDrift
    BY DEF NeverTooFarAhead
  <2>1. CASE m # n
    BY <1>9, <2>1 DEF HlInv, NeverTooFarAhead
  <2>2. CASE m = n /\ i \in DOMAIN stamps[n]
    BY <1>10, <2>2 DEF HlInv, NeverTooFarAhead
  <2>3. CASE m = n /\ i = Len(stamps[n]) + 1
    <3>1. LogicalTime(stamps'[m][i].hlc) = t.l /\ stamps'[m][i].at = wall[n]
      BY <1>5, <1>7, <1>10, <2>3
    <3>2. wall[n] \in Nat /\ MaxDrift \in Nat
      BY HlTypes
    <3> QED BY <1>2, <1>5, <3>1, <3>2
  <2> QED BY <1>10, <2>1, <2>2, <2>3
<1> QED BY <1>4, <1>11, <1>12, <1>13, <1>14 DEF HlInv

LEMMA FreshKeeps ==
  ASSUME HlInv, NEW n \in Clients, FreshHlc(n)
  PROVE  HlInv'
<1>1. Stamp(n, {}) /\ open' = [open EXCEPT ![n] = @ \union {Len(stamps'[n])}]
  BY DEF FreshHlc
<1>2. Len(stamps'[n]) \in Nat
  <2>1. PICK a : stamps' = [stamps EXCEPT ![n] = Append(@, a)]
    BY <1>1 DEF Stamp
  <2>2. stamps'[n] = Append(stamps[n], a)
    BY <2>1 DEF HlInv, HlType
  <2> QED BY <2>2, HlTypes
<1>3. open' \in [Clients -> SUBSET Nat]
  BY <1>1, <1>2 DEF HlInv, HlType
<1> QED BY <1>1, <1>3, StampKeeps

LEMMA CreateKeeps ==
  ASSUME HlInv, NEW n \in Clients, CreateAction(n)
  PROVE  HlInv'
<1>1. PICK leaves \in SUBSET open[n] : Stamp(n, leaves) /\ open' = [open EXCEPT ![n] = @ \ leaves]
  BY DEF CreateAction
<1>2. leaves \in SUBSET Nat /\ open' \in [Clients -> SUBSET Nat]
  BY <1>1 DEF HlInv, HlType
<1> QED BY <1>1, <1>2, StampKeeps

LEMMA MergeKeeps ==
  ASSUME HlInv, NEW n \in Clients, MergeRemoteHLC(n)
  PROVE  HlInv'
<1>1. PICK m \in Clients \ {n} : \E i \in DOMAIN stamps[m] :
        /\ Adoptable(stamps[m][i].hlc, wall[n])
        /\ Advance(n, AfterRemote(clock[n], stamps[m][i].hlc))
        /\ heard' = [heard EXCEPT ![n] = LatestHlc(@, stamps[m][i].hlc)]
        /\ UNCHANGED <<wall, stamps, open>>
  BY DEF MergeRemoteHLC
<1>2. PICK remote \in Nat :
        /\ Adoptable(remote, wall[n]) /\ Advance(n, AfterRemote(clock[n], remote))
        /\ heard' = [heard EXCEPT ![n] = LatestHlc(@, remote)]
        /\ UNCHANGED <<wall, stamps, open>>
  <2>1. \A i \in DOMAIN stamps[m] : stamps[m][i].hlc \in Nat
    BY HlTypes DEF StampType
  <2> QED BY <1>1, <2>1
<1>3. PICK t : t = AfterRemote(clock[n], remote)
  OBVIOUS
<1>4. /\ t \in ClockType /\ t.l \in {clock[n].l, LogicalTime(remote)} /\ clock[n].l <= t.l
      /\ ~Wraps(clock[n], t) => Pack(clock[n].l, clock[n].c) < Pack(t.l, t.c)
  BY <1>3, HlTypes, AfterRemoteIs
<1>5. t.l <= wall[n] + MaxDrift
  <2>1. PICK k \in Nat : k = Mask /\ k # 0
    BY MaskIs
  <2>2. LogicalTime(remote) \in Nat
    BY <2>1 DEF LogicalTime
  <2>3. clock[n].l <= wall[n] + MaxDrift
    BY DEF HlInv, ClocksNear
  <2> QED BY <1>2, <1>4, <2>2, <2>3, HlTypes DEF Adoptable, ClockType
<1>6. /\ clock' \in [Clients -> ClockType] /\ wraps' \in [Clients -> Nat] /\ ClocksNear'
      /\ \A j \in Clients : \A i \in DOMAIN stamps[j] : Behind(stamps[j][i], clock'[j], wraps'[j])
  BY <1>2, <1>3, <1>4, <1>5, AdvanceKeeps
<1>7. heard' \in [Clients -> Nat]
  <2>1. PICK h \in Nat : h = LatestHlc(heard[n], remote)
    BY HlTypes DEF LatestHlc
  <2> QED BY <1>2, <2>1 DEF HlInv, HlType
<1>8. HlType' /\ StampsBehind'
  BY <1>2, <1>6, <1>7 DEF HlInv, HlType, StampsBehind
<1> QED BY <1>2, <1>6, <1>8 DEF HlInv, OwnOrder, NeverTooFarAhead

LEMMA ClockStarts == HlInit => HlInv
<1> SUFFICES ASSUME HlInit PROVE HlInv
  OBVIOUS
<1>1. /\ wall \in [Clients -> Nat] /\ clock = [n \in Clients |-> [l |-> 0, c |-> 0]]
      /\ stamps = [n \in Clients |-> <<>>] /\ open = [n \in Clients |-> {}]
      /\ wraps = [n \in Clients |-> 0] /\ heard = [n \in Clients |-> 0]
  BY DEF HlInit
<1>2. [l |-> 0, c |-> 0] \in ClockType /\ <<>> \in Seq(StampType) /\ DOMAIN <<>> = {}
  BY MaskIs DEF ClockType
<1>3. HlType
  BY <1>1, <1>2 DEF HlType
<1>4. \A n \in Clients : DOMAIN stamps[n] = {} /\ clock[n].l = 0 /\ wall[n] \in Nat /\ MaxDrift \in Nat
  BY <1>1, <1>2, HlcAssumption
<1> QED BY <1>3, <1>4 DEF HlInv, StampsBehind, ClocksNear, OwnOrder, NeverTooFarAhead

LEMMA ClockStep == HlInv /\ [HlNext]_hlVars => HlInv'
<1> SUFFICES ASSUME HlInv, [HlNext]_hlVars PROVE HlInv'
  OBVIOUS
<1>1. CASE UNCHANGED hlVars
  BY <1>1 DEF hlVars, HlInv, HlType, StampsBehind, ClocksNear, OwnOrder, NeverTooFarAhead
<1> QED BY <1>1, TickKeeps, FreshKeeps, CreateKeeps, MergeKeeps DEF HlNext

\* clock.ts and pack.ts, localEvent and receiveRemoteHLC, as freshHlc, createAction and
\* mergeRemoteHLC call them: a client's stamps, those of overlapping Actions included,
\* follow its own order but for a wrap within one logical time, and never lead its wall
\* clock by more than the server allows.
THEOREM StampsHold == SumSpec => []StampsAreSound
<1> DEFINE Inv == part = "clock" => HlInv
<1>1. SumInit => Inv
  BY ClockStarts DEF SumInit
<1>2. Inv /\ [SumNext]_allVars => Inv'
  <2> SUFFICES ASSUME Inv, [SumNext]_allVars, part' = "clock" PROVE HlInv'
    OBVIOUS
  <2>1. part = "clock"
    BY DEF SumNext, allVars
  <2>2. [HlNext]_hlVars
    BY <2>1 DEF SumNext, allVars, clockVars, hlVars
  <2> QED BY <2>1, <2>2, ClockStep
<1>3. Inv => StampsAreSound
  BY DEF HlInv, StampsAreSound
<1> QED BY <1>1, <1>2, <1>3, PTL DEF SumSpec

-----------------------------------------------------------------------------
(* The subscription: the inductive invariant *)

Stages == {"idle", "asked", "answered"}
CallType ==
  [at : Stages, compare : BOOLEAN, previous : SUBSET MbGroups, answer : SUBSET MbGroups,
   valid : SUBSET MbGroups, crossed : BOOLEAN]
SubPhases == {"none", "first", "ready", "open", "handling", "waiting", "refresh"}
SubType == [on : BOOLEAN, groups : SUBSET MbGroups, phase : SubPhases, opened : SUBSET MbGroups]
MbType ==
  /\ member \in SUBSET MbGroups /\ outside \in SUBSET MbGroups /\ scoped \in BOOLEAN
  /\ actorGroups \in SUBSET MbGroups /\ inAppScope \in SUBSET MbGroups /\ handshakeRan \in BOOLEAN
  /\ sub \in SubType /\ call \in [Live!Callers -> CallType] /\ wake \in BOOLEAN

\* The adopted set is known once a handshake ran, and filtered by the scope if there is one.
AdoptedOnce ==
  /\ ~handshakeRan => actorGroups = {}
  /\ scoped => inAppScope = actorGroups
  /\ declined \subseteq actorGroups /\ extra \cap actorGroups = {}

\* Two calls in flight have crossed, and one that crossed no other compares with the set
\* that is still the adopted one.
CallsApart ==
  /\ \A c, d \in Live!Callers : c # d /\ call[c].at # "idle" /\ call[d].at # "idle" => call[c].crossed
  /\ \A c \in Live!Callers : call[c].at # "idle" /\ ~call[c].crossed =>
       /\ call[c].compare => handshakeRan /\ call[c].previous = actorGroups
       /\ ~call[c].compare /\ handshakeRan => c = "app"
  /\ \A c \in Live!Callers : call[c].compare => c = "loop" /\ handshakeRan

\* A wake-up waits at an open stream, which stands for the groups it was opened for.
StreamStands ==
  /\ wake => sub.on /\ sub.phase \in {"open", "handling"}
  /\ sub.on => mbScope = sub.groups /\ sub.phase # "none"
  /\ sub.on /\ sub.phase \in {"open", "handling"} => sub.opened = sub.groups
  /\ sub.on /\ sub.phase \in {"refresh", "handling"} => call["loop"].at # "idle"
  /\ sub.on /\ sub.phase \in {"first", "ready", "open"} => call["loop"].at = "idle"

\* The subscription is what follows from the adopted set.
FollowsAdopted ==
  sub.on /\ handshakeRan =>
    \A g \in MbGroups \ missed : (g \in sub.groups) = ((g \in actorGroups /\ g \notin declined) \/ g \in extra)

\* The adopted set is current, or something is under way that will say so.
NewsUnderWay ==
  /\ sub.on /\ handshakeRan /\ ~wake /\ sub.phase \notin {"waiting", "refresh", "handling"} =>
       \A g \in MbGroups \ missed : (g \in actorGroups) = (g \in Live!Visible)
  /\ sub.on /\ sub.phase = "refresh" /\ call["loop"].at = "answered" =>
       \A g \in MbGroups \ missed : (g \in call["loop"].answer) = (g \in Live!Visible)

MbInv == MbType /\ AdoptedOnce /\ CallsApart /\ StreamStands /\ FollowsAdopted /\ NewsUnderWay

-----------------------------------------------------------------------------
(* Calls and subscriptions *)

LEMMA AskedIs ==
  ASSUME MbType, NEW b \in BOOLEAN
  PROVE  /\ Live!Asked(b) \in CallType /\ Live!Asked(b).at = "asked" /\ Live!Asked(b).compare = (b /\ handshakeRan)
         /\ Live!Asked(b).compare => Live!Asked(b).previous = actorGroups
         /\ Live!Asked(b).crossed = \E c \in Live!Callers : call[c].at # "idle"
<1>1. PICK m \in BOOLEAN : m = (b /\ handshakeRan)
  BY DEF MbType
<1>2. PICK x \in BOOLEAN : x = \E c \in Live!Callers : call[c].at # "idle"
  OBVIOUS
<1>3. PICK p \in SUBSET MbGroups : p = IF b /\ handshakeRan THEN actorGroups ELSE {}
  BY DEF MbType
<1>4. Live!Asked(b) = [Live!Idle EXCEPT !.at = "asked", !.compare = m, !.previous = p, !.crossed = x]
  BY <1>1, <1>2, <1>3 DEF Live!Asked
<1>5. Live!Asked(b) = [at |-> "asked", compare |-> m, previous |-> p, answer |-> {}, valid |-> {}, crossed |-> x]
  BY <1>4 DEF Live!Idle
<1>6. /\ Live!Asked(b) \in CallType /\ Live!Asked(b).at = "asked" /\ Live!Asked(b).compare = m
      /\ Live!Asked(b).previous = p /\ Live!Asked(b).crossed = x
  BY <1>5 DEF CallType, Stages
<1> QED BY <1>1, <1>2, <1>3, <1>6

\* A call begins: what is in flight has crossed it, and the other way round.
LEMMA CallBegins ==
  ASSUME MbType, CallsApart, NEW c \in Live!Callers, call[c].at = "idle", NEW b \in BOOLEAN, b => c = "loop",
         handshakeRan => b \/ c = "app", call' = Live!WithCall(c, Live!Asked(b)),
         UNCHANGED <<handshakeRan, actorGroups>>
  PROVE  /\ call' \in [Live!Callers -> CallType] /\ CallsApart' /\ call'[c].at = "asked"
         /\ \A d \in Live!Callers \ {c} : call'[d].at = call[d].at /\ call'[d].answer = call[d].answer
<1>1. PICK k \in CallType : /\ k = Live!Asked(b) /\ k.at = "asked" /\ k.compare = (b /\ handshakeRan)
                            /\ k.compare => k.previous = actorGroups
                            /\ k.crossed = \E d \in Live!Callers : call[d].at # "idle"
  BY AskedIs
<1>2. call' = [d \in Live!Callers |-> IF d = c THEN k ELSE [call[d] EXCEPT !.crossed = @ \/ call[d].at # "idle"]]
  BY <1>1 DEF Live!WithCall
<1>3. call'[c] = k
  BY <1>2
<1>4. \A d \in Live!Callers \ {c} :
        /\ call'[d] \in CallType /\ call'[d].at = call[d].at /\ call'[d].compare = call[d].compare
        /\ call'[d].previous = call[d].previous /\ call'[d].answer = call[d].answer
        /\ call'[d].crossed = (call[d].crossed \/ call[d].at # "idle")
  <2> SUFFICES ASSUME NEW d \in Live!Callers, d # c
               PROVE  /\ call'[d] \in CallType /\ call'[d].at = call[d].at
                      /\ call'[d].compare = call[d].compare /\ call'[d].previous = call[d].previous
                      /\ call'[d].answer = call[d].answer
                      /\ call'[d].crossed = (call[d].crossed \/ call[d].at # "idle")
    OBVIOUS
  <2>1. PICK r \in CallType : r = call[d]
    BY DEF MbType
  <2>2. PICK x \in BOOLEAN : x = (r.crossed \/ r.at # "idle")
    OBVIOUS
  <2>3. call'[d] = [r EXCEPT !.crossed = x]
    BY <1>2, <2>1, <2>2
  <2>4. /\ [r EXCEPT !.crossed = x] \in CallType /\ [r EXCEPT !.crossed = x].crossed = x
        /\ [r EXCEPT !.crossed = x].at = r.at /\ [r EXCEPT !.crossed = x].compare = r.compare
        /\ [r EXCEPT !.crossed = x].previous = r.previous /\ [r EXCEPT !.crossed = x].answer = r.answer
    BY DEF CallType
  <2> QED BY <2>1, <2>2, <2>3, <2>4
<1>5. call' \in [Live!Callers -> CallType]
  BY <1>2, <1>3, <1>4
<1>6. CallsApart'
  <2>1. \A d, e \in Live!Callers : d # e /\ call'[d].at # "idle" /\ call'[e].at # "idle" => call'[d].crossed
    <3> SUFFICES ASSUME NEW d \in Live!Callers, NEW e \in Live!Callers, d # e,
                        call'[d].at # "idle", call'[e].at # "idle"
                 PROVE  call'[d].crossed
      OBVIOUS
    <3>1. CASE d = c
      <4>1. call[e].at # "idle"
        BY <1>4, <3>1
      <4> QED BY <1>1, <1>3, <3>1, <4>1
    <3>2. CASE d # c
      BY <1>4, <3>2
    <3> QED BY <3>1, <3>2
  <2>2. \A d \in Live!Callers : call'[d].at # "idle" /\ ~call'[d].crossed => d = c
    BY <1>4
  <2>3. \A d \in Live!Callers : call'[d].compare => d = "loop" /\ handshakeRan'
    <3>1. k.compare => c = "loop" /\ handshakeRan'
      BY <1>1
    <3>2. \A d \in Live!Callers \ {c} : call'[d].compare => d = "loop" /\ handshakeRan'
      BY <1>4 DEF CallsApart
    <3> QED BY <1>3, <3>1, <3>2
  <2> QED BY <1>1, <1>3, <2>1, <2>2, <2>3 DEF CallsApart
<1> QED BY <1>1, <1>3, <1>4, <1>5, <1>6

\* A call ends.
LEMMA CallEnds ==
  ASSUME MbType, CallsApart, NEW c \in Live!Callers, call' = [call EXCEPT ![c] = Live!Idle],
         handshakeRan => handshakeRan',
         \A d \in Live!Callers \ {c} : call[d].at # "idle" /\ ~call[d].crossed =>
           UNCHANGED <<handshakeRan, actorGroups>>
  PROVE  /\ call' \in [Live!Callers -> CallType] /\ CallsApart' /\ call'[c].at = "idle"
         /\ \A d \in Live!Callers \ {c} : call'[d] = call[d]
<1>1. PICK k \in CallType : k = Live!Idle /\ k.at = "idle" /\ k.compare = FALSE
  <2>1. Live!Idle \in CallType /\ Live!Idle.at = "idle" /\ Live!Idle.compare = FALSE
    BY DEF CallType, Live!Idle, Stages
  <2> QED BY <2>1
<1>2. call'[c] = k /\ \A d \in Live!Callers \ {c} : call'[d] = call[d]
  BY <1>1 DEF MbType
<1>3. call' \in [Live!Callers -> CallType]
  BY <1>1 DEF MbType
<1> QED BY <1>1, <1>2, <1>3 DEF CallsApart

LEMMA AppliedIs ==
  ASSUME NEW s \in SubType, NEW kept \in SUBSET MbGroups
  PROVE  LET r == Live!ApplyLiveSubscription(s, kept)
         IN  /\ r \in SubType /\ (r.on => s.on /\ r.groups = kept /\ r.opened = s.opened)
             /\ ~s.on => r = s
             /\ r.on /\ r.groups = s.groups => r = s
             /\ r.on /\ r.groups # s.groups =>
                  r.phase = IF s.phase \in {"open", "handling"} THEN "waiting" ELSE s.phase
<1>1. Live!NoSub \in SubType /\ ~Live!NoSub.on
  BY DEF Live!NoSub, SubType, SubPhases
<1>2. CASE ~s.on \/ kept = s.groups
  BY <1>2 DEF Live!ApplyLiveSubscription
<1>3. CASE s.on /\ kept # s.groups /\ kept = {}
  BY <1>1, <1>3 DEF Live!ApplyLiveSubscription
<1>4. CASE s.on /\ kept # s.groups /\ kept # {}
  BY <1>4 DEF Live!ApplyLiveSubscription, SubType, SubPhases
<1> QED BY <1>2, <1>3, <1>4 DEF SubType

-----------------------------------------------------------------------------
(* The steps *)

LEMMA MovesKeep ==
  ASSUME MbInv, NEW g \in MbGroups, Live!MoveMember(g) \/ Live!MoveScope(g)
  PROVE  MbInv'
<1>1. /\ UNCHANGED <<scoped, actorGroups, inAppScope, handshakeRan, sub, mbScope, call, declined, extra>>
      /\ missed \subseteq missed' /\ member' \in SUBSET MbGroups /\ outside' \in SUBSET MbGroups
      /\ wake' \in BOOLEAN /\ (wake => wake') /\ (wake' => wake \/ Live!Streaming)
  BY DEF Live!MoveMember, Live!MoveScope, Live!SymDiff, MbInv, MbType, Live!Streaming, SubType
<1>2. \A f \in MbGroups : f # g => (f \in Live!Visible') = (f \in Live!Visible)
  BY DEF Live!MoveMember, Live!MoveScope, Live!SymDiff, Live!Visible, Live!IsInAppScope
<1>3. g \in missed' \/ (~Live!TooLate /\ wake' = (wake \/ Live!Streaming))
  BY DEF Live!MoveMember, Live!MoveScope
<1>4. MbType' /\ AdoptedOnce' /\ CallsApart' /\ StreamStands' /\ FollowsAdopted'
  BY <1>1 DEF MbInv, MbType, AdoptedOnce, CallsApart, StreamStands, FollowsAdopted, Live!Streaming
<1>5. NewsUnderWay'
  <2>1. ASSUME sub.on, handshakeRan, ~wake', sub.phase \notin {"waiting", "refresh", "handling"},
               NEW f \in MbGroups \ missed'
        PROVE  (f \in actorGroups) = (f \in Live!Visible')
    <3>1. sub.phase \in {"first", "ready", "open"}
      BY <2>1 DEF MbInv, MbType, SubType, SubPhases, StreamStands
    <3>2. Live!TooLate \/ Live!Streaming
      BY <2>1, <3>1 DEF Live!TooLate, Live!Streaming
    <3>3. ~(wake' = (wake \/ Live!Streaming)) \/ Live!TooLate
      BY <2>1, <3>2
    <3>4. f # g
      BY <1>3, <2>1, <3>3
    <3> QED BY <1>1, <1>2, <2>1, <3>4 DEF MbInv, NewsUnderWay
  <2>2. ASSUME sub.on, sub.phase = "refresh", call["loop"].at = "answered", NEW f \in MbGroups \ missed'
        PROVE  (f \in call["loop"].answer) = (f \in Live!Visible')
    <3>1. f # g
      BY <1>3, <2>2 DEF Live!TooLate
    <3> QED BY <1>1, <1>2, <2>2, <3>1 DEF MbInv, NewsUnderWay
  <2> QED BY <1>1, <2>1, <2>2 DEF NewsUnderWay
<1> QED BY <1>4, <1>5 DEF MbInv

LEMMA AnswerKeeps ==
  ASSUME MbInv, NEW c \in Live!Callers, NEW rejected \in SUBSET MbGroups, Live!Answer(c, rejected)
  PROVE  MbInv'
<1>1. /\ Live!Visible \in SUBSET MbGroups /\ Live!Visible \ rejected \in SUBSET MbGroups
      /\ \A g \in MbGroups : (g \in Live!Visible') = (g \in Live!Visible)
  <2>1. member \in SUBSET MbGroups
    BY DEF MbInv, MbType
  <2>2. UNCHANGED <<member, outside, scoped>>
    BY DEF Live!Answer
  <2> QED BY <2>1, <2>2 DEF Live!Visible, Live!IsInAppScope
<1>2. /\ call' \in [Live!Callers -> CallType] /\ call'[c].at = "answered" /\ call'[c].answer = Live!Visible
      /\ call'[c].compare = call[c].compare /\ call'[c].previous = call[c].previous
      /\ call'[c].crossed = call[c].crossed /\ call[c].at = "asked"
      /\ \A d \in Live!Callers \ {c} : call'[d] = call[d]
  <2>1. PICK r \in CallType : r = call[c]
    BY DEF MbInv, MbType
  <2>2. PICK v \in SUBSET MbGroups, w \in SUBSET MbGroups : v = Live!Visible /\ w = Live!Visible \ rejected
    BY <1>1
  <2>3. PICK q \in CallType : q = [r EXCEPT !.at = "answered", !.answer = v, !.valid = w]
    <3>1. [r EXCEPT !.at = "answered", !.answer = v, !.valid = w] \in CallType
      BY DEF CallType, Stages
    <3> QED BY <3>1
  <2>4. /\ q.at = "answered" /\ q.answer = v /\ q.compare = r.compare /\ q.previous = r.previous
        /\ q.crossed = r.crossed
    BY <2>3 DEF CallType
  <2>5. call' = [call EXCEPT ![c] = q]
    BY <2>1, <2>2, <2>3 DEF Live!Answer, MbInv, MbType
  <2>6. call'[c] = q /\ (\A d \in Live!Callers \ {c} : call'[d] = call[d]) /\ call' \in [Live!Callers -> CallType]
    BY <2>5 DEF MbInv, MbType
  <2> QED BY <2>1, <2>2, <2>4, <2>6 DEF Live!Answer
<1>3. UNCHANGED <<member, outside, scoped, actorGroups, inAppScope, handshakeRan, sub, mbScope, wake,
                  declined, extra, missed>>
  BY DEF Live!Answer
<1>4. CallsApart'
  BY <1>2, <1>3 DEF MbInv, CallsApart
<1>5. MbType' /\ AdoptedOnce' /\ StreamStands' /\ FollowsAdopted'
  <2>1. (call["loop"].at = "idle") = (call'["loop"].at = "idle")
    BY <1>2 DEF Live!Callers
  <2>2. MbType'
    BY <1>2, <1>3 DEF MbInv, MbType
  <2>3. StreamStands'
    BY <1>3, <2>1 DEF MbInv, StreamStands
  <2> QED BY <1>3, <2>2, <2>3 DEF MbInv, AdoptedOnce, FollowsAdopted
<1>6. NewsUnderWay'
  <2>1. ASSUME call'["loop"].at = "answered", c # "loop"
        PROVE  call["loop"] = call'["loop"]
    BY <1>2, <2>1 DEF Live!Callers
  <2>2. c = "loop" => \A g \in MbGroups : (g \in call'["loop"].answer) = (g \in Live!Visible')
    BY <1>1, <1>2
  <2> QED BY <1>1, <1>3, <2>1, <2>2 DEF MbInv, NewsUnderWay
<1> QED BY <1>4, <1>5, <1>6 DEF MbInv

LEMMA FailsKeeps ==
  ASSUME MbInv, NEW c \in Live!Callers, Live!HandshakeFails(c)
  PROVE  MbInv'
<1>1. /\ UNCHANGED <<member, outside, scoped, actorGroups, inAppScope, handshakeRan, mbScope, declined,
                    extra, missed>>
      /\ call' = [call EXCEPT ![c] = Live!Idle] /\ wake' \in BOOLEAN /\ (wake' => wake /\ c # "loop")
      /\ c # "loop" => sub' = sub /\ wake' = wake
  BY DEF Live!HandshakeFails, MbInv, MbType
<1>2. /\ call' \in [Live!Callers -> CallType] /\ CallsApart' /\ call'[c].at = "idle"
      /\ \A d \in Live!Callers \ {c} : call'[d] = call[d]
  BY <1>1, CallEnds DEF MbInv
<1>3. /\ sub' \in SubType /\ sub'.on = sub.on /\ sub'.groups = sub.groups /\ sub'.opened = sub.opened
      /\ sub'.phase = sub.phase \/ (sub.on /\ sub'.phase = "waiting")
      /\ c = "loop" /\ sub.on => sub'.phase = "waiting"
  BY DEF Live!HandshakeFails, MbInv, MbType, SubType, SubPhases
<1>4. c = "loop" \/ (c = "app" /\ call'["loop"] = call["loop"])
  BY <1>2 DEF Live!Callers
<1>5. Live!Visible' = Live!Visible
  BY <1>1 DEF Live!Visible, Live!IsInAppScope
<1>6. MbType' /\ AdoptedOnce'
  BY <1>1, <1>2, <1>3 DEF MbInv, MbType, AdoptedOnce
<1>7. StreamStands' /\ FollowsAdopted'
  BY <1>1, <1>3, <1>4 DEF MbInv, StreamStands, FollowsAdopted
<1>8. NewsUnderWay'
  BY <1>1, <1>3, <1>4, <1>5 DEF MbInv, NewsUnderWay
<1> QED BY <1>2, <1>6, <1>7, <1>8 DEF MbInv

\* The steps that begin a handshake.
LEMMA AsksKeep ==
  ASSUME MbInv, Live!AppHandshake \/ Live!Reconnect \/ Live!HandleGroupsChanged
  PROVE  MbInv'
<1>1. /\ UNCHANGED <<member, outside, scoped, actorGroups, inAppScope, handshakeRan, mbScope, declined,
                     extra, missed>>
      /\ "app" \in Live!Callers /\ "loop" \in Live!Callers
  BY DEF Live!AppHandshake, Live!Reconnect, Live!HandleGroupsChanged, Live!Callers
<1>2. Live!Visible' = Live!Visible
  BY <1>1 DEF Live!Visible, Live!IsInAppScope
<1>3. CASE Live!AppHandshake
  <2>1. call["app"].at = "idle" /\ call' = Live!WithCall("app", Live!Asked(FALSE)) /\ UNCHANGED <<sub, wake>>
    BY <1>3 DEF Live!AppHandshake
  <2>2. /\ call' \in [Live!Callers -> CallType] /\ CallsApart'
        /\ call'["loop"].at = call["loop"].at /\ call'["loop"].answer = call["loop"].answer
    BY <1>1, <2>1, CallBegins DEF MbInv
  <2>3. MbType' /\ AdoptedOnce' /\ StreamStands' /\ FollowsAdopted'
    BY <1>1, <2>1, <2>2 DEF MbInv, MbType, AdoptedOnce, StreamStands, FollowsAdopted
  <2> QED BY <1>1, <1>2, <2>1, <2>2, <2>3 DEF MbInv, NewsUnderWay
<1>4. CASE Live!HandleGroupsChanged
  <2>1. /\ sub.on /\ sub.phase = "open" /\ wake /\ wake' = FALSE
        /\ sub' = [sub EXCEPT !.phase = "handling"] /\ call' = Live!WithCall("loop", Live!Asked(TRUE))
    BY <1>4 DEF Live!HandleGroupsChanged
  <2>2. /\ sub' \in SubType /\ sub'.on /\ sub'.groups = sub.groups /\ sub'.opened = sub.opened
        /\ sub'.phase = "handling"
    BY <2>1 DEF MbInv, MbType, SubType, SubPhases
  <2>3. call["loop"].at = "idle"
    BY <2>1 DEF MbInv, StreamStands
  <2>4. call' \in [Live!Callers -> CallType] /\ CallsApart' /\ call'["loop"].at = "asked"
    BY <1>1, <2>1, <2>3, CallBegins DEF MbInv
  <2>5. MbType' /\ AdoptedOnce' /\ StreamStands' /\ FollowsAdopted'
    BY <1>1, <2>1, <2>2, <2>4 DEF MbInv, MbType, AdoptedOnce, StreamStands, FollowsAdopted
  <2> QED BY <1>1, <1>2, <2>2, <2>4, <2>5 DEF MbInv, NewsUnderWay
<1>5. CASE Live!Reconnect /\ handshakeRan
  <2>1. /\ sub.on /\ sub.phase = "waiting" /\ call["loop"].at = "idle" /\ wake' = wake
        /\ sub' = [sub EXCEPT !.phase = "refresh"] /\ call' = Live!WithCall("loop", Live!Asked(TRUE))
    BY <1>5 DEF Live!Reconnect
  <2>2. /\ sub' \in SubType /\ sub'.on /\ sub'.groups = sub.groups /\ sub'.opened = sub.opened
        /\ sub'.phase = "refresh" /\ ~wake
    BY <2>1 DEF MbInv, MbType, SubType, SubPhases, StreamStands
  <2>3. call' \in [Live!Callers -> CallType] /\ CallsApart' /\ call'["loop"].at = "asked"
    BY <1>1, <2>1, CallBegins DEF MbInv
  <2>4. MbType' /\ AdoptedOnce' /\ StreamStands' /\ FollowsAdopted'
    BY <1>1, <2>1, <2>2, <2>3 DEF MbInv, MbType, AdoptedOnce, StreamStands, FollowsAdopted
  <2> QED BY <1>1, <1>2, <2>2, <2>3, <2>4 DEF MbInv, NewsUnderWay
<1>6. CASE Live!Reconnect /\ ~handshakeRan
  <2>1. /\ sub.on /\ sub.phase = "waiting" /\ UNCHANGED <<wake, call>> /\ call["loop"].at = "idle"
        /\ sub' = [sub EXCEPT !.phase = "ready"]
    BY <1>6 DEF Live!Reconnect
  <2>2. /\ sub' \in SubType /\ sub'.on /\ sub'.groups = sub.groups /\ sub'.opened = sub.opened
        /\ sub'.phase = "ready" /\ ~wake
    BY <2>1 DEF MbInv, MbType, SubType, SubPhases, StreamStands
  <2>3. MbType' /\ AdoptedOnce' /\ StreamStands' /\ FollowsAdopted' /\ CallsApart'
    BY <1>1, <1>6, <2>1, <2>2 DEF MbInv, MbType, AdoptedOnce, StreamStands, FollowsAdopted, CallsApart
  <2> QED BY <1>1, <1>2, <1>6, <2>1, <2>2, <2>3 DEF MbInv, NewsUnderWay
<1> QED BY <1>3, <1>4, <1>5, <1>6

\* The steps of the stream.
LEMMA StreamsKeep ==
  ASSUME MbInv, Live!OpenStream \/ Live!StreamDrops
  PROVE  MbInv'
<1>1. UNCHANGED <<member, outside, scoped, actorGroups, inAppScope, handshakeRan, mbScope, declined,
                  call, extra, missed>>
  BY DEF Live!OpenStream, Live!StreamDrops
<1>2. Live!Visible' = Live!Visible
  BY <1>1 DEF Live!Visible, Live!IsInAppScope
<1>3. /\ sub.on /\ sub' \in SubType /\ sub'.on /\ sub'.groups = sub.groups
      /\ \/ /\ sub.phase \in {"first", "ready"} /\ sub'.phase = "open" /\ sub'.opened = sub.groups
            /\ wake' = wake
         \/ sub'.phase = "waiting" /\ wake' = FALSE
  BY DEF Live!OpenStream, Live!StreamDrops, MbInv, MbType, SubType, SubPhases
<1>4. MbType' /\ AdoptedOnce' /\ CallsApart'
  BY <1>1, <1>3 DEF MbInv, MbType, AdoptedOnce, CallsApart
<1>5. StreamStands' /\ FollowsAdopted'
  BY <1>1, <1>3 DEF MbInv, StreamStands, FollowsAdopted
<1>6. NewsUnderWay'
  BY <1>1, <1>2, <1>3 DEF MbInv, NewsUnderWay
<1> QED BY <1>4, <1>5, <1>6 DEF MbInv

LEMMA SubscribeKeeps ==
  ASSUME MbInv, NEW choice \in SUBSET MbGroups, Live!Subscribe(choice)
  PROVE  MbInv'
<1>1. /\ UNCHANGED <<member, outside, scoped, actorGroups, inAppScope, handshakeRan, wake, call>>
      /\ ~sub.on /\ call["loop"].at = "idle" /\ mbScope' = choice
      /\ sub' = [on |-> TRUE, groups |-> choice, phase |-> "first", opened |-> {}]
      /\ declined' = IF handshakeRan THEN actorGroups \ choice ELSE {}
      /\ extra' = IF handshakeRan THEN choice \ actorGroups ELSE choice
      /\ missed' = missed \cup Live!SymDiff(actorGroups, Live!Visible)
  BY DEF Live!Subscribe
<1>2. Live!Visible' = Live!Visible
  BY <1>1 DEF Live!Visible, Live!IsInAppScope
<1>3. sub' \in SubType /\ sub'.on /\ sub'.groups = choice /\ sub'.phase = "first" /\ ~wake
  BY <1>1 DEF SubType, SubPhases, MbInv, StreamStands
<1>4. MbType' /\ CallsApart'
  BY <1>1, <1>3 DEF MbInv, MbType, CallsApart
<1>5. AdoptedOnce'
  <2>1. declined' \subseteq actorGroups /\ extra' \cap actorGroups = {}
    BY <1>1 DEF MbInv, AdoptedOnce
  <2> QED BY <1>1, <2>1 DEF MbInv, AdoptedOnce
<1>6. StreamStands' /\ FollowsAdopted'
  BY <1>1, <1>3 DEF StreamStands, FollowsAdopted
<1>7. NewsUnderWay'
  BY <1>1, <1>2, <1>3 DEF NewsUnderWay, Live!SymDiff
<1> QED BY <1>4, <1>5, <1>6, <1>7 DEF MbInv

\* What the live subscription becomes when the answer of a call is adopted: the two
\* reconciliations, then the loop goes on.
Scoped(k) == Live!ReconcileSubscriptionScope(sub, k.answer)
Adopted(c, k) == Live!AfterRefresh(Live!ReconcileLiveMembership(Scoped(k), k), c)
Moves(r) == r.phase = IF sub.phase \in {"open", "handling"} THEN "waiting" ELSE sub.phase

LEMMA ScopedIs ==
  ASSUME MbInv, NEW k \in CallType
  PROVE  /\ Scoped(k) \in SubType /\ (Scoped(k).on => sub.on) /\ (~sub.on => Scoped(k) = sub)
         /\ Scoped(k).on =>
              /\ Scoped(k).groups = IF scoped THEN sub.groups \ (actorGroups \ k.answer) ELSE sub.groups
              /\ Scoped(k).opened = sub.opened
              /\ Scoped(k) = sub \/ (Scoped(k).groups # sub.groups /\ Moves(Scoped(k)))
<1>1. sub \in SubType /\ scoped \in BOOLEAN /\ actorGroups \in SUBSET MbGroups
      /\ (scoped => inAppScope = actorGroups)
  BY DEF MbInv, MbType, AdoptedOnce
<1>2. PICK kept \in SUBSET MbGroups : kept = sub.groups \ (actorGroups \ k.answer)
  BY <1>1 DEF SubType
<1>3. PICK r \in SubType : r = Live!ApplyLiveSubscription(sub, kept)
  BY <1>1, AppliedIs
<1>4. /\ (r.on => sub.on /\ r.groups = kept /\ r.opened = sub.opened) /\ (~sub.on => r = sub)
      /\ (r.on /\ r.groups = sub.groups => r = sub) /\ (r.on /\ r.groups # sub.groups => Moves(r))
  BY <1>1, <1>3, AppliedIs DEF Moves
<1>5. Scoped(k) = IF scoped THEN r ELSE sub
  BY <1>1, <1>2, <1>3 DEF Scoped, Live!ReconcileSubscriptionScope
<1>6. CASE scoped
  BY <1>2, <1>4, <1>5, <1>6
<1>7. CASE ~scoped
  BY <1>1, <1>5, <1>7
<1> QED BY <1>6, <1>7

LEMMA AdoptedIs ==
  ASSUME MbInv, NEW c \in Live!Callers, NEW k \in CallType, k.compare => c = "loop"
  PROVE  /\ Adopted(c, k) \in SubType /\ (Adopted(c, k).on => sub.on)
         /\ Adopted(c, k).on =>
              /\ Adopted(c, k).opened = sub.opened
              /\ Adopted(c, k).groups =
                   LET kept == IF scoped THEN sub.groups \ (actorGroups \ k.answer) ELSE sub.groups
                   IN  IF k.compare
                       THEN (kept \ (k.previous \ k.answer)) \cup (k.answer \ k.previous) ELSE kept
              /\ \/ Adopted(c, k).phase = "waiting"
                 \/ /\ sub.phase \in {"open", "handling"} => Adopted(c, k).groups = sub.groups
                    /\ Adopted(c, k).phase =
                         IF c = "loop" /\ sub.phase = "refresh" THEN "ready"
                         ELSE IF c = "loop" /\ sub.phase = "handling" THEN "open" ELSE sub.phase
<1> DEFINE kept == IF scoped THEN sub.groups \ (actorGroups \ k.answer) ELSE sub.groups
           next == (kept \ (k.previous \ k.answer)) \cup (k.answer \ k.previous)
<1>1. PICK r \in SubType : r = Scoped(k)
  BY ScopedIs
<1>2. /\ (r.on => sub.on) /\ (~sub.on => r = sub)
      /\ r.on => /\ r.groups = kept /\ r.opened = sub.opened
                 /\ r = sub \/ (r.groups # sub.groups /\ Moves(r))
  BY <1>1, ScopedIs
<1>3. PICK goal \in SUBSET MbGroups : r.on => goal = next
  BY <1>2 DEF SubType, CallType, MbInv, MbType
<1>4. PICK q \in SubType : q = IF k.compare THEN Live!ApplyLiveSubscription(r, goal) ELSE r
  BY AppliedIs
<1>5. /\ (q.on => r.on) /\ (~r.on => q = r)
      /\ q.on => /\ q.groups = IF k.compare THEN next ELSE kept
                 /\ q.opened = sub.opened
                 /\ q = r \/ (q.groups # r.groups /\ q.phase = IF r.phase \in {"open", "handling"} THEN "waiting" ELSE r.phase)
  <2>1. CASE k.compare
    <3>1. q = Live!ApplyLiveSubscription(r, goal)
      BY <1>4, <2>1
    <3>2. /\ (q.on => r.on /\ q.groups = goal /\ q.opened = r.opened) /\ (~r.on => q = r)
          /\ (q.on /\ q.groups = r.groups => q = r)
          /\ q.on /\ q.groups # r.groups =>
               q.phase = IF r.phase \in {"open", "handling"} THEN "waiting" ELSE r.phase
      BY <3>1, AppliedIs
    <3> QED BY <1>2, <1>3, <2>1, <3>2
  <2>2. CASE ~k.compare
    BY <1>2, <1>4, <2>2
  <2> QED BY <2>1, <2>2
<1>6. Live!ReconcileLiveMembership(Scoped(k), k) = q
  <2>1. CASE ~k.compare
    BY <1>1, <1>4, <2>1 DEF Live!ReconcileLiveMembership
  <2>2. CASE k.compare /\ r.on
    BY <1>1, <1>2, <1>3, <1>4, <2>2 DEF Live!ReconcileLiveMembership
  <2>3. CASE k.compare /\ ~r.on
    BY <1>1, <1>4, <1>5, <2>3 DEF Live!ReconcileLiveMembership, Live!ApplyLiveSubscription
  <2> QED BY <2>1, <2>2, <2>3
<1>7. PICK a \in SubType : a = Adopted(c, k)
  <2>1. Live!AfterRefresh(q, c) \in SubType
    BY DEF Live!AfterRefresh, SubType, SubPhases
  <2> QED BY <1>6, <2>1 DEF Adopted
<1>8. a = Live!AfterRefresh(q, c)
  BY <1>6, <1>7 DEF Adopted
<1>9. /\ a.on = q.on /\ a.groups = q.groups /\ a.opened = q.opened
      /\ a.on => a.phase = IF c = "loop" /\ q.phase = "refresh" THEN "ready"
                           ELSE IF c = "loop" /\ q.phase = "handling" THEN "open" ELSE q.phase
  BY <1>8 DEF Live!AfterRefresh, SubType
<1>10. a.on => q.phase = "waiting" \/ (q.phase = sub.phase /\ (sub.phase \in {"open", "handling"} => q.groups = sub.groups))
  BY <1>2, <1>5, <1>9 DEF Moves
<1> QED BY <1>2, <1>5, <1>7, <1>9, <1>10

LEMMA AdoptKeeps ==
  ASSUME MbInv, NEW c \in Live!Callers, Live!Adopt(c)
  PROVE  MbInv'
<1>1. PICK k \in CallType : k = call[c]
  BY DEF MbInv, MbType
<1>2. PICK s \in SubType : s = Adopted(c, k)
  BY <1>1, AdoptedIs DEF MbInv, CallsApart
<1>3. /\ k.at = "answered" /\ actorGroups' = k.answer /\ handshakeRan' = TRUE /\ sub' = s
      /\ inAppScope' = (IF scoped THEN k.answer ELSE inAppScope)
      /\ mbScope' = (IF sub.on /\ s.groups # sub.groups THEN s.groups ELSE mbScope)
      /\ wake' = (wake /\ s.on /\ s.phase \in {"open", "handling"})
      /\ call' = [call EXCEPT ![c] = Live!Idle]
      /\ declined' = (IF handshakeRan THEN declined \cap k.answer ELSE k.answer \ sub.groups)
      /\ extra' = (IF handshakeRan THEN extra \ k.answer ELSE sub.groups \ k.answer)
      /\ missed' = (missed \ Live!Shown(k)) \cup Live!Hidden(c, k)
                     \cup (IF wake \/ s.phase \in {"waiting", "refresh"} THEN {}
                           ELSE Live!SymDiff(k.answer, Live!Visible))
      /\ UNCHANGED <<member, outside, scoped>>
  BY <1>1, <1>2 DEF Live!Adopt, Adopted, Scoped
<1>4. /\ s.on => sub.on
      /\ s.on =>
           /\ s.opened = sub.opened
           /\ s.groups = LET kept == IF scoped THEN sub.groups \ (actorGroups \ k.answer) ELSE sub.groups
                         IN  IF k.compare
                             THEN (kept \ (k.previous \ k.answer)) \cup (k.answer \ k.previous) ELSE kept
           /\ \/ s.phase = "waiting"
              \/ /\ sub.phase \in {"open", "handling"} => s.groups = sub.groups
                 /\ s.phase = IF c = "loop" /\ sub.phase = "refresh" THEN "ready"
                              ELSE IF c = "loop" /\ sub.phase = "handling" THEN "open" ELSE sub.phase
  BY <1>1, <1>2, AdoptedIs DEF MbInv, CallsApart
<1>5. /\ k.compare => c = "loop" /\ handshakeRan
      /\ ~k.crossed /\ k.compare => k.previous = actorGroups
      /\ ~k.crossed /\ ~k.compare /\ handshakeRan => c = "app"
  BY <1>1, <1>3 DEF MbInv, CallsApart
<1>6. /\ call' \in [Live!Callers -> CallType] /\ CallsApart' /\ call'[c].at = "idle"
      /\ \A d \in Live!Callers \ {c} : call'[d] = call[d]
  <2>1. \A d \in Live!Callers \ {c} : call[d].at # "idle" => call[d].crossed
    BY <1>1, <1>3 DEF MbInv, CallsApart
  <2> QED BY <1>3, <2>1, CallEnds DEF MbInv
<1>7. Live!Visible' = Live!Visible
  BY <1>3 DEF Live!Visible, Live!IsInAppScope
<1>8. /\ declined \subseteq actorGroups /\ extra \cap actorGroups = {} /\ (~handshakeRan => actorGroups = {})
      /\ k.answer \in SUBSET MbGroups
  BY DEF MbInv, AdoptedOnce, CallType
<1>9. MbType'
  BY <1>3, <1>6, <1>8 DEF MbInv, MbType
<1>10. AdoptedOnce'
  BY <1>3, <1>8 DEF AdoptedOnce
<1>11. StreamStands'
  <2>1. c = "loop" \/ (c = "app" /\ call'["loop"] = call["loop"])
    BY <1>6 DEF Live!Callers
  <2>2. s.on => mbScope' = s.groups
    BY <1>3, <1>4 DEF MbInv, StreamStands
  <2>3. s.on /\ s.phase \in {"open", "handling"} => s.opened = s.groups
    BY <1>4 DEF MbInv, StreamStands
  <2> QED BY <1>3, <1>4, <1>6, <2>1, <2>2, <2>3 DEF MbInv, StreamStands
<1>12. FollowsAdopted'
  <2> SUFFICES ASSUME s.on, NEW g \in MbGroups, g \notin missed'
               PROVE  (g \in s.groups) = ((g \in k.answer /\ g \notin declined') \/ g \in extra')
    BY <1>3 DEF FollowsAdopted
  <2>1. g \notin Live!Hidden(c, k) /\ (g \notin missed \/ g \in Live!Shown(k))
    BY <1>3
  <2>2. g \notin missed /\ handshakeRan =>
          ((g \in sub.groups) = ((g \in actorGroups /\ g \notin declined) \/ g \in extra))
    BY <1>4 DEF MbInv, FollowsAdopted
  <2>3. CASE ~handshakeRan
    <3>1. s.groups = sub.groups
      BY <1>4, <1>5, <1>8, <2>3
    <3> QED BY <1>3, <2>3, <3>1
  <2>4. CASE handshakeRan /\ k.crossed
    <3>1. /\ (g \in actorGroups) = (g \in k.answer) /\ (g \in k.previous) = (g \in k.answer)
          /\ g \notin missed
      BY <2>1, <2>4 DEF Live!Hidden, Live!Shown, Live!SymDiff
    <3>2. (g \in s.groups) = (g \in sub.groups)
      BY <1>4, <3>1
    <3> QED BY <1>3, <1>8, <2>2, <2>4, <3>1, <3>2
  <2>5. CASE handshakeRan /\ ~k.crossed /\ k.compare
    <3>1. (g \in s.groups) = IF g \in k.answer THEN g \in sub.groups \/ g \notin actorGroups
                             ELSE g \in sub.groups /\ g \notin actorGroups
      BY <1>4, <1>5, <2>5
    <3>2. g \in Live!Shown(k) => (g \in k.answer) # (g \in actorGroups)
      BY <1>5, <2>5 DEF Live!Shown, Live!SymDiff
    <3>3. (g \in k.answer /\ g \in actorGroups) \/ (g \notin k.answer /\ g \notin actorGroups) => g \notin missed
      BY <2>1, <3>2
    <3> QED BY <1>3, <1>8, <2>2, <2>5, <3>1, <3>3
  <2>6. CASE handshakeRan /\ ~k.crossed /\ ~k.compare
    <3>1. /\ g \notin missed /\ c = "app"
          /\ (g \in actorGroups) = (g \in k.answer) \/ (scoped /\ g \in actorGroups /\ g \notin k.answer)
      BY <1>4, <1>5, <2>1, <2>6 DEF Live!Hidden, Live!Shown, Live!SymDiff
    <3>2. (g \in s.groups) = (g \in sub.groups /\ ~(scoped /\ g \in actorGroups /\ g \notin k.answer))
      BY <1>4, <2>6
    <3> QED BY <1>3, <1>8, <2>2, <2>6, <3>1, <3>2
  <2> QED BY <2>3, <2>4, <2>5, <2>6
<1>13. NewsUnderWay'
  <2>1. ASSUME s.on, ~wake', s.phase \notin {"waiting", "refresh", "handling"}, NEW g \in MbGroups, g \notin missed'
        PROVE  (g \in k.answer) = (g \in Live!Visible)
    <3>1. ~wake
      BY <1>3, <1>4, <2>1 DEF MbInv, StreamStands
    <3> QED BY <1>3, <2>1, <3>1 DEF Live!SymDiff
  <2>2. ASSUME s.on, s.phase = "refresh", call'["loop"].at = "answered", NEW g \in MbGroups, g \notin missed'
        PROVE  (g \in call'["loop"].answer) = (g \in Live!Visible)
    <3>1. c = "app" /\ call'["loop"] = call["loop"] /\ sub.phase = "refresh" /\ sub.on
      BY <1>4, <1>6, <2>2 DEF Live!Callers
    <3>2. g \notin missed
      BY <1>3, <1>5, <2>2, <3>1 DEF Live!Shown
    <3> QED BY <2>2, <3>1, <3>2 DEF MbInv, NewsUnderWay
  <2> QED BY <1>3, <1>7, <2>1, <2>2 DEF NewsUnderWay
<1> QED BY <1>6, <1>9, <1>10, <1>11, <1>12, <1>13 DEF MbInv

-----------------------------------------------------------------------------
(* The invariant *)

LEMMA MembershipStarts == Live!MbInit => MbInv
<1> SUFFICES ASSUME Live!MbInit PROVE MbInv
  OBVIOUS
<1>1. PICK k \in CallType : k = Live!Idle /\ k.at = "idle" /\ ~k.compare
  <2>1. Live!Idle \in CallType /\ Live!Idle.at = "idle" /\ ~Live!Idle.compare
    BY DEF CallType, Live!Idle, Stages
  <2> QED BY <2>1
<1>2. Live!NoSub \in SubType /\ ~Live!NoSub.on
  BY DEF Live!NoSub, SubType, SubPhases
<1>3. \A c \in Live!Callers : call[c] = k
  BY <1>1 DEF Live!MbInit
<1>4. MbType
  BY <1>1, <1>2 DEF Live!MbInit, MbType
<1> QED BY <1>1, <1>2, <1>3, <1>4
        DEF Live!MbInit, MbInv, AdoptedOnce, CallsApart, StreamStands, FollowsAdopted, NewsUnderWay

LEMMA MembershipStep == MbInv /\ [Live!MbNext]_Live!mbVars => MbInv'
<1> SUFFICES ASSUME MbInv, [Live!MbNext]_Live!mbVars PROVE MbInv'
  OBVIOUS
<1>1. CASE UNCHANGED Live!mbVars
  BY <1>1 DEF Live!mbVars, MbInv, MbType, AdoptedOnce, CallsApart, StreamStands, FollowsAdopted, NewsUnderWay,
              Live!Visible, Live!IsInAppScope
<1>2. ASSUME NEW c \in Live!Callers, Live!Adopt(c) \/ Live!HandshakeFails(c) \/ \E r \in SUBSET MbGroups : Live!Answer(c, r)
      PROVE  MbInv'
  BY <1>2, AdoptKeeps, FailsKeeps, AnswerKeeps
<1>3. ASSUME NEW choice \in SUBSET MbGroups \ {{}}, Live!Subscribe(choice)
      PROVE  MbInv'
  BY <1>3, SubscribeKeeps
<1> QED BY <1>1, <1>2, <1>3, MovesKeep, AsksKeep, StreamsKeep DEF Live!MbNext

LEMMA MembershipClaims == MbInv => Live!SubscriptionFollows
<1> SUFFICES ASSUME MbInv, Live!Quiet PROVE Live!SubscriptionFollows
  BY DEF Live!SubscriptionFollows
<1>1. sub.on /\ sub.phase = "open" /\ ~wake /\ handshakeRan
  BY DEF Live!Quiet
<1>2. sub.opened = sub.groups /\ mbScope = sub.groups
  BY <1>1 DEF MbInv, StreamStands
<1>3. ASSUME NEW g \in MbGroups \ missed PROVE (g \in sub.groups) = (g \in Live!Followed)
  <2>1. (g \in actorGroups) = (g \in Live!Visible)
    BY <1>1 DEF MbInv, NewsUnderWay
  <2> QED BY <1>1, <2>1 DEF MbInv, FollowsAdopted, Live!Followed
<1> QED BY <1>2, <1>3 DEF Live!SubscriptionFollows

\* client.ts, handshake, refreshMembership and reconcileLiveMembership: however many groups
\* there are and however often they change, a subscription that has settled is the actor's
\* memberships.
THEOREM SubscriptionIsFollowed == SumSpec => []SubscriptionIsMembership
<1> DEFINE Inv == part = "membership" => MbInv
<1>1. SumInit => Inv
  BY MembershipStarts DEF SumInit
<1>2. Inv /\ [SumNext]_allVars => Inv'
  <2> SUFFICES ASSUME Inv, [SumNext]_allVars, part' = "membership" PROVE MbInv'
    OBVIOUS
  <2>1. part = "membership"
    BY DEF SumNext, allVars
  <2>2. [Live!MbNext]_(Live!mbVars)
    BY <2>1 DEF SumNext, allVars, membershipVars, Live!mbVars
  <2> QED BY <2>1, <2>2, MembershipStep
<1>3. Inv => SubscriptionIsMembership
  BY MembershipClaims DEF SubscriptionIsMembership
<1> QED BY <1>1, <1>2, <1>3, PTL DEF SumSpec
===============================================================================

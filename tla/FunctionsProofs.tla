--------------------------- MODULE FunctionsProofs ---------------------------
(***************************************************************************)
(* A runner answers each invocation once, to the caller it belongs to and  *)
(* truthfully, and its guardrails hold from one invocation to the next,    *)
(* for any number of invocations, calls, retries, requests and log lines.  *)
(* A deploy watcher at rest serves every file as it is and has mapped it,  *)
(* and rollbacks walk back, for any files, contents, edits and commands.   *)
(***************************************************************************)
EXTENDS MCFunctions, WellFoundedInduction, TLAPS

-----------------------------------------------------------------------------
(* Frames in a queue *)

LEMMA NoFrames == FramesIn(<<>>) = {} /\ \A t, T : FollowedBy(<<>>, t, T)
BY DEF FramesIn, FollowedBy

LEMMA FramesTail ==
  ASSUME NEW S, NEW s \in Seq(S), s # <<>>
  PROVE  /\ Tail(s) \in Seq(S) /\ Head(s) \in S
         /\ FramesIn(s) = {Head(s)} \union FramesIn(Tail(s))
         /\ \A t, T : FollowedBy(s, t, T) =>
              /\ FollowedBy(Tail(s), t, T)
              /\ Head(s).type = t => \A x \in FramesIn(Tail(s)) : x.type \in T
<1>1. /\ Tail(s) \in Seq(S) /\ Head(s) \in S /\ Head(s) = s[1]
      /\ DOMAIN Tail(s) = 1..(Len(s) - 1) /\ Len(s) \in Nat \ {0} /\ DOMAIN s = 1..Len(s)
      /\ \A p \in 1..(Len(s) - 1) : Tail(s)[p] = s[p + 1]
  OBVIOUS
<1>2. \A p \in DOMAIN Tail(s) : p + 1 \in DOMAIN s /\ p + 1 > 1 /\ Tail(s)[p] = s[p + 1]
  BY <1>1
<1>3. \A p \in DOMAIN s : p = 1 \/ (p - 1 \in DOMAIN Tail(s) /\ s[p] = Tail(s)[p - 1])
  BY <1>1
<1>4. FramesIn(s) = {Head(s)} \union FramesIn(Tail(s))
  <2>1. 1 \in DOMAIN s
    BY <1>1
  <2>2. ASSUME NEW p \in DOMAIN s PROVE s[p] \in {Head(s)} \union FramesIn(Tail(s))
    BY <1>1, <1>3, Zenon DEF FramesIn
  <2>3. Head(s) \in FramesIn(s)
    BY <1>1, <2>1 DEF FramesIn
  <2>4. ASSUME NEW p \in DOMAIN Tail(s) PROVE Tail(s)[p] \in FramesIn(s)
    BY <1>2, Zenon DEF FramesIn
  <2>5. FramesIn(s) \subseteq {Head(s)} \union FramesIn(Tail(s))
    BY <2>2 DEF FramesIn
  <2>6. FramesIn(Tail(s)) \subseteq FramesIn(s)
    BY <2>4 DEF FramesIn
  <2> QED BY <2>3, <2>5, <2>6
<1>5. ASSUME NEW t, NEW T, FollowedBy(s, t, T)
      PROVE  /\ FollowedBy(Tail(s), t, T)
             /\ Head(s).type = t => \A x \in FramesIn(Tail(s)) : x.type \in T
  <2>1. FollowedBy(Tail(s), t, T)
    <3> SUFFICES ASSUME NEW p \in DOMAIN Tail(s), NEW q \in DOMAIN Tail(s),
                        Tail(s)[p].type = t, p < q
                 PROVE  Tail(s)[q].type \in T
      BY DEF FollowedBy
    <3>1. p + 1 < q + 1
      BY <1>1
    <3> QED BY <1>2, <1>5, <3>1 DEF FollowedBy
  <2>2. ASSUME Head(s).type = t, NEW p \in DOMAIN Tail(s) PROVE Tail(s)[p].type \in T
    <3>1. 1 \in DOMAIN s /\ p + 1 \in DOMAIN s /\ 1 < p + 1
      BY <1>1, <1>2
    <3> QED BY <1>1, <1>2, <1>5, <2>2, <3>1 DEF FollowedBy
  <2> QED BY <2>1, <2>2 DEF FramesIn
<1> QED BY <1>1, <1>4, <1>5

LEMMA FramesAppend ==
  ASSUME NEW S, NEW s \in Seq(S), NEW x \in S
  PROVE  /\ Append(s, x) \in Seq(S) /\ s \o <<x>> = Append(s, x) /\ s \o <<>> = s
         /\ FramesIn(Append(s, x)) = FramesIn(s) \union {x}
         /\ \A t, T : FollowedBy(s, t, T) /\ (x.type \in T \/ \A y \in FramesIn(s) : y.type # t) =>
              FollowedBy(Append(s, x), t, T)
<1>1. /\ Append(s, x) \in Seq(S) /\ s \o <<x>> = Append(s, x) /\ s \o <<>> = s
      /\ Len(s) \in Nat /\ DOMAIN s = 1..Len(s) /\ DOMAIN Append(s, x) = 1..(Len(s) + 1)
      /\ Append(s, x)[Len(s) + 1] = x
      /\ \A p \in 1..Len(s) : Append(s, x)[p] = s[p]
  OBVIOUS
<1>2. \A p \in DOMAIN Append(s, x) : p \in DOMAIN s \/ p = Len(s) + 1
  BY <1>1
<1>3. DOMAIN s \subseteq DOMAIN Append(s, x) /\ Len(s) + 1 \in DOMAIN Append(s, x)
  BY <1>1
<1>4. FramesIn(Append(s, x)) = FramesIn(s) \union {x}
  BY <1>1, <1>2, <1>3, Zenon DEF FramesIn
<1>5. ASSUME NEW t, NEW T, FollowedBy(s, t, T), x.type \in T \/ \A y \in FramesIn(s) : y.type # t
      PROVE  FollowedBy(Append(s, x), t, T)
  <2> SUFFICES ASSUME NEW p \in DOMAIN Append(s, x), NEW q \in DOMAIN Append(s, x),
                      Append(s, x)[p].type = t, p < q
               PROVE  Append(s, x)[q].type \in T
    BY DEF FollowedBy
  <2>1. p \in DOMAIN s
    BY <1>1
  <2>2. s[p].type = t /\ s[p] \in FramesIn(s)
    BY <1>1, <2>1 DEF FramesIn
  <2>3. CASE q \in DOMAIN s
    BY <1>1, <1>5, <2>1, <2>2, <2>3 DEF FollowedBy
  <2>4. CASE q = Len(s) + 1
    BY <1>1, <1>5, <2>2, <2>4
  <2> QED BY <1>2, <2>3, <2>4
<1> QED BY <1>1, <1>4, <1>5

-----------------------------------------------------------------------------
(* The host's steps *)

LEMMA SessionStarts == Init => SessionInv
<1> SUFFICES ASSUME Init PROVE SessionInv
  OBVIOUS
<1> USE DEF Init, FreshRun, IdleLoop
<1>1. FsTypeOK
  <2>1. run \in RunType
    BY DEF RunType
  <2>2. loop \in LoopType
    BY DEF LoopType
  <2>3. toRunner \in Seq(HostFrame) /\ toHost \in Seq(RunnerFrame)
    <3>1. <<>> \in Seq(RunnerFrame) /\ <<>> \in Seq(HostFrame)
      OBVIOUS
    <3> QED BY <3>1
  <2>4. outcome \in [Invocations -> {None, "ok", "error"}] /\ durable \in [Invocations -> 0..1]
    OBVIOUS
  <2>5. retries \in Nat /\ bad \in Nat /\ results \in 0..1
    OBVIOUS
  <2>6. wrote \in SUBSET Invocations /\ loose \in SUBSET Invocations /\ foreign \in BOOLEAN
    OBVIOUS
  <2> HIDE DEF Init, FreshRun, IdleLoop
  <2> QED BY <2>1, <2>2, <2>3, <2>4, <2>5, <2>6 DEF FsTypeOK
<1>2. FramesIn(toRunner) = {} /\ FramesIn(toHost) = {} /\ FramesIn(loop.queue) = {}
      /\ (\A t, T : FollowedBy(toRunner, t, T)) /\ (\A t, T : FollowedBy(toHost, t, T))
  BY NoFrames
<1>3. OneAtATime /\ InvokeFindsRunnerFree /\ ResultIsLast /\ CallsAreTheLoops
  BY <1>2 DEF OneAtATime, HostQuiet, InvokeFindsRunnerFree, ResultIsLast, CallsAreTheLoops
<1>4. RepliesAreTrue /\ WritesAreHeld /\ RepliesStayHome /\ NeverFatal /\ OkMeansCommitted
  BY <1>2 DEF RepliesAreTrue, WritesAreHeld, RepliesStayHome, NeverFatal, OkMeansCommitted, None
<1> QED BY <1>1, <1>3, <1>4 DEF SessionInv

LEMMA SessionStutters == SessionInv /\ UNCHANGED fsVars => SessionInv'
BY DEF SessionInv, fsVars, FsTypeOK, OneAtATime, HostQuiet, InvokeFindsRunnerFree, ResultIsLast,
       CallsAreTheLoops, IsCall, RepliesAreTrue, WritesAreHeld, RepliesStayHome, NeverFatal,
       OkMeansCommitted

LEMMA HostGarblesKeeps ==
  ASSUME SessionInv, NEW type \in {"unknown", "garbled"}, HostGarbles(type)
  PROVE  SessionInv'
<1> DEFINE f == Frame(type, 0, None, TRUE, None)
<1>1. f \in HostFrame /\ f.type = type
  BY DEF Frame, FrameOf, HostFrame
<1>2. /\ toRunner' = Append(toRunner, f) /\ bad' = bad + 1
      /\ UNCHANGED <<run, toHost, loop, outcome, durable, retries, results, wrote, loose, foreign>>
  BY DEF HostGarbles
<1> HIDE DEF f
<1>3. toRunner \in Seq(HostFrame)
  BY DEF SessionInv, FsTypeOK
<1>4. toRunner' \in Seq(HostFrame) /\ FramesIn(toRunner') = FramesIn(toRunner) \union {f}
      /\ FollowedBy(toRunner', "invoke", {"unknown", "garbled"})
  BY <1>1, <1>2, <1>3, FramesAppend DEF SessionInv, InvokeFindsRunnerFree
<1>5. FsTypeOK'
  BY <1>2, <1>4 DEF SessionInv, FsTypeOK
<1>6. OneAtATime' /\ ResultIsLast' /\ CallsAreTheLoops' /\ WritesAreHeld' /\ RepliesStayHome'
      /\ OkMeansCommitted'
  BY <1>2 DEF SessionInv, OneAtATime, HostQuiet, ResultIsLast, CallsAreTheLoops, IsCall,
              WritesAreHeld, RepliesStayHome, OkMeansCommitted
<1>7. InvokeFindsRunnerFree' /\ RepliesAreTrue'
  <2>1. bad' > 0
    BY <1>2 DEF SessionInv, FsTypeOK
  <2> QED BY <1>1, <1>2, <1>4, <2>1
             DEF SessionInv, InvokeFindsRunnerFree, RepliesAreTrue, HostQuiet, IsCall
<1>8. NeverFatal'
  BY <1>2 DEF SessionInv, NeverFatal, FsTypeOK
<1> QED BY <1>5, <1>6, <1>7, <1>8 DEF SessionInv

LEMMA OpenedKeeps ==
  ASSUME SessionInv, Opened
  PROVE  SessionInv'
<1> DEFINE f == Frame("ready", 0, None, TRUE, None)
<1>1. f \in RunnerFrame /\ f.type = "ready"
  BY DEF Frame, FrameOf, RunnerFrame
<1>2. /\ toHost' = toHost \o <<f>> /\ run' = [run EXCEPT !.ready = TRUE]
      /\ UNCHANGED <<toRunner, loop, outcome, durable, retries, bad, results, wrote, loose, foreign>>
  BY DEF Opened, Sent
<1> HIDE DEF f
<1>3. toHost \in Seq(RunnerFrame)
  BY DEF SessionInv, FsTypeOK
<1>4. toHost' \in Seq(RunnerFrame) /\ FramesIn(toHost') = FramesIn(toHost) \union {f}
      /\ FollowedBy(toHost', "result", {"ready"})
  <2>1. FollowedBy(toHost, "result", {"ready"})
    BY DEF SessionInv, ResultIsLast
  <2>2. toHost' = Append(toHost, f) /\ f.type \in {"ready"}
    BY <1>1, <1>2, <1>3, FramesAppend
  <2> QED BY <1>1, <1>3, <2>1, <2>2, FramesAppend
<1>5. /\ run'.current = run.current /\ run'.fatal = run.fatal /\ run'.settled = run.settled
      /\ run'.phase = run.phase /\ run'.pending = run.pending /\ run'.calls = run.calls
      /\ run'.buffered = run.buffered /\ run'.sealed = run.sealed
  BY <1>2 DEF SessionInv, FsTypeOK, RunType
<1>6. FsTypeOK'
  BY <1>2, <1>4 DEF SessionInv, FsTypeOK, RunType
<1>7. OneAtATime' /\ ResultIsLast' /\ CallsAreTheLoops' /\ (HostQuiet' <=> HostQuiet)
  BY <1>1, <1>2, <1>4, <1>5 DEF SessionInv, OneAtATime, HostQuiet, ResultIsLast, CallsAreTheLoops, IsCall
<1>8. InvokeFindsRunnerFree' /\ RepliesAreTrue'
  BY <1>2, <1>5, <1>7 DEF SessionInv, InvokeFindsRunnerFree, RepliesAreTrue, IsCall
<1>9. WritesAreHeld' /\ RepliesStayHome' /\ NeverFatal' /\ OkMeansCommitted'
  BY <1>2, <1>5 DEF SessionInv, WritesAreHeld, RepliesStayHome, NeverFatal, OkMeansCommitted
<1> QED BY <1>6, <1>7, <1>8, <1>9 DEF SessionInv

\* What the end of an invocation leaves behind, as the host sees it.
LEMMA FinishKeeps ==
  ASSUME SessionInv, loop.inv # None, NEW ok \in BOOLEAN, Finish(ok),
         ok => toHost # <<>> /\ Head(toHost).type = "result" /\ Head(toHost).ok,
         UNCHANGED <<durable, retries, bad, results, wrote, loose, foreign>>
  PROVE  SessionInv'
<1>1. /\ outcome' = [outcome EXCEPT ![loop.inv] = IF ok THEN "ok" ELSE "error"] /\ loop' = IdleLoop
      /\ loop.inv \in Invocations /\ toHost \in Seq(RunnerFrame)
  BY DEF Finish, SessionInv, FsTypeOK, LoopType
<1>2. /\ \A i \in Invocations \ {loop.inv} : outcome'[i] = outcome[i]
      /\ outcome'[loop.inv] = IF ok THEN "ok" ELSE "error"
      /\ outcome' \in [Invocations -> {None, "ok", "error"}]
  BY <1>1 DEF SessionInv, FsTypeOK
<1>3. FramesIn(loop'.queue) = {} /\ loop'.inFlight = {} /\ loop'.queue = <<>> /\ loop'.inv = None
  BY <1>1, NoFrames DEF IdleLoop
<1>4. loop' \in LoopType
  BY <1>1 DEF IdleLoop, LoopType
<1>5. CASE ~ok
  <2>1. run' = FreshRun /\ toRunner' = <<>> /\ toHost' = <<>>
    BY <1>5 DEF Finish
  <2>2. FramesIn(toRunner') = {} /\ FramesIn(toHost') = {}
        /\ (\A t, T : FollowedBy(toRunner', t, T)) /\ (\A t, T : FollowedBy(toHost', t, T))
    BY <2>1, NoFrames
  <2>3. FsTypeOK'
    BY <1>2, <1>4, <2>1 DEF FreshRun, SessionInv, FsTypeOK, RunType
  <2>4. OneAtATime' /\ InvokeFindsRunnerFree' /\ ResultIsLast' /\ CallsAreTheLoops'
    BY <1>3, <2>1, <2>2 DEF FreshRun, OneAtATime, HostQuiet, InvokeFindsRunnerFree, ResultIsLast, CallsAreTheLoops
  <2>5. RepliesAreTrue' /\ WritesAreHeld' /\ RepliesStayHome' /\ NeverFatal'
    BY <1>3, <2>1, <2>2 DEF FreshRun, RepliesAreTrue, WritesAreHeld, RepliesStayHome, NeverFatal, SessionInv
  <2>6. OkMeansCommitted'
    BY <1>2, <1>5 DEF SessionInv, OkMeansCommitted
  <2> QED BY <2>3, <2>4, <2>5, <2>6 DEF SessionInv
<1>6. CASE ok
  <2>1. run' = run /\ toRunner' = toRunner /\ toHost' = Tail(toHost)
    BY <1>6 DEF Finish
  <2>2. /\ toHost' \in Seq(RunnerFrame) /\ Head(toHost) \in FramesIn(toHost)
        /\ \A x \in FramesIn(toHost') : x.type = "ready"
        /\ FollowedBy(toHost', "result", {"ready"})
    BY <1>1, <1>6, <2>1, FramesTail DEF SessionInv, ResultIsLast
  <2>3. run.current = None /\ (loop.inv \in wrote \ loose => durable[loop.inv] = 1)
    BY <1>6, <2>2 DEF SessionInv, ResultIsLast
  <2>4. \A x \in FramesIn(toRunner) : x.type # "invoke"
    BY <1>6, <2>2 DEF SessionInv, InvokeFindsRunnerFree, HostQuiet
  <2>5. FsTypeOK'
    BY <1>2, <1>4, <2>1, <2>2 DEF SessionInv, FsTypeOK
  <2>6. OneAtATime' /\ InvokeFindsRunnerFree' /\ ResultIsLast' /\ CallsAreTheLoops'
    BY <1>3, <2>1, <2>2, <2>3, <2>4 DEF SessionInv, OneAtATime, HostQuiet, InvokeFindsRunnerFree,
                                       ResultIsLast, CallsAreTheLoops
  <2>7. RepliesAreTrue' /\ WritesAreHeld' /\ RepliesStayHome' /\ NeverFatal'
    BY <1>3, <2>1, <2>3 DEF RepliesAreTrue, WritesAreHeld, RepliesStayHome, NeverFatal, SessionInv, IsCall
  <2>8. OkMeansCommitted'
    BY <1>2, <2>3 DEF SessionInv, OkMeansCommitted
  <2> QED BY <2>5, <2>6, <2>7, <2>8 DEF SessionInv
<1> QED BY <1>5, <1>6

LEMMA HostInvokesKeeps ==
  ASSUME SessionInv, NEW i \in Invocations, HostInvokes(i)
  PROVE  SessionInv'
<1> DEFINE f == Frame("invoke", 0, None, TRUE, i)
<1>1. f \in HostFrame /\ f.type = "invoke" /\ f.inv = i
  BY DEF Frame, FrameOf, HostFrame
<1>2. /\ loop.inv = None /\ toRunner' = Append(toRunner, f)
      /\ loop' = [loop EXCEPT !.inv = i] /\ outcome' = [outcome EXCEPT ![i] = None]
      /\ results' = 0 /\ wrote' = wrote \ {i} /\ loose' = loose \ {i}
      /\ UNCHANGED <<run, toHost, durable, bad, foreign>>
      /\ retries' \in {retries, retries + 1}
  BY DEF HostInvokes
<1> HIDE DEF f
<1>3. i # None /\ toRunner \in Seq(HostFrame)
  BY LimitsAssumption DEF SessionInv, FsTypeOK
<1>4. HostQuiet /\ run.current = None /\ \A x \in FramesIn(toRunner) : x.type # "invoke"
  <2>1. HostQuiet
    BY <1>2 DEF SessionInv, OneAtATime
  <2>2. run.current = None
    BY <1>2 DEF SessionInv, OneAtATime
  <2> QED BY <1>2, <2>1, <2>2 DEF SessionInv, InvokeFindsRunnerFree
<1>5. toRunner' \in Seq(HostFrame) /\ FramesIn(toRunner') = FramesIn(toRunner) \union {f}
      /\ FollowedBy(toRunner', "invoke", {"unknown", "garbled"})
  <2>1. FollowedBy(toRunner, "invoke", {"unknown", "garbled"})
    BY DEF SessionInv, InvokeFindsRunnerFree
  <2> QED BY <1>1, <1>2, <1>3, <1>4, <2>1, FramesAppend
<1>6. loop'.inv = i /\ loop'.inFlight = {} /\ loop'.queue = <<>> /\ HostQuiet'
  BY <1>2, <1>4 DEF HostQuiet, SessionInv, FsTypeOK, LoopType
<1>7. outcome'[i] = None /\ \A j \in Invocations \ {i} : outcome'[j] = outcome[j]
  BY <1>2 DEF SessionInv, FsTypeOK
<1>8. FsTypeOK'
  <2>1. /\ loop' \in LoopType
        /\ outcome' \in [Invocations -> {None, "ok", "error"}]
    BY <1>2 DEF SessionInv, FsTypeOK, LoopType
  <2>2. retries' \in Nat /\ wrote' \in SUBSET Invocations /\ loose' \in SUBSET Invocations
    BY <1>2 DEF SessionInv, FsTypeOK
  <2> QED BY <1>2, <1>5, <2>1, <2>2 DEF SessionInv, FsTypeOK
<1>9. OneAtATime' /\ InvokeFindsRunnerFree'
  BY <1>1, <1>2, <1>3, <1>4, <1>5, <1>6, <1>7 DEF SessionInv, OneAtATime, InvokeFindsRunnerFree
<1>10. ResultIsLast' /\ CallsAreTheLoops'
  BY <1>2, <1>4, <1>6, NoFrames DEF SessionInv, ResultIsLast, CallsAreTheLoops, HostQuiet
<1>11. RepliesAreTrue' /\ WritesAreHeld' /\ RepliesStayHome' /\ NeverFatal'
  BY <1>1, <1>2, <1>4, <1>5, <1>6 DEF SessionInv, RepliesAreTrue, WritesAreHeld, RepliesStayHome, NeverFatal, IsCall
<1>12. OkMeansCommitted'
  BY <1>2, <1>7, LimitsAssumption DEF SessionInv, OkMeansCommitted, None
<1> QED BY <1>8, <1>9, <1>10, <1>11, <1>12 DEF SessionInv

LEMMA HostCommitsKeeps ==
  ASSUME SessionInv, NEW c \in loop.inFlight, HostCommits(c)
  PROVE  SessionInv'
<1> DEFINE d == [c EXCEPT !.done = TRUE]
<1>1. /\ loop.inFlight \in SUBSET HostCallType /\ c \in HostCallType /\ loop.inv # None
      /\ loop.inv \in Invocations /\ durable[loop.inv] \in 0..1
  <2>1. loop.inFlight \in SUBSET HostCallType /\ loop.inv \in Invocations \union {None}
    BY DEF SessionInv, FsTypeOK, LoopType
  <2>2. loop.inv # None
    BY DEF SessionInv, OneAtATime, HostQuiet
  <2> QED BY <2>1, <2>2 DEF SessionInv, FsTypeOK
<1>2. d \in HostCallType /\ d.id = c.id /\ d.op = c.op /\ d.inv = c.inv /\ d.done
  BY <1>1 DEF HostCallType
<1>3. /\ loop' = [loop EXCEPT !.inFlight = (@ \ {c}) \union {d}]
      /\ durable' = [durable EXCEPT ![loop.inv] = @ + (IF CommitApplies(loop.inv) THEN 1 ELSE 0)]
      /\ UNCHANGED <<run, toRunner, toHost, outcome, retries, bad, results, wrote, loose, foreign>>
  BY DEF HostCommits
<1> HIDE DEF d
<1>4. durable'[loop.inv] = 1 /\ (\A i \in Invocations \ {loop.inv} : durable'[i] = durable[i])
      /\ durable' \in [Invocations -> 0..1]
  BY <1>1, <1>3 DEF CommitApplies, SessionInv, FsTypeOK
<1>5. loop'.inv = loop.inv /\ loop'.queue = loop.queue
      /\ loop'.inFlight = (loop.inFlight \ {c}) \union {d} /\ loop' \in LoopType
  BY <1>1, <1>2, <1>3 DEF SessionInv, FsTypeOK, LoopType
<1>6. FsTypeOK'
  BY <1>3, <1>4, <1>5 DEF SessionInv, FsTypeOK
<1>7. OneAtATime' /\ InvokeFindsRunnerFree' /\ ResultIsLast'
  BY <1>1, <1>3, <1>4, <1>5 DEF SessionInv, OneAtATime, HostQuiet, InvokeFindsRunnerFree, ResultIsLast
<1>8. CallsAreTheLoops'
  BY <1>2, <1>3, <1>5 DEF SessionInv, CallsAreTheLoops, IsCall
<1>9. RepliesAreTrue'
  <2>1. \A i \in Invocations : durable[i] = 1 => durable'[i] = 1
    BY <1>4
  <2> QED BY <1>3, <1>4, <1>5, <2>1 DEF SessionInv, RepliesAreTrue, IsCall
<1>10. WritesAreHeld' /\ RepliesStayHome' /\ NeverFatal' /\ OkMeansCommitted'
  BY <1>1, <1>3, <1>4 DEF SessionInv, WritesAreHeld, RepliesStayHome, NeverFatal, OkMeansCommitted,
                          OneAtATime
<1> QED BY <1>6, <1>7, <1>8, <1>9, <1>10 DEF SessionInv

\* A queued call moves to the calls in flight, and nothing else becomes one.
LEMMA FilledIs ==
  ASSUME NEW l \in LoopType
  PROVE  /\ Filled(l) \in LoopType /\ Filled(l).inv = l.inv
         /\ \A x \in FramesIn(Filled(l).queue) : x \in FramesIn(l.queue)
         /\ \A x \in Filled(l).inFlight :
              \/ x \in l.inFlight
              \/ ~x.done /\ \E y \in FramesIn(l.queue) : x.id = y.id /\ x.op = y.op /\ x.inv = y.inv
<1>1. l.queue \in Seq(RunnerFrame) /\ l.inFlight \in SUBSET HostCallType
  BY DEF LoopType
<1>2. CASE Cardinality(l.inFlight) < MaxInFlight /\ l.queue # <<>>
  <2> DEFINE y == Head(l.queue)
             x == [id |-> y.id, op |-> y.op, inv |-> y.inv, done |-> FALSE]
  <2>1. y \in RunnerFrame /\ Tail(l.queue) \in Seq(RunnerFrame)
        /\ FramesIn(l.queue) = {y} \union FramesIn(Tail(l.queue))
    BY <1>1, <1>2, FramesTail
  <2>2. x \in HostCallType /\ x.id = y.id /\ x.op = y.op /\ x.inv = y.inv /\ ~x.done
    BY <2>1 DEF HostCallType, FrameOf, RunnerFrame
  <2>3. Filled(l) = [[l EXCEPT !.queue = Tail(@)] EXCEPT !.inFlight = @ \union {x}]
    BY <1>2 DEF Filled, Started
  <2> HIDE DEF x, y
  <2> DEFINE q == Tail(l.queue)
             s == l.inFlight \union {x}
  <2>5. q \in Seq(RunnerFrame) /\ s \in SUBSET HostCallType
    BY <1>1, <2>1, <2>2
  <2>6. Filled(l) = [[l EXCEPT !.queue = q] EXCEPT !.inFlight = s]
    BY <2>3 DEF LoopType
  <2> HIDE DEF q, s
  <2>7. Filled(l) \in LoopType /\ Filled(l).inv = l.inv /\ Filled(l).queue = q /\ Filled(l).inFlight = s
    BY <2>5, <2>6 DEF LoopType
  <2>4. /\ Filled(l) \in LoopType /\ Filled(l).inv = l.inv /\ Filled(l).queue = Tail(l.queue)
        /\ Filled(l).inFlight = l.inFlight \union {x}
    BY <2>7 DEF q, s
  <2> QED BY <2>1, <2>2, <2>4
<1>3. CASE ~(Cardinality(l.inFlight) < MaxInFlight /\ l.queue # <<>>)
  BY <1>3 DEF Filled
<1> QED BY <1>2, <1>3

LEMMA HostRepliesKeeps ==
  ASSUME SessionInv, NEW c \in loop.inFlight, HostReplies(c)
  PROVE  SessionInv'
<1> DEFINE f == Frame("reply", c.id, c.op, TRUE, c.inv)
           l == [loop EXCEPT !.inFlight = @ \ {c}]
<1>1. /\ loop.inFlight \in SUBSET HostCallType /\ c \in HostCallType
      /\ c.inv = loop.inv /\ IsCall(c) /\ (c.op = "commit" => durable[loop.inv] = 1)
      /\ loop.inv \in Invocations
  <2>1. loop.inFlight \in SUBSET HostCallType /\ loop.inv \in Invocations \union {None}
    BY DEF SessionInv, FsTypeOK, LoopType
  <2>2. loop.inv # None
    BY DEF SessionInv, OneAtATime, HostQuiet
  <2>3. c.inv = loop.inv /\ IsCall(c)
    BY DEF SessionInv, CallsAreTheLoops
  <2>4. c.op = "commit" => durable[loop.inv] = 1
    BY DEF HostReplies, SessionInv, RepliesAreTrue
  <2> QED BY <2>1, <2>2, <2>3, <2>4
<1>2. f \in HostFrame /\ f.type = "reply" /\ f.id = c.id /\ f.op = c.op /\ f.ok /\ f.inv = c.inv
  BY <1>1 DEF Frame, FrameOf, HostFrame, HostCallType
<1>3. /\ toRunner' = Append(toRunner, f) /\ loop' = Filled(l)
      /\ UNCHANGED <<run, toHost, outcome, durable, retries, bad, results, wrote, loose, foreign>>
  BY DEF HostReplies
<1>4. l \in LoopType /\ l.inv = loop.inv /\ l.queue = loop.queue /\ l.inFlight = loop.inFlight \ {c}
  BY DEF SessionInv, FsTypeOK, LoopType
<1> HIDE DEF f, l
<1>5. toRunner \in Seq(HostFrame) /\ \A x \in FramesIn(toRunner) : x.type # "invoke"
  BY DEF SessionInv, FsTypeOK, InvokeFindsRunnerFree, HostQuiet
<1>6. toRunner' \in Seq(HostFrame) /\ FramesIn(toRunner') = FramesIn(toRunner) \union {f}
      /\ FollowedBy(toRunner', "invoke", {"unknown", "garbled"})
  <2>1. FollowedBy(toRunner, "invoke", {"unknown", "garbled"})
    BY DEF SessionInv, InvokeFindsRunnerFree
  <2> QED BY <1>2, <1>3, <1>5, <2>1, FramesAppend
<1>7. /\ loop' \in LoopType /\ loop'.inv = loop.inv
      /\ \A x \in FramesIn(loop'.queue) : x \in FramesIn(loop.queue)
      /\ \A x \in loop'.inFlight :
           \/ x \in loop.inFlight
           \/ ~x.done /\ \E y \in FramesIn(loop.queue) : x.id = y.id /\ x.op = y.op /\ x.inv = y.inv
  BY <1>3, <1>4, FilledIs
<1>8. FsTypeOK'
  BY <1>3, <1>6, <1>7 DEF SessionInv, FsTypeOK
<1>9. OneAtATime' /\ InvokeFindsRunnerFree' /\ ResultIsLast'
  BY <1>1, <1>2, <1>3, <1>5, <1>6, <1>7, LimitsAssumption
     DEF SessionInv, OneAtATime, InvokeFindsRunnerFree, ResultIsLast
<1>10. CallsAreTheLoops'
  <2>1. ASSUME NEW x, x \in FramesIn(toHost) /\ x.type = "call" PROVE x.inv = loop.inv /\ IsCall(x)
    BY <2>1 DEF SessionInv, CallsAreTheLoops
  <2>2. ASSUME NEW x \in FramesIn(loop.queue) PROVE x.inv = loop.inv /\ IsCall(x)
    BY DEF SessionInv, CallsAreTheLoops
  <2>3. ASSUME NEW x \in loop.inFlight PROVE x.inv = loop.inv /\ IsCall(x)
    BY DEF SessionInv, CallsAreTheLoops
  <2>4. ASSUME NEW x \in loop'.inFlight PROVE x.inv = loop.inv /\ IsCall(x)
    BY <1>7, <2>2, <2>3 DEF IsCall
  <2>5. \A x : IsCall(x)' <=> IsCall(x)
    BY <1>3 DEF IsCall
  <2>6. \A p \in run'.pending : p.id <= run'.calls
    BY <1>3 DEF SessionInv, CallsAreTheLoops
  <2> QED BY <1>3, <1>7, <2>1, <2>2, <2>4, <2>5, <2>6 DEF CallsAreTheLoops
<1>11. RepliesAreTrue'
  <2>1. \A x : IsCall(x)' <=> IsCall(x)
    BY <1>3 DEF IsCall
  <2>2. IsCall(f)
    BY <1>1, <1>2 DEF IsCall
  <2>3. run.current # None => f.inv = run.current
    BY <1>1, <1>2 DEF SessionInv, OneAtATime
  <2> QED BY <1>1, <1>2, <1>3, <1>6, <1>7, <2>1, <2>2, <2>3 DEF SessionInv, RepliesAreTrue
<1>12. WritesAreHeld' /\ RepliesStayHome' /\ NeverFatal' /\ OkMeansCommitted'
  BY <1>3 DEF SessionInv, WritesAreHeld, RepliesStayHome, NeverFatal, OkMeansCommitted
<1> QED BY <1>8, <1>9, <1>10, <1>11, <1>12 DEF SessionInv

LEMMA DeadlineKeeps ==
  ASSUME SessionInv, Deadline \/ \E c \in loop.inFlight : HostCallFails(c)
  PROVE  SessionInv'
<1>1. loop.inv # None
  BY DEF Deadline, SessionInv, OneAtATime, HostQuiet
<1> QED BY <1>1, FinishKeeps DEF Deadline, HostCallFails

LEMMA HostReadsKeeps ==
  ASSUME SessionInv, HostReads
  PROVE  SessionInv'
<1> DEFINE f == Head(toHost)
<1>1. toHost \in Seq(RunnerFrame) /\ toHost # <<>> /\ loop.inv # None /\ loop \in LoopType
      /\ UNCHANGED <<durable, retries, bad, results, wrote, loose, foreign>>
  BY DEF HostReads, SessionInv, FsTypeOK
<1>2. /\ Tail(toHost) \in Seq(RunnerFrame) /\ f \in RunnerFrame
      /\ FramesIn(toHost) = {f} \union FramesIn(Tail(toHost))
      /\ FollowedBy(Tail(toHost), "result", {"ready"})
  <2>1. FollowedBy(toHost, "result", {"ready"})
    BY DEF SessionInv, ResultIsLast
  <2> QED BY <1>1, <2>1, FramesTail
<1>3. f.type = "ready" \/ f.type = "call" \/ f.type = "result"
  BY <1>2 DEF FrameOf, RunnerFrame
<1>4. loop.calls \in Nat /\ MaxHostCalls \in Nat /\ toHost # <<>>
      /\ CASE f.type = "ready" ->
                /\ toHost' = Tail(toHost)
                /\ UNCHANGED <<run, toRunner, loop, outcome>>
           [] f.type = "call" /\ loop.calls >= MaxHostCalls -> Finish(FALSE)
           [] f.type = "call" /\ loop.calls < MaxHostCalls ->
                /\ toHost' = Tail(toHost)
                /\ loop' = Dispatched(f)
                /\ UNCHANGED <<run, toRunner, outcome>>
           [] f.type = "result" -> Finish(f.ok)
  BY <1>1, LimitsAssumption DEF HostReads, LoopType
<1> HIDE DEF f
<1>5. CASE f.type = "ready"
  <2>1. toHost' = Tail(toHost) /\ UNCHANGED <<run, toRunner, loop, outcome>>
    BY <1>5, <1>4
  <2>2. FsTypeOK'
    BY <1>1, <1>2, <2>1 DEF SessionInv, FsTypeOK
  <2>3. HostQuiet' <=> HostQuiet
    BY <1>2, <1>5, <2>1 DEF HostQuiet
  <2>4. OneAtATime' /\ InvokeFindsRunnerFree' /\ ResultIsLast'
    BY <1>1, <1>2, <2>1, <2>3 DEF SessionInv, OneAtATime, InvokeFindsRunnerFree, ResultIsLast
  <2>5. CallsAreTheLoops'
    BY <1>2, <2>1 DEF SessionInv, CallsAreTheLoops, IsCall
  <2>6. RepliesAreTrue' /\ WritesAreHeld' /\ RepliesStayHome' /\ NeverFatal' /\ OkMeansCommitted'
    BY <1>1, <2>1 DEF SessionInv, RepliesAreTrue, WritesAreHeld, RepliesStayHome, NeverFatal,
                      OkMeansCommitted, IsCall
  <2> QED BY <2>2, <2>4, <2>5, <2>6 DEF SessionInv
<1>6. CASE f.type = "call" /\ loop.calls < MaxHostCalls
  <2> DEFINE x == [id |-> f.id, op |-> f.op, inv |-> f.inv, done |-> FALSE]
  <2>1. toHost' = Tail(toHost) /\ loop' = Dispatched(f) /\ UNCHANGED <<run, toRunner, outcome>>
    BY <1>6, <1>4
  <2>2. x \in HostCallType /\ x.id = f.id /\ x.op = f.op /\ x.inv = f.inv /\ ~x.done
    BY <1>2 DEF HostCallType, FrameOf, RunnerFrame
  <2>3. loop' = LET l == [loop EXCEPT !.calls = @ + 1]
                IN  IF Cardinality(l.inFlight) < MaxInFlight THEN [l EXCEPT !.inFlight = @ \union {x}]
                    ELSE [l EXCEPT !.queue = Append(@, f)]
    BY <2>1 DEF Dispatched, Started
  <2> HIDE DEF x
  <2>4. loop.queue \in Seq(RunnerFrame) /\ Append(loop.queue, f) \in Seq(RunnerFrame)
        /\ FramesIn(Append(loop.queue, f)) = FramesIn(loop.queue) \union {f}
    <3>1. loop.queue \in Seq(RunnerFrame)
      BY <1>1 DEF LoopType
    <3> QED BY <1>2, <3>1, FramesAppend
  <2>5. /\ loop' \in LoopType /\ loop'.inv = loop.inv
        /\ \/ loop'.inFlight = loop.inFlight \union {x} /\ loop'.queue = loop.queue
           \/ loop'.inFlight = loop.inFlight /\ loop'.queue = Append(loop.queue, f)
    <3> DEFINE l == [loop EXCEPT !.calls = @ + 1]
    <3>1. l \in LoopType /\ l.inv = loop.inv /\ l.inFlight = loop.inFlight /\ l.queue = loop.queue
      BY <1>1 DEF LoopType
    <3>2. \/ loop' = [l EXCEPT !.inFlight = @ \union {x}]
          \/ loop' = [l EXCEPT !.queue = Append(@, f)]
      BY <2>3
    <3> HIDE DEF l
    <3> QED BY <2>2, <2>4, <3>1, <3>2 DEF LoopType
  <2>6. f \in FramesIn(toHost) /\ f.inv = loop.inv /\ IsCall(f)
    BY <1>2, <1>6 DEF SessionInv, CallsAreTheLoops
  <2>7. IsCall(x) /\ x.inv = loop.inv
    BY <2>2, <2>6 DEF IsCall
  <2>8. FsTypeOK'
    BY <1>1, <1>2, <2>1, <2>5 DEF SessionInv, FsTypeOK
  <2>9. \A y \in FramesIn(toRunner) : y.type # "invoke"
    BY <1>6, <2>6 DEF SessionInv, InvokeFindsRunnerFree, HostQuiet
  <2>10. OneAtATime' /\ InvokeFindsRunnerFree' /\ ResultIsLast'
    BY <1>1, <1>2, <2>1, <2>5, <2>9 DEF SessionInv, OneAtATime, InvokeFindsRunnerFree, ResultIsLast
  <2>11. \A y : IsCall(y)' <=> IsCall(y)
    BY <2>1 DEF IsCall
  <2>12. CallsAreTheLoops'
    <3>1. ASSUME NEW y, y \in FramesIn(toHost) /\ y.type = "call" PROVE y.inv = loop.inv /\ IsCall(y)
      BY <3>1 DEF SessionInv, CallsAreTheLoops
    <3>2. ASSUME NEW y \in FramesIn(loop.queue) \union {f} PROVE y.inv = loop.inv /\ IsCall(y)
      BY <2>6 DEF SessionInv, CallsAreTheLoops
    <3>3. ASSUME NEW y \in loop.inFlight \union {x} PROVE y.inv = loop.inv /\ IsCall(y)
      BY <2>7 DEF SessionInv, CallsAreTheLoops
    <3>4. \A c \in run'.pending : c.id <= run'.calls
      BY <2>1 DEF SessionInv, CallsAreTheLoops
    <3> QED BY <1>2, <2>1, <2>4, <2>5, <2>11, <3>1, <3>2, <3>3, <3>4 DEF CallsAreTheLoops
  <2>13. RepliesAreTrue'
    BY <1>1, <2>1, <2>2, <2>5, <2>11 DEF SessionInv, RepliesAreTrue
  <2>14. WritesAreHeld' /\ RepliesStayHome' /\ NeverFatal' /\ OkMeansCommitted'
    BY <1>1, <2>1 DEF SessionInv, WritesAreHeld, RepliesStayHome, NeverFatal, OkMeansCommitted
  <2> QED BY <2>8, <2>10, <2>12, <2>13, <2>14 DEF SessionInv
<1>7. CASE f.type = "call" /\ loop.calls >= MaxHostCalls
  <2>1. Finish(FALSE)
    <3>1. f.type = "call" /\ f.type # "ready" /\ f.type # "result" /\ ~(loop.calls < MaxHostCalls)
      BY <1>4, <1>7
    <3> QED BY <1>7, <1>4, <3>1, Zenon
  <2> QED BY <1>1, <2>1, FinishKeeps
<1>8. CASE f.type = "result"
  <2>1. f.ok \in BOOLEAN
    BY <1>2 DEF FrameOf, RunnerFrame
  <2>2. Finish(f.ok)
    BY <1>8, <1>4
  <2>3. Head(toHost).type = "result" /\ (f.ok => Head(toHost).ok)
    BY <1>8 DEF f
  <2> QED BY <1>1, <2>1, <2>2, <2>3, FinishKeeps
<1>9. loop.calls < MaxHostCalls \/ loop.calls >= MaxHostCalls
  BY <1>4
<1> QED BY <1>3, <1>5, <1>6, <1>7, <1>8, <1>9

-----------------------------------------------------------------------------
(* The runner's steps *)

\* What is sent is appended, unless the session has halted.
LEMMA SentIs ==
  ASSUME SessionInv, NEW f \in RunnerFrame, NEW frames \in {<<>>, <<f>>}, Sent(frames)
  PROVE  /\ toHost' \in Seq(RunnerFrame)
         /\ \/ toHost' = toHost
            \/ ~run.fatal /\ frames = <<f>> /\ toHost' = Append(toHost, f)
               /\ FramesIn(toHost') = FramesIn(toHost) \union {f}
<1>1. toHost \in Seq(RunnerFrame)
  BY DEF SessionInv, FsTypeOK
<1>2. toHost \o <<>> = toHost /\ toHost \o <<f>> = Append(toHost, f)
      /\ Append(toHost, f) \in Seq(RunnerFrame)
      /\ FramesIn(Append(toHost, f)) = FramesIn(toHost) \union {f}
  BY <1>1, FramesAppend
<1> QED BY <1>1, <1>2 DEF Sent, Halted

\* An invocation settles when it ends: its result follows all it sent.
LEMMA SettleKeeps ==
  ASSUME SessionInv, run.current # None, NEW ok \in BOOLEAN, Settle(ok),
         ok /\ run.current \in wrote \ loose' => durable[run.current] = 1,
         toRunner' \in Seq(HostFrame), FramesIn(toRunner') \subseteq FramesIn(toRunner),
         FollowedBy(toRunner', "invoke", {"unknown", "garbled"}),
         loose' \in SUBSET Invocations, loose \ {run.current} \subseteq loose', foreign' \in BOOLEAN, ~foreign',
         UNCHANGED <<loop, outcome, durable, retries, bad, wrote>>
  PROVE  SessionInv'
<1> DEFINE f == Frame("result", 0, None, ok, run.current)
<1>1. /\ run \in RunType /\ loop.inv = run.current /\ outcome[loop.inv] = None
      /\ (~run.fatal => ~run.settled /\ results = 0) /\ results \in 0..1
      /\ toHost \in Seq(RunnerFrame)
  BY DEF SessionInv, FsTypeOK, OneAtATime
<1>2. f \in RunnerFrame /\ f.type = "result" /\ f.ok = ok
  BY <1>1 DEF Frame, FrameOf, RunnerFrame, RunType
<1>3. Sent(IF ~run.fatal THEN <<f>> ELSE <<>>) /\ results' = results + (IF ~run.fatal THEN 1 ELSE 0)
      /\ run' = [run EXCEPT !.current = None, !.settled = TRUE, !.phase = "idle", !.pending = {}]
  BY <1>1 DEF Settle, MayWriteResult, Halted
<1> HIDE DEF f
<1>4. /\ toHost' \in Seq(RunnerFrame)
      /\ \/ toHost' = toHost
         \/ ~run.fatal /\ toHost' = Append(toHost, f) /\ FramesIn(toHost') = FramesIn(toHost) \union {f}
  BY <1>2, <1>3, SentIs
<1>5. /\ run'.current = None /\ run'.phase = "idle" /\ run'.pending = {} /\ run'.fatal = run.fatal
      /\ run'.calls = run.calls /\ run' \in RunType
  BY <1>1, <1>3 DEF RunType
<1>6. ~run.fatal => \A x \in FramesIn(toHost) : x.type # "result"
  BY DEF SessionInv, ResultIsLast
<1>7. \A x \in FramesIn(toRunner') : x.type # "invoke"
  BY DEF SessionInv, InvokeFindsRunnerFree
<1>8. FollowedBy(toHost', "result", {"ready"})
  <2>1. FollowedBy(toHost, "result", {"ready"})
    BY DEF SessionInv, ResultIsLast
  <2>2. CASE ~run.fatal /\ toHost' = Append(toHost, f)
    BY <1>1, <1>2, <1>6, <2>1, <2>2, FramesAppend
  <2> QED BY <1>4, <2>1, <2>2
<1>9. FsTypeOK'
  <2>1. results' \in 0..1
    BY <1>1, <1>3
  <2> QED BY <1>4, <1>5, <2>1 DEF SessionInv, FsTypeOK
<1>10. OneAtATime' /\ InvokeFindsRunnerFree'
  BY <1>1, <1>5, <1>7 DEF OneAtATime, InvokeFindsRunnerFree
<1>11. ResultIsLast'
  <2>1. \A x \in FramesIn(toHost) : x.type = "result" => ~x.ok
    BY DEF SessionInv, ResultIsLast
  <2> QED BY <1>1, <1>2, <1>4, <1>5, <1>8, <2>1 DEF ResultIsLast
<1>12. CallsAreTheLoops'
  <2>1. \A x : IsCall(x) => IsCall(x)'
    BY <1>5 DEF IsCall
  <2>2. \A c \in run'.pending : c.id <= run'.calls
    BY <1>5
  <2> QED BY <1>2, <1>4, <2>1, <2>2 DEF SessionInv, CallsAreTheLoops
<1>13. RepliesAreTrue' /\ WritesAreHeld' /\ RepliesStayHome' /\ NeverFatal'
  BY <1>5 DEF SessionInv, RepliesAreTrue, WritesAreHeld, RepliesStayHome, NeverFatal
<1>14. OkMeansCommitted'
  BY <1>1 DEF SessionInv, OkMeansCommitted, None
<1> QED BY <1>9, <1>10, <1>11, <1>12, <1>13, <1>14 DEF SessionInv

LEMMA HandlingIs ==
  ASSUME SessionInv, Handling
  PROVE  /\ run \in RunType /\ run.current # None /\ run.current \in Invocations
         /\ loop.inv = run.current /\ outcome[run.current] = None
         /\ \A x \in FramesIn(toRunner) : x.type # "invoke"
         /\ \A x \in FramesIn(toHost) : x.type = "result" => run.fatal /\ ~x.ok
<1>1. run \in RunType /\ run.current # None
  BY DEF SessionInv, FsTypeOK, OneAtATime, Handling
<1>2. run.current \in Invocations
  BY <1>1 DEF RunType
<1> QED BY <1>1, <1>2 DEF SessionInv, OneAtATime, InvokeFindsRunnerFree, ResultIsLast

LEMMA HandlerWritesKeeps ==
  ASSUME SessionInv, HandlerWrites
  PROVE  SessionInv'
<1>1. /\ run \in RunType /\ run.current # None /\ run.current \in Invocations
      /\ loop.inv = run.current /\ outcome[run.current] = None
      /\ \A x \in FramesIn(toRunner) : x.type # "invoke"
      /\ \A x \in FramesIn(toHost) : x.type = "result" => run.fatal /\ ~x.ok
  BY HandlingIs DEF HandlerWrites
<1>2. /\ run' = [run EXCEPT !.buffered = TRUE] /\ wrote' = wrote \union {run.current} /\ ~run.sealed
      /\ UNCHANGED <<toRunner, toHost, loop, outcome, durable, retries, bad, results, loose, foreign>>
  BY DEF HandlerWrites, Same
<1>3. /\ run' \in RunType /\ run'.current = run.current /\ run'.fatal = run.fatal
      /\ run'.settled = run.settled /\ run'.phase = run.phase /\ run'.pending = run.pending
      /\ run'.calls = run.calls /\ run'.sealed = run.sealed /\ run'.buffered
  BY <1>1, <1>2 DEF RunType
<1>4. FsTypeOK'
  BY <1>1, <1>2, <1>3 DEF SessionInv, FsTypeOK
<1>5. OneAtATime' /\ InvokeFindsRunnerFree' /\ ResultIsLast'
  BY <1>1, <1>2, <1>3 DEF SessionInv, OneAtATime, HostQuiet, InvokeFindsRunnerFree, ResultIsLast
<1>6. \A x : IsCall(x)' <=> IsCall(x)
  BY <1>3 DEF IsCall
<1>7. CallsAreTheLoops' /\ RepliesAreTrue'
  BY <1>2, <1>3, <1>6 DEF SessionInv, CallsAreTheLoops, RepliesAreTrue
<1>8. WritesAreHeld' /\ RepliesStayHome' /\ NeverFatal'
  BY <1>2, <1>3 DEF SessionInv, WritesAreHeld, RepliesStayHome, NeverFatal
<1>9. OkMeansCommitted'
  BY <1>1, <1>2 DEF SessionInv, OkMeansCommitted, None
<1> QED BY <1>4, <1>5, <1>7, <1>8, <1>9 DEF SessionInv

LEMMA CalledIs ==
  ASSUME run \in RunType, NEW op, NEW last \in BOOLEAN, NEW large \in BOOLEAN
  PROVE  LET r == Called(op, last, large)
         IN  /\ r \in RunType /\ r.current = run.current /\ r.fatal = run.fatal
             /\ r.settled = run.settled /\ r.phase = run.phase
             /\ r.buffered = run.buffered /\ r.sealed = run.sealed
             /\ \/ r.calls \in {run.calls, run.calls + 1} /\ r.pending = run.pending
                   /\ CallFrames(op, large) = <<>>
                \/ r.calls = run.calls + 1
                   /\ r.pending = run.pending \union {[id |-> run.calls + 1, last |-> last]}
<1>1. run.calls \in Nat /\ [id |-> run.calls + 1, last |-> last] \in [id : Nat, last : BOOLEAN]
  BY DEF RunType
<1>2. CASE CallRefused(large)
  <2>1. PICK n \in {run.calls, run.calls + 1} : Called(op, last, large) = [run EXCEPT !.calls = n]
    BY <1>2 DEF Called
  <2> QED BY <1>1, <1>2, <2>1 DEF RunType, CallFrames
<1>3. CASE ~CallRefused(large)
  <2>1. Called(op, last, large) = [run EXCEPT !.calls = run.calls + 1,
                     !.pending = run.pending \union {[id |-> run.calls + 1, last |-> last]}]
    BY <1>3 DEF Called
  <2>2. run.pending \union {[id |-> run.calls + 1, last |-> last]} \in SUBSET [id : Nat, last : BOOLEAN]
        /\ run.calls + 1 \in Nat
    BY <1>1 DEF RunType
  <2> DEFINE p == run.pending \union {[id |-> run.calls + 1, last |-> last]}
             n == run.calls + 1
  <2>3. p \in SUBSET [id : Nat, last : BOOLEAN] /\ n \in Nat
        /\ Called(op, last, large) = [run EXCEPT !.calls = n, !.pending = p]
    BY <2>1, <2>2
  <2> HIDE DEF p, n
  <2>4. /\ [run EXCEPT !.calls = n, !.pending = p] \in RunType
        /\ \A r : r = [run EXCEPT !.calls = n, !.pending = p] =>
             /\ r.current = run.current /\ r.fatal = run.fatal /\ r.settled = run.settled
             /\ r.phase = run.phase /\ r.buffered = run.buffered /\ r.sealed = run.sealed
             /\ r.calls = n /\ r.pending = p
    BY <2>3 DEF RunType
  <2> QED BY <2>3, <2>4 DEF p, n
<1> QED BY <1>2, <1>3

\* A call to the host takes the next id; refused, it leaves nothing pending.
LEMMA CallsKeep ==
  ASSUME SessionInv, Handling, NEW op \in {"get", "commit"}, NEW last \in BOOLEAN,
         NEW large \in BOOLEAN, last => op = "commit", Sent(CallFrames(op, large)),
         run' \in RunType, run'.calls = Called(op, last, large).calls,
         run'.pending = Called(op, last, large).pending, run'.current = run.current,
         run'.fatal = run.fatal, run'.settled = run.settled,
         UNCHANGED <<toRunner, loop, outcome, durable, retries, bad, foreign, results, wrote>>,
         loose' \in SUBSET Invocations, loose \subseteq loose'
  PROVE  /\ FsTypeOK' /\ OneAtATime' /\ InvokeFindsRunnerFree' /\ ResultIsLast' /\ CallsAreTheLoops'
         /\ RepliesAreTrue' /\ RepliesStayHome' /\ NeverFatal' /\ OkMeansCommitted'
<1>1. /\ run \in RunType /\ run.current # None /\ run.current \in Invocations
      /\ loop.inv = run.current /\ outcome[run.current] = None
      /\ (\A x \in FramesIn(toRunner) : x.type # "invoke")
      /\ \A x \in FramesIn(toHost) : x.type = "result" => run.fatal /\ ~x.ok
  BY HandlingIs
<1>2. run.calls \in Nat /\ run.pending \in SUBSET [id : Nat, last : BOOLEAN]
  BY <1>1 DEF RunType
<1>0. PICK f : f = Frame("call", run.calls + 1, op, TRUE, run.current)
  OBVIOUS
<1>3. f \in RunnerFrame /\ f.type = "call" /\ f.id = run.calls + 1 /\ f.op = op /\ f.inv = run.current
  BY <1>1, <1>2, <1>0 DEF Frame, FrameOf, RunnerFrame
<1>4. CallFrames(op, large) \in {<<>>, <<f>>}
  BY <1>0 DEF CallFrames
<1>5. \/ run'.calls \in {run.calls, run.calls + 1} /\ run'.pending = run.pending /\ CallFrames(op, large) = <<>>
      \/ run'.calls = run.calls + 1
         /\ run'.pending = run.pending \union {[id |-> run.calls + 1, last |-> last]}
  BY <1>1, CalledIs
<1>6. /\ toHost' \in Seq(RunnerFrame)
      /\ \/ toHost' = toHost
         \/ /\ ~run.fatal /\ CallFrames(op, large) = <<f>> /\ toHost' = Append(toHost, f)
            /\ FramesIn(toHost') = FramesIn(toHost) \union {f}
  BY <1>3, <1>4, SentIs
<1>7. FollowedBy(toHost', "result", {"ready"})
  <2>1. FollowedBy(toHost, "result", {"ready"}) /\ toHost \in Seq(RunnerFrame)
    BY DEF SessionInv, ResultIsLast, FsTypeOK
  <2>2. CASE ~run.fatal /\ toHost' = Append(toHost, f)
    BY <1>1, <1>3, <2>1, <2>2, FramesAppend
  <2> QED BY <1>6, <2>1, <2>2
<1>8. FsTypeOK'
  BY <1>6 DEF SessionInv, FsTypeOK
<1>9. OneAtATime' /\ InvokeFindsRunnerFree'
  BY <1>1 DEF SessionInv, OneAtATime, InvokeFindsRunnerFree
<1>10. ResultIsLast'
  BY <1>1, <1>3, <1>6, <1>7 DEF ResultIsLast
<1>11. ASSUME NEW x, x.id \in Nat, IsCall(x) PROVE IsCall(x)'
  <2>1. x.id <= run.calls /\ x.id # run.calls + 1 /\ x.id <= run'.calls
    BY <1>2, <1>5, <1>11 DEF IsCall
  <2>2. \A c \in run'.pending : c \in run.pending \/ c.id = run.calls + 1
    BY <1>5
  <2> QED BY <1>11, <2>1, <2>2 DEF IsCall
<1>12. \A c \in run.pending : c.id <= run.calls
  BY DEF SessionInv, CallsAreTheLoops
<1>13. ASSUME CallFrames(op, large) = <<f>> PROVE IsCall(f)'
  <2>1. /\ run'.calls = run.calls + 1
        /\ run'.pending = run.pending \union {[id |-> run.calls + 1, last |-> last]}
    BY <1>5, <1>13
  <2>2. ASSUME NEW c \in run'.pending, c.last, c.id = f.id PROVE f.op = "commit"
    <3>1. CASE c \in run.pending
      BY <1>2, <1>3, <1>12, <2>2, <3>1
    <3>2. CASE c = [id |-> run.calls + 1, last |-> last]
      BY <1>3, <2>2, <3>2
    <3> QED BY <2>1, <2>2, <3>1, <3>2
  <2> QED BY <1>2, <1>3, <2>1, <2>2 DEF IsCall
<1>14. CallsAreTheLoops'
  <2>1. /\ \A x \in FramesIn(toHost) : x.id \in Nat
        /\ \A x \in FramesIn(loop.queue) : x.id \in Nat
        /\ \A x \in loop.inFlight : x.id \in Nat
    <3>1. toHost \in Seq(RunnerFrame) /\ loop.queue \in Seq(RunnerFrame)
          /\ loop.inFlight \subseteq HostCallType
      BY DEF SessionInv, FsTypeOK, LoopType
    <3>2. (\A x \in RunnerFrame : x.id \in Nat) /\ \A x \in HostCallType : x.id \in Nat
      BY DEF RunnerFrame, FrameOf, HostCallType
    <3> QED BY <3>1, <3>2 DEF FramesIn
  <2>2. ASSUME NEW x \in {y \in FramesIn(toHost) : y.type = "call"} \union FramesIn(loop.queue)
                          \union loop.inFlight
        PROVE  x.inv = loop.inv /\ IsCall(x)'
    BY <1>11, <2>1, <2>2 DEF SessionInv, CallsAreTheLoops
  <2>3. CallFrames(op, large) = <<f>> => f.inv = loop.inv /\ IsCall(f)'
    BY <1>1, <1>3, <1>13
  <2>4. \A c \in run'.pending : c.id <= run'.calls
    BY <1>2, <1>5, <1>12
  <2> QED BY <1>6, <2>2, <2>3, <2>4 DEF CallsAreTheLoops
<1>15. RepliesAreTrue'
  <2>1. \A x \in FramesIn(toRunner) : x.id \in Nat
    <3>1. toRunner \in Seq(HostFrame) /\ \A x \in HostFrame : x.id \in Nat
      BY DEF SessionInv, FsTypeOK, HostFrame, FrameOf
    <3> QED BY <3>1 DEF FramesIn
  <2> QED BY <1>11, <2>1 DEF SessionInv, RepliesAreTrue
<1>16. RepliesStayHome' /\ NeverFatal'
  BY DEF SessionInv, RepliesStayHome, NeverFatal
<1>17. OkMeansCommitted'
  BY DEF SessionInv, OkMeansCommitted
<1> QED BY <1>8, <1>9, <1>10, <1>14, <1>15, <1>16, <1>17

LEMMA HandlerGetsKeeps ==
  ASSUME SessionInv, HandlerGets
  PROVE  SessionInv'
<1>1. /\ Handling /\ run' = Called("get", FALSE, FALSE) /\ Sent(CallFrames("get", FALSE))
      /\ UNCHANGED <<toRunner, loop, outcome, durable, retries, bad, foreign, results, wrote, loose>>
  BY DEF HandlerGets, Same
<1>2. run \in RunType
  BY DEF SessionInv, FsTypeOK
<1>3. /\ run' \in RunType /\ run'.current = run.current /\ run'.fatal = run.fatal
      /\ run'.settled = run.settled /\ run'.phase = run.phase
      /\ run'.buffered = run.buffered /\ run'.sealed = run.sealed
  BY <1>1, <1>2, CalledIs
<1>4. loose \in SUBSET Invocations
  BY DEF SessionInv, FsTypeOK
<1>5. /\ FsTypeOK' /\ OneAtATime' /\ InvokeFindsRunnerFree' /\ ResultIsLast' /\ CallsAreTheLoops'
      /\ RepliesAreTrue' /\ RepliesStayHome' /\ NeverFatal' /\ OkMeansCommitted'
  BY <1>1, <1>3, <1>4, CallsKeep
<1>6. WritesAreHeld'
  BY <1>1, <1>3 DEF SessionInv, WritesAreHeld
<1> QED BY <1>5, <1>6 DEF SessionInv

\* A commit of the handler's own takes what was buffered; nobody may wait for it.
LEMMA HandlerCommitsKeeps ==
  ASSUME SessionInv, NEW large \in BOOLEAN, HandlerCommits(large)
  PROVE  SessionInv'
<1>1. /\ Handling /\ run.buffered /\ run' = Sealed(Called("commit", FALSE, large))
      /\ Sent(CallFrames("commit", large)) /\ loose' = loose \union {run.current}
      /\ UNCHANGED <<toRunner, loop, outcome, durable, retries, bad, foreign, results, wrote>>
  BY DEF HandlerCommits, Same
<1>2. run \in RunType /\ run.current \in Invocations
  BY <1>1, HandlingIs
<1>3. Called("commit", FALSE, large) \in RunType
      /\ Called("commit", FALSE, large).current = run.current
      /\ Called("commit", FALSE, large).fatal = run.fatal
      /\ Called("commit", FALSE, large).settled = run.settled
  BY <1>1, <1>2, CalledIs
<1>4. /\ run' \in RunType /\ run'.current = run.current /\ run'.fatal = run.fatal
      /\ run'.settled = run.settled /\ run'.sealed /\ ~run'.buffered
      /\ run'.calls = Called("commit", FALSE, large).calls
      /\ run'.pending = Called("commit", FALSE, large).pending
  BY <1>1, <1>3 DEF Sealed, RunType
<1>5. loose' \in SUBSET Invocations /\ loose \subseteq loose'
  BY <1>1, <1>2 DEF SessionInv, FsTypeOK
<1>6. /\ FsTypeOK' /\ OneAtATime' /\ InvokeFindsRunnerFree' /\ ResultIsLast' /\ CallsAreTheLoops'
      /\ RepliesAreTrue' /\ RepliesStayHome' /\ NeverFatal' /\ OkMeansCommitted'
  BY <1>1, <1>4, <1>5, CallsKeep
<1>7. WritesAreHeld'
  BY <1>1, <1>4 DEF WritesAreHeld
<1> QED BY <1>6, <1>7 DEF SessionInv

LEMMA HandlerReturnsKeeps ==
  ASSUME SessionInv, NEW large \in BOOLEAN, NEW big \in BOOLEAN, HandlerReturns(large, big)
  PROVE  SessionInv'
<1>1. /\ Handling /\ UNCHANGED <<toRunner, loop, outcome, durable, retries, bad, foreign, wrote, loose>>
  BY DEF HandlerReturns, Same
<1>2. run \in RunType /\ run.current \in Invocations /\ run.current # None
  BY <1>1, HandlingIs
<1>3. /\ toRunner' \in Seq(HostFrame) /\ FramesIn(toRunner') \subseteq FramesIn(toRunner)
      /\ FollowedBy(toRunner', "invoke", {"unknown", "garbled"})
      /\ loose' \in SUBSET Invocations /\ loose \ {run.current} \subseteq loose'
      /\ foreign' \in BOOLEAN /\ ~foreign'
  BY <1>1 DEF SessionInv, FsTypeOK, InvokeFindsRunnerFree, RepliesStayHome
<1>4. CASE ~run.buffered
  <2>1. Settle(~big)
    BY <1>4 DEF HandlerReturns
  <2>2. run.current \in wrote \ loose' => durable[run.current] = 1
    BY <1>1, <1>2, <1>4 DEF SessionInv, WritesAreHeld, Handling
  <2> QED BY <1>1, <1>2, <1>3, <2>1, <2>2, SettleKeeps
<1>5. CASE run.buffered /\ CallRefused(large)
  <2>1. Settle(FALSE)
    BY <1>5 DEF HandlerReturns
  <2> QED BY <1>1, <1>2, <1>3, <2>1, SettleKeeps
<1>6. CASE run.buffered /\ ~CallRefused(large)
  <2>1. /\ run' = [Sealed(Called("commit", TRUE, large)) EXCEPT !.phase = "commit"]
        /\ Sent(CallFrames("commit", large)) /\ UNCHANGED results
    BY <1>6 DEF HandlerReturns
  <2>2. Called("commit", TRUE, large) \in RunType
        /\ Called("commit", TRUE, large).current = run.current
        /\ Called("commit", TRUE, large).fatal = run.fatal
        /\ Called("commit", TRUE, large).settled = run.settled
    BY <1>2, CalledIs
  <2>3. /\ run' \in RunType /\ run'.current = run.current /\ run'.fatal = run.fatal
        /\ run'.settled = run.settled /\ run'.sealed /\ ~run'.buffered /\ run'.phase = "commit"
        /\ run'.calls = Called("commit", TRUE, large).calls
        /\ run'.pending = Called("commit", TRUE, large).pending
    BY <2>1, <2>2 DEF Sealed, RunType
  <2>4. loose' \in SUBSET Invocations /\ loose \subseteq loose'
    BY <1>1 DEF SessionInv, FsTypeOK
  <2>5. /\ FsTypeOK' /\ OneAtATime' /\ InvokeFindsRunnerFree' /\ ResultIsLast' /\ CallsAreTheLoops'
        /\ RepliesAreTrue' /\ RepliesStayHome' /\ NeverFatal' /\ OkMeansCommitted'
    BY <1>1, <2>1, <2>3, <2>4, CallsKeep
  <2>6. WritesAreHeld'
    BY <2>3 DEF WritesAreHeld
  <2> QED BY <2>5, <2>6 DEF SessionInv
<1> QED BY <1>4, <1>5, <1>6

LEMMA HandlerThrowsKeeps ==
  ASSUME SessionInv, HandlerThrows
  PROVE  SessionInv'
<1>1. /\ Handling /\ Settle(FALSE)
      /\ UNCHANGED <<toRunner, loop, outcome, durable, retries, bad, foreign, wrote, loose>>
  BY DEF HandlerThrows, Same
<1>2. run.current # None
  BY <1>1, HandlingIs
<1>3. /\ toRunner' \in Seq(HostFrame) /\ FramesIn(toRunner') \subseteq FramesIn(toRunner)
      /\ FollowedBy(toRunner', "invoke", {"unknown", "garbled"})
      /\ loose' \in SUBSET Invocations /\ loose \ {run.current} \subseteq loose'
      /\ foreign' \in BOOLEAN /\ ~foreign'
  BY <1>1 DEF SessionInv, FsTypeOK, InvokeFindsRunnerFree, RepliesStayHome
<1> QED BY <1>1, <1>2, <1>3, SettleKeeps

\* What the runner reads leaves the queue, in order.
LEMMA Read ==
  ASSUME SessionInv, Receive
  PROVE  /\ toRunner # <<>> /\ toRunner' = Tail(toRunner) /\ toRunner' \in Seq(HostFrame)
         /\ Head(toRunner) \in HostFrame
         /\ FramesIn(toRunner) = {Head(toRunner)} \union FramesIn(toRunner')
         /\ FollowedBy(toRunner', "invoke", {"unknown", "garbled"})
         /\ Head(toRunner).type = "invoke" =>
              \A x \in FramesIn(toRunner') : x.type \in {"unknown", "garbled"}
         /\ UNCHANGED <<loop, outcome, durable, retries, bad, wrote>>
<1>1. toRunner # <<>> /\ toRunner' = Tail(toRunner) /\ toRunner \in Seq(HostFrame)
      /\ UNCHANGED <<loop, outcome, durable, retries, bad, wrote>>
  BY DEF Receive, SessionInv, FsTypeOK
<1>2. FollowedBy(toRunner, "invoke", {"unknown", "garbled"})
  BY DEF SessionInv, InvokeFindsRunnerFree
<1> QED BY <1>1, <1>2, FramesTail

\* A frame that changes nothing but the queue.
LEMMA IgnoredKeeps ==
  ASSUME SessionInv, Receive, UNCHANGED <<run, toHost, results, foreign, loose>>
  PROVE  SessionInv'
<1>1. /\ toRunner' \in Seq(HostFrame) /\ FramesIn(toRunner') \subseteq FramesIn(toRunner)
      /\ FollowedBy(toRunner', "invoke", {"unknown", "garbled"})
      /\ UNCHANGED <<loop, outcome, durable, retries, bad, wrote>>
  BY Read
<1>2. FsTypeOK'
  BY <1>1 DEF SessionInv, FsTypeOK
<1>3. OneAtATime' /\ InvokeFindsRunnerFree' /\ ResultIsLast' /\ CallsAreTheLoops'
  BY <1>1 DEF SessionInv, OneAtATime, HostQuiet, InvokeFindsRunnerFree, ResultIsLast,
              CallsAreTheLoops, IsCall
<1>4. RepliesAreTrue' /\ WritesAreHeld' /\ RepliesStayHome' /\ NeverFatal' /\ OkMeansCommitted'
  BY <1>1 DEF SessionInv, RepliesAreTrue, WritesAreHeld, RepliesStayHome, NeverFatal,
              OkMeansCommitted, IsCall
<1> QED BY <1>2, <1>3, <1>4 DEF SessionInv

\* A protocol error: one error result, if the host waits for one, and the end.
LEMMA FailKeeps ==
  ASSUME SessionInv, Receive, ~run.fatal, Head(toRunner).type = "garbled", Fail,
         UNCHANGED <<foreign, loose>>, bad > 0
  PROVE  SessionInv'
<1> DEFINE f == Frame("result", 0, None, FALSE, run.current)
<1>1. /\ toRunner' \in Seq(HostFrame) /\ FramesIn(toRunner') \subseteq FramesIn(toRunner)
      /\ FollowedBy(toRunner', "invoke", {"unknown", "garbled"})
      /\ UNCHANGED <<loop, outcome, durable, retries, bad, wrote>>
  BY Read
<1>2. run \in RunType /\ results \in 0..1 /\ toHost \in Seq(RunnerFrame)
  BY DEF SessionInv, FsTypeOK
<1>3. f \in RunnerFrame /\ f.type = "result" /\ ~f.ok
  BY <1>2 DEF Frame, FrameOf, RunnerFrame, RunType
<1>4. /\ run' = [run EXCEPT !.fatal = TRUE, !.settled = TRUE, !.pending = {}]
      /\ IF run.current # None THEN Sent(<<f>>) /\ results' = results + 1
         ELSE UNCHANGED <<toHost, results>>
  BY <1>2 DEF Fail, SessionInv, OneAtATime
<1> HIDE DEF f
<1>5. /\ run' \in RunType /\ run'.fatal /\ run'.current = run.current /\ run'.pending = {}
      /\ run'.phase = run.phase /\ run'.buffered = run.buffered /\ run'.sealed = run.sealed
      /\ run'.calls = run.calls
  BY <1>2, <1>4 DEF RunType
<1>6. CASE run.current = None
  <2>1. UNCHANGED <<toHost, results>>
    BY <1>4, <1>6
  <2>2. FsTypeOK'
    BY <1>1, <1>5, <2>1 DEF SessionInv, FsTypeOK
  <2>3. OneAtATime' /\ InvokeFindsRunnerFree' /\ ResultIsLast' /\ CallsAreTheLoops'
    BY <1>1, <1>5, <1>6, <2>1 DEF SessionInv, OneAtATime, HostQuiet, InvokeFindsRunnerFree,
                                  ResultIsLast, CallsAreTheLoops, IsCall
  <2>4. RepliesAreTrue' /\ WritesAreHeld' /\ RepliesStayHome' /\ NeverFatal' /\ OkMeansCommitted'
    BY <1>1, <1>5, <1>6 DEF SessionInv, RepliesAreTrue, WritesAreHeld, RepliesStayHome, NeverFatal,
                            OkMeansCommitted, IsCall
  <2> QED BY <2>2, <2>3, <2>4 DEF SessionInv
<1>7. CASE run.current # None
  <2>1. results = 0 /\ results' = 1 /\ Sent(<<f>>) /\ loop.inv = run.current /\ outcome[run.current] = None
    BY <1>2, <1>4, <1>7 DEF SessionInv, OneAtATime
  <2>2. toHost' = Append(toHost, f) /\ toHost' \in Seq(RunnerFrame)
        /\ FramesIn(toHost') = FramesIn(toHost) \union {f}
    <3>1. ~run.fatal
      OBVIOUS
    <3>2. toHost' = toHost \o <<f>>
      BY <2>1, <3>1 DEF Sent, Halted
    <3>3. /\ toHost \o <<f>> = Append(toHost, f) /\ Append(toHost, f) \in Seq(RunnerFrame)
          /\ FramesIn(Append(toHost, f)) = FramesIn(toHost) \union {f}
      BY <1>2, <1>3, FramesAppend
    <3> QED BY <3>2, <3>3
  <2>3. \A x \in FramesIn(toHost) : x.type # "result"
    BY <1>7 DEF SessionInv, ResultIsLast
  <2>4. FollowedBy(toHost', "result", {"ready"})
    <3>1. FollowedBy(toHost, "result", {"ready"})
      BY DEF SessionInv, ResultIsLast
    <3> QED BY <1>2, <1>3, <2>2, <2>3, <3>1, FramesAppend
  <2>5. \A x \in FramesIn(toRunner) : x.type # "invoke"
    BY <1>7 DEF SessionInv, InvokeFindsRunnerFree
  <2>6. FsTypeOK'
    BY <1>1, <1>5, <2>1, <2>2 DEF SessionInv, FsTypeOK
  <2>7. OneAtATime' /\ InvokeFindsRunnerFree' /\ ResultIsLast'
    BY <1>1, <1>3, <1>5, <1>7, <2>1, <2>2, <2>3, <2>4, <2>5 DEF SessionInv, OneAtATime, InvokeFindsRunnerFree, ResultIsLast
  <2>8. CallsAreTheLoops'
    BY <1>1, <1>3, <1>5, <2>2 DEF SessionInv, CallsAreTheLoops, IsCall
  <2>9. RepliesAreTrue' /\ WritesAreHeld' /\ RepliesStayHome' /\ NeverFatal' /\ OkMeansCommitted'
    BY <1>1, <1>5 DEF SessionInv, RepliesAreTrue, WritesAreHeld, RepliesStayHome, NeverFatal,
                      OkMeansCommitted, IsCall
  <2> QED BY <2>6, <2>7, <2>8, <2>9 DEF SessionInv
<1> QED BY <1>6, <1>7

LEMMA InvokeKeeps ==
  ASSUME SessionInv, Receive, ~run.fatal, Head(toRunner).type = "invoke", Invoke(Head(toRunner)),
         UNCHANGED <<foreign, loose>>
  PROVE  SessionInv'
<1> DEFINE f == Head(toRunner)
<1>1. /\ toRunner' \in Seq(HostFrame) /\ f \in HostFrame /\ f \in FramesIn(toRunner)
      /\ FramesIn(toRunner') \subseteq FramesIn(toRunner)
      /\ FollowedBy(toRunner', "invoke", {"unknown", "garbled"})
      /\ \A x \in FramesIn(toRunner') : x.type \in {"unknown", "garbled"}
      /\ UNCHANGED <<loop, outcome, durable, retries, bad, wrote>>
  BY Read
<1>2. /\ loop.inv # None /\ f.inv = loop.inv /\ outcome[loop.inv] = None
      /\ run.current = None /\ HostQuiet /\ results = 0 /\ loop.inv \notin wrote
  BY <1>1 DEF SessionInv, InvokeFindsRunnerFree
<1>3. run \in RunType /\ loop.inv \in Invocations \union {None}
  BY DEF SessionInv, FsTypeOK, LoopType
<1>4. /\ run' = [run EXCEPT !.current = f.inv, !.settled = FALSE, !.phase = "handler",
                            !.buffered = FALSE, !.sealed = FALSE, !.calls = 0, !.pending = {}]
      /\ UNCHANGED <<toHost, results>>
  BY <1>2 DEF Invoke
<1> HIDE DEF f
<1>5. /\ run' \in RunType /\ run'.current = loop.inv /\ ~run'.settled /\ ~run'.fatal
      /\ run'.phase = "handler" /\ ~run'.buffered /\ ~run'.sealed /\ run'.calls = 0 /\ run'.pending = {}
  BY <1>2, <1>3, <1>4 DEF RunType
<1>6. FsTypeOK'
  BY <1>1, <1>4, <1>5 DEF SessionInv, FsTypeOK
<1>7. OneAtATime' /\ InvokeFindsRunnerFree' /\ ResultIsLast'
  BY <1>1, <1>2, <1>4, <1>5 DEF SessionInv, OneAtATime, HostQuiet, InvokeFindsRunnerFree, ResultIsLast
<1>8. CallsAreTheLoops'
  BY <1>1, <1>2, <1>4, <1>5, NoFrames DEF CallsAreTheLoops, HostQuiet
<1>9. RepliesAreTrue' /\ WritesAreHeld' /\ RepliesStayHome' /\ NeverFatal' /\ OkMeansCommitted'
  BY <1>1, <1>2, <1>5 DEF SessionInv, RepliesAreTrue, WritesAreHeld, RepliesStayHome, NeverFatal,
                          OkMeansCommitted, HostQuiet
<1> QED BY <1>6, <1>7, <1>8, <1>9 DEF SessionInv

LEMMA ReplyKeeps ==
  ASSUME SessionInv, Receive, ~run.fatal, Head(toRunner).type = "reply", HandleReply(Head(toRunner))
  PROVE  SessionInv'
<1> DEFINE f == Head(toRunner)
           mine == {c \in run.pending : c.id = f.id}
<1>1. /\ toRunner' \in Seq(HostFrame) /\ f \in HostFrame /\ f \in FramesIn(toRunner)
      /\ FramesIn(toRunner') \subseteq FramesIn(toRunner)
      /\ FollowedBy(toRunner', "invoke", {"unknown", "garbled"})
      /\ UNCHANGED <<loop, outcome, durable, retries, bad, wrote>>
  BY Read
<1>2. /\ f.ok /\ f.inv \in Invocations /\ (f.op = "commit" => durable[f.inv] = 1)
      /\ run.current # None => f.inv = run.current /\ IsCall(f)
  BY <1>1 DEF SessionInv, RepliesAreTrue
<1>3. run \in RunType /\ loose \in SUBSET Invocations /\ foreign \in BOOLEAN /\ ~foreign
      /\ (run.current = None => run.pending = {})
  BY DEF SessionInv, FsTypeOK, RepliesStayHome, OneAtATime
<1>4. /\ foreign' = (foreign \/ (mine # {} /\ f.inv # run.current))
      /\ loose' = IF mine # {} /\ f.op = "commit" THEN loose \ {run.current} ELSE loose
      /\ IF \E c \in mine : c.last THEN Settle(f.ok)
         ELSE run' = [run EXCEPT !.pending = @ \ mine] /\ UNCHANGED <<toHost, results>>
  BY DEF HandleReply
<1>5. mine # {} => run.current # None /\ f.inv = run.current
  BY <1>2, <1>3
<1>6. /\ foreign' \in BOOLEAN /\ ~foreign' /\ loose' \in SUBSET Invocations
      /\ loose \ {run.current} \subseteq loose' /\ loose' \subseteq loose
  BY <1>3, <1>4, <1>5
<1>7. loose' # loose => durable[run.current] = 1
  BY <1>2, <1>4, <1>5
<1>8. f.ok \in BOOLEAN
  BY <1>1 DEF HostFrame, FrameOf
<1> HIDE DEF f
<1>9. CASE \E c \in mine : c.last
  <2>1. Settle(f.ok) /\ run.current # None /\ f.inv = run.current
    BY <1>4, <1>5, <1>9
  <2>2. f.op = "commit"
    BY <1>2, <1>9, <2>1 DEF IsCall
  <2>3. durable[run.current] = 1
    BY <1>2, <2>1, <2>2
  <2> HIDE DEF mine
  <2> QED BY <1>1, <1>6, <1>8, <2>1, <2>3, SettleKeeps
<1>10. CASE ~\E c \in mine : c.last
  <2>1. run' = [run EXCEPT !.pending = @ \ mine] /\ UNCHANGED <<toHost, results>>
    BY <1>4, <1>10
  <2> HIDE DEF mine
  <2>2. /\ run' \in RunType /\ run'.current = run.current /\ run'.fatal = run.fatal
        /\ run'.settled = run.settled /\ run'.phase = run.phase /\ run'.calls = run.calls
        /\ run'.buffered = run.buffered /\ run'.sealed = run.sealed /\ run'.pending \subseteq run.pending
    BY <1>3, <2>1 DEF RunType
  <2>3. FsTypeOK'
    BY <1>1, <1>6, <2>1, <2>2 DEF SessionInv, FsTypeOK
  <2>4. \A x : IsCall(x) => IsCall(x)'
    BY <2>2 DEF IsCall
  <2>5. OneAtATime' /\ InvokeFindsRunnerFree'
    BY <1>1, <2>1, <2>2 DEF SessionInv, OneAtATime, HostQuiet, InvokeFindsRunnerFree
  <2>6. ResultIsLast'
    BY <1>1, <1>6, <1>7, <2>1, <2>2 DEF SessionInv, OneAtATime, ResultIsLast
  <2>7. CallsAreTheLoops' /\ RepliesAreTrue'
    BY <1>1, <2>1, <2>2, <2>4 DEF SessionInv, CallsAreTheLoops, RepliesAreTrue
  <2>8. WritesAreHeld'
    BY <1>1, <1>6, <1>7, <2>2 DEF SessionInv, WritesAreHeld
  <2>9. RepliesStayHome' /\ NeverFatal'
    BY <1>1, <1>6, <2>2 DEF SessionInv, RepliesStayHome, NeverFatal
  <2>10. OkMeansCommitted'
    <3>1. ASSUME NEW i \in Invocations, outcome'[i] = "ok", i \in wrote' \ loose'
          PROVE  durable'[i] = 1
      <4>1. CASE i \in loose
        BY <1>1, <1>6, <1>7, <3>1, <4>1
      <4>2. CASE i \notin loose
        BY <1>1, <3>1, <4>2 DEF SessionInv, OkMeansCommitted
      <4> QED BY <4>1, <4>2
    <3> QED BY <1>1, <3>1 DEF SessionInv, OkMeansCommitted
  <2> QED BY <2>3, <2>5, <2>6, <2>7, <2>8, <2>9, <2>10 DEF SessionInv
<1> QED BY <1>9, <1>10

LEMMA ReceiveKeeps ==
  ASSUME SessionInv, Receive
  PROVE  SessionInv'
<1> DEFINE f == Head(toRunner)
<1>1. f \in HostFrame /\ f \in FramesIn(toRunner) /\ run \in RunType
  BY Read DEF SessionInv, FsTypeOK
<1>2. f.type \in {"unknown", "garbled", "invoke", "reply"}
  BY <1>1 DEF HostFrame, FrameOf
<1>3. (CASE Halted \/ f.type = "unknown" -> UNCHANGED <<run, toHost, results, foreign, loose>>
         [] ~Halted /\ f.type = "garbled" -> Fail /\ UNCHANGED <<foreign, loose>>
         [] ~Halted /\ f.type = "invoke"  -> Invoke(f) /\ UNCHANGED <<foreign, loose>>
         [] ~Halted /\ f.type = "reply"   -> HandleReply(f))
  BY DEF Receive
<1>4. CASE run.fatal \/ f.type = "unknown"
  <2>1. UNCHANGED <<run, toHost, results, foreign, loose>>
    BY <1>3, <1>4, Zenon DEF Halted
  <2> QED BY <2>1, IgnoredKeeps
<1>5. CASE ~run.fatal /\ f.type = "garbled"
  <2>1. Fail /\ UNCHANGED <<foreign, loose>>
    BY <1>3, <1>5, Zenon DEF Halted
  <2>2. bad > 0
    BY <1>1, <1>5 DEF SessionInv, RepliesAreTrue
  <2> QED BY <1>5, <2>1, <2>2, FailKeeps
<1>6. CASE ~run.fatal /\ f.type = "invoke"
  <2>1. Invoke(f) /\ UNCHANGED <<foreign, loose>>
    BY <1>3, <1>6, Zenon DEF Halted
  <2> QED BY <1>6, <2>1, InvokeKeeps
<1>7. CASE ~run.fatal /\ f.type = "reply"
  <2>1. HandleReply(f)
    BY <1>3, <1>7, Zenon DEF Halted
  <2> QED BY <1>7, <2>1, ReplyKeeps
<1> QED BY <1>2, <1>4, <1>5, <1>6, <1>7

LEMMA SessionKeeps == SessionInv /\ [Next]_fsVars => SessionInv'
<1> SUFFICES ASSUME SessionInv, [Next]_fsVars PROVE SessionInv'
  OBVIOUS
<1>1. CASE UNCHANGED fsVars
  BY <1>1, SessionStutters
<1>2. CASE Opened \/ Receive
  BY <1>2, OpenedKeeps, ReceiveKeeps
<1>3. CASE HandlerWrites \/ HandlerGets \/ HandlerThrows
           \/ (\E large \in BOOLEAN : HandlerCommits(large))
           \/ (\E large, big \in BOOLEAN : HandlerReturns(large, big))
  BY <1>3, HandlerWritesKeeps, HandlerGetsKeeps, HandlerThrowsKeeps, HandlerCommitsKeeps,
     HandlerReturnsKeeps
<1>4. CASE (\E i \in Invocations : HostInvokes(i)) \/ HostReads \/ Deadline
           \/ (\E c \in loop.inFlight : HostCommits(c) \/ HostReplies(c) \/ HostCallFails(c))
           \/ (\E type \in {"unknown", "garbled"} : HostGarbles(type))
  BY <1>4, HostInvokesKeeps, HostReadsKeeps, DeadlineKeeps, HostCommitsKeeps, HostRepliesKeeps,
     HostGarblesKeeps
<1> QED BY <1>1, <1>2, <1>3, <1>4 DEF Next

-----------------------------------------------------------------------------
(* The guardrails *)

LEMMA WireIs ==
  /\ Guards!Runs \subseteq Nat /\ Guards!Native \notin Guards!Runs
  /\ \A k \in Guards!Runs : /\ Guards!ResolveLimits(k).lines \in Nat
                            /\ Guards!ResolveLimits(k).bytes \in Nat
<1>1. DOMAIN Wire \subseteq Nat \ {0} /\ DefaultLines \in Nat /\ DefaultBytes \in Nat
  BY GuardsAssumption
<1>2. \A k \in DOMAIN Wire : Wire[k].lines \in Int /\ Wire[k].bytes \in Int
  BY GuardsAssumption
<1>3. \A v \in Int, d \in Nat : Guards!Positive(v, d) \in Nat
  BY DEF Guards!Positive
<1>4. ASSUME NEW k \in DOMAIN Wire
      PROVE  Guards!ResolveLimits(k).lines \in Nat /\ Guards!ResolveLimits(k).bytes \in Nat
  <2>1. /\ Guards!ResolveLimits(k).lines = Guards!Positive(Wire[k].lines, DefaultLines)
        /\ Guards!ResolveLimits(k).bytes = Guards!Positive(Wire[k].bytes, DefaultBytes)
    BY DEF Guards!ResolveLimits
  <2> QED BY <1>1, <1>2, <1>3, <2>1
<1> QED BY <1>1, <1>4 DEF Guards!Runs, Guards!Native

LEMMA GuardsStart == Guards!RgInit => Guards!RgInv
<1> SUFFICES ASSUME Guards!RgInit PROVE Guards!RgInv
  OBVIOUS
<1>1. Guards!RgTypeOK
  BY DEF Guards!RgInit, Guards!RgTypeOK, Guards!Owners, Guards!FreshSink, Guards!SinkType, Guards!Phases
<1>2. Guards!InTurn /\ Guards!GlobalsAreRestored /\ \A i \in DOMAIN reqs : Guards!IsSound(reqs[i])
  BY DEF Guards!RgInit, Guards!InTurn, Guards!GlobalsAreRestored
<1>3. Guards!LogsAreBounded /\ \A k \in Guards!Runs : sink[k].frames = sink[k].lines
  BY WireIs DEF Guards!RgInit, Guards!LogsAreBounded, Guards!FreshSink
<1> QED BY <1>1, <1>2, <1>3 DEF Guards!RgInv

\* A step on one request leaves it sound, and touches nothing else.
LEMMA RequestKeeps ==
  ASSUME Guards!RgInv, Guards!Others, NEW r \in Guards!RequestType, Guards!IsSound(r),
         reqs' = Append(reqs, r) \/ \E i \in DOMAIN reqs : reqs' = [reqs EXCEPT ![i] = r]
  PROVE  Guards!RgInv'
<1>1. reqs \in Seq(Guards!RequestType)
  BY DEF Guards!RgInv, Guards!RgTypeOK
<1>2. UNCHANGED <<phase, fetchIs, consoleIs, kept, sink, lines>>
  BY DEF Guards!Others
<1>3. reqs' \in Seq(Guards!RequestType) /\ \A i \in DOMAIN reqs' : reqs'[i] = r \/ (i \in DOMAIN reqs /\ reqs'[i] = reqs[i])
  <2>1. CASE reqs' = Append(reqs, r)
    BY <1>1, <2>1
  <2>2. CASE \E i \in DOMAIN reqs : reqs' = [reqs EXCEPT ![i] = r]
    BY <1>1, <2>2
  <2> QED BY <2>1, <2>2
<1>4. \A i \in DOMAIN reqs' : Guards!IsSound(reqs'[i])
  BY <1>3 DEF Guards!RgInv
<1>5. Guards!RgTypeOK'
  BY <1>2, <1>3 DEF Guards!RgInv, Guards!RgTypeOK
<1>6. Guards!InTurn' /\ Guards!GlobalsAreRestored' /\ Guards!LogsAreBounded'
      /\ \A k \in Guards!Runs : sink'[k].frames = sink'[k].lines
  BY <1>2 DEF Guards!RgInv, Guards!InTurn, Guards!GlobalsAreRestored, Guards!LogsAreBounded
<1>7. (\A i \in DOMAIN reqs : Guards!IsSound(reqs[i]))'
  BY <1>4 DEF Guards!IsSound, Guards!Ended, Guards!Blocked
<1> QED BY <1>5, <1>6, <1>7 DEF Guards!RgInv

\* An audit of a request that had none.
LEMMA AuditedIs ==
  ASSUME Guards!RgInv, NEW r \in Guards!RequestType, r.audits = 0
  PROVE  LET q == Guards!Audited(r)
         IN  /\ q \in Guards!RequestType /\ q.audits = IF q.unheard THEN 0 ELSE 1
             /\ q.under = r.under /\ q.url = r.url /\ q.got = r.got /\ q.declared = r.declared
             /\ q.capped = r.capped /\ q.rebuilt = r.rebuilt /\ q.at = r.at
<1>1. Guards!Closed(r.under) \in BOOLEAN
  BY DEF Guards!Closed
<1>2. PICK c \in BOOLEAN : c = Guards!Closed(r.under)
  BY <1>1
<1>3. Guards!Audited(r) = [r EXCEPT !.audits = IF c THEN 0 ELSE 1, !.unheard = c]
  BY <1>2 DEF Guards!Audited, Guards!RequestType
<1> DEFINE n == IF c THEN 0 ELSE 1
           q == [r EXCEPT !.audits = n, !.unheard = c]
<1>4. n \in Nat /\ r \in Guards!RequestType
  OBVIOUS
<1> HIDE DEF n
<1>5. q \in Guards!RequestType /\ q.audits = n /\ q.unheard = c
  BY <1>4 DEF Guards!RequestType
<1>6. /\ q.under = r.under /\ q.url = r.url /\ q.got = r.got /\ q.declared = r.declared
      /\ q.capped = r.capped /\ q.rebuilt = r.rebuilt /\ q.at = r.at
  BY <1>4 DEF Guards!RequestType
<1>7. n = IF c THEN 0 ELSE 1
  BY DEF n
<1>8. Guards!Audited(r) = q
  BY <1>3, <1>7
<1> HIDE DEF q
<1> QED BY <1>5, <1>6, <1>7, <1>8

LEMMA FetchKeeps ==
  ASSUME Guards!RgInv, NEW url \in Destinations, Guards!Fetch(url)
  PROVE  Guards!RgInv'
<1> DEFINE q == Guards!Request(url)
           b == fetchIs # Guards!Native /\ Guards!Blocked(fetchIs, url)
<1>1. /\ q \in Guards!RequestType /\ q.under = fetchIs /\ q.url = url /\ q.got = 0 /\ q.at = "sent"
      /\ q.audits = 0
  BY DEF Guards!RgInv, Guards!RgTypeOK, Guards!Request, Guards!Unknown, Guards!RequestType
<1>2. reqs' = Append(reqs, IF b THEN [Guards!Audited(q) EXCEPT !.at = "blocked"] ELSE q)
      /\ Guards!Others
  BY DEF Guards!Fetch
<1>3. 0 <= Cap
  BY GuardsAssumption
<1> HIDE DEF q
<1>4. CASE ~b
  <2>1. Guards!IsSound(q)
    BY <1>1, <1>3, <1>4 DEF Guards!IsSound, Guards!Ended
  <2>2. reqs' = Append(reqs, q)
    BY <1>2, <1>4
  <2> QED BY <1>1, <1>2, <2>1, <2>2, RequestKeeps
<1>5. CASE b
  <2> DEFINE r == [Guards!Audited(q) EXCEPT !.at = "blocked"]
  <2>1. /\ Guards!Audited(q) \in Guards!RequestType /\ Guards!Audited(q).got = 0
        /\ Guards!Audited(q).audits = IF Guards!Audited(q).unheard THEN 0 ELSE 1
        /\ Guards!Audited(q).under = fetchIs
    BY <1>1, AuditedIs
  <2>2. /\ r \in Guards!RequestType /\ r.at = "blocked" /\ r.got = 0 /\ r.under = fetchIs
        /\ r.audits = IF r.unheard THEN 0 ELSE 1
    BY <2>1 DEF Guards!RequestType
  <2>3. reqs' = Append(reqs, r)
    BY <1>2, <1>5
  <2> HIDE DEF r
  <2>4. Guards!IsSound(r)
    BY <1>3, <1>5, <2>2 DEF Guards!IsSound, Guards!Ended
  <2> QED BY <1>2, <2>2, <2>3, <2>4, RequestKeeps
<1> QED BY <1>4, <1>5

\* A request that is under way, and what its guard knows of it.
LEMMA RequestIs ==
  ASSUME Guards!RgInv, NEW i \in DOMAIN reqs
  PROVE  reqs[i] \in Guards!RequestType /\ Guards!IsSound(reqs[i])
<1>1. reqs \in Seq(Guards!RequestType)
  BY DEF Guards!RgInv, Guards!RgTypeOK
<1> QED BY <1>1 DEF Guards!RgInv

LEMMA NetworkFailsKeeps ==
  ASSUME Guards!RgInv, NEW i \in DOMAIN reqs, Guards!NetworkFails(i)
  PROVE  Guards!RgInv'
<1> DEFINE q == IF Guards!Guarded(i) THEN Guards!Audited(reqs[i]) ELSE reqs[i]
           r == [q EXCEPT !.at = "failed"]
<1>1. /\ reqs[i] \in Guards!RequestType /\ Guards!IsSound(reqs[i]) /\ reqs[i].at = "sent"
      /\ reqs[i].audits = 0
  BY RequestIs DEF Guards!NetworkFails, Guards!At, Guards!IsSound, Guards!Ended
<1>2. reqs' = [reqs EXCEPT ![i] = r] /\ Guards!Others
  BY DEF Guards!NetworkFails
<1>3. /\ q \in Guards!RequestType /\ q.under = reqs[i].under /\ q.url = reqs[i].url
      /\ q.got = reqs[i].got /\ q.rebuilt = reqs[i].rebuilt
      /\ q.audits = IF q.under # Guards!Native THEN IF q.unheard THEN 0 ELSE 1 ELSE 0
  BY <1>1, AuditedIs DEF Guards!Guarded
<1> HIDE DEF q
<1>4. /\ r \in Guards!RequestType /\ r.at = "failed" /\ r.under = reqs[i].under /\ r.url = reqs[i].url
      /\ r.got = reqs[i].got /\ r.rebuilt = reqs[i].rebuilt
      /\ r.audits = IF r.under # Guards!Native THEN IF r.unheard THEN 0 ELSE 1 ELSE 0
  BY <1>3 DEF Guards!RequestType
<1> HIDE DEF r
<1>5. Guards!IsSound(r)
  BY <1>1, <1>4 DEF Guards!IsSound, Guards!Ended
<1> QED BY <1>2, <1>4, <1>5, RequestKeeps

LEMMA RespondsKeeps ==
  ASSUME Guards!RgInv, NEW i \in DOMAIN reqs, NEW declared \in {Guards!Unknown, Cap, MaxChunks},
         NEW rebuilt \in BOOLEAN, Guards!Responds(i, declared, rebuilt)
  PROVE  Guards!RgInv'
<1> DEFINE p == [reqs[i] EXCEPT !.declared = declared]
           r == IF ~Guards!Guarded(i) THEN [p EXCEPT !.at = "open"]
                ELSE IF declared > Cap THEN Guards!Refused(p)
                ELSE [Guards!Audited(p) EXCEPT !.at = "open",
                        !.capped = declared = Guards!Unknown /\ rebuilt, !.rebuilt = rebuilt]
<1>1. /\ reqs[i] \in Guards!RequestType /\ Guards!IsSound(reqs[i]) /\ reqs[i].at = "sent"
      /\ reqs[i].audits = 0 /\ reqs[i].got = 0
  BY RequestIs DEF Guards!Responds, Guards!At, Guards!IsSound, Guards!Ended
<1>2. reqs' = [reqs EXCEPT ![i] = r] /\ Guards!Others
  BY DEF Guards!Responds
<1>3. declared \in Nat \union {Guards!Unknown} /\ Cap \in Nat /\ Guards!Unknown = -1
  BY GuardsAssumption DEF Guards!Unknown
<1>4. /\ p \in Guards!RequestType /\ p.under = reqs[i].under /\ p.url = reqs[i].url /\ p.got = 0
      /\ p.audits = 0 /\ p.declared = declared /\ p.at = "sent"
  BY <1>1, <1>3 DEF Guards!RequestType
<1> HIDE DEF p
<1>5. CASE ~Guards!Guarded(i)
  <2>1. /\ r \in Guards!RequestType /\ r.under = Guards!Native /\ r.at = "open" /\ r.audits = 0
    BY <1>4, <1>5 DEF Guards!RequestType, Guards!Guarded
  <2> HIDE DEF r
  <2>2. Guards!IsSound(r)
    BY <2>1 DEF Guards!IsSound
  <2> QED BY <1>2, <2>1, <2>2, RequestKeeps
<1>6. CASE Guards!Guarded(i) /\ declared > Cap
  <2> DEFINE q == [p EXCEPT !.at = "refusing"]
  <2>1. /\ q \in Guards!RequestType /\ q.under = reqs[i].under /\ q.url = reqs[i].url /\ q.got = 0
        /\ q.audits = 0 /\ q.at = "refusing"
    BY <1>4 DEF Guards!RequestType
  <2>2. r = Guards!Audited(q)
    BY <1>6 DEF Guards!Refused
  <2> HIDE DEF q, r
  <2>3. /\ r \in Guards!RequestType /\ r.under = reqs[i].under /\ r.url = reqs[i].url /\ r.got = 0
        /\ r.at = "refusing" /\ r.audits = IF r.unheard THEN 0 ELSE 1
    BY <2>1, <2>2, AuditedIs
  <2>4. Guards!IsSound(r)
    BY <1>1, <1>3, <1>6, <2>3 DEF Guards!IsSound, Guards!Ended, Guards!Guarded
  <2> QED BY <1>2, <2>3, <2>4, RequestKeeps
<1>7. CASE Guards!Guarded(i) /\ ~(declared > Cap)
  <2> DEFINE q == Guards!Audited(p)
             capped == declared = Guards!Unknown /\ rebuilt
  <2>1. /\ q \in Guards!RequestType /\ q.under = reqs[i].under /\ q.url = reqs[i].url /\ q.got = 0
        /\ q.declared = declared /\ q.audits = IF q.unheard THEN 0 ELSE 1
    BY <1>4, AuditedIs
  <2>2. PICK c \in BOOLEAN : c <=> (declared = Guards!Unknown /\ rebuilt)
    OBVIOUS
  <2>3. r = [q EXCEPT !.at = "open", !.capped = c, !.rebuilt = rebuilt]
    <3>1. c = (declared = Guards!Unknown /\ rebuilt)
      BY <2>2
    <3> QED BY <1>7, <3>1
  <2> HIDE DEF q, r
  <2>4. /\ r \in Guards!RequestType /\ r.under = reqs[i].under /\ r.url = reqs[i].url /\ r.got = 0
        /\ r.at = "open" /\ r.declared = declared /\ r.capped = c /\ r.rebuilt = rebuilt
        /\ r.audits = IF r.unheard THEN 0 ELSE 1
    BY <2>1, <2>3 DEF Guards!RequestType
  <2>5. Guards!IsSound(r)
    BY <1>1, <1>3, <1>7, <2>2, <2>4 DEF Guards!IsSound, Guards!Ended, Guards!Guarded
  <2> QED BY <1>2, <2>4, <2>5, RequestKeeps
<1> QED BY <1>5, <1>6, <1>7

LEMMA BodyKeeps ==
  ASSUME Guards!RgInv, NEW i \in DOMAIN reqs, Guards!Chunk(i) \/ Guards!Discarded(i)
  PROVE  Guards!RgInv'
<1>1. reqs[i] \in Guards!RequestType /\ Guards!IsSound(reqs[i]) /\ Cap \in Nat
  BY RequestIs, GuardsAssumption
<1>2. CASE Guards!Discarded(i)
  <2> DEFINE r == [reqs[i] EXCEPT !.at = "refused"]
  <2>1. reqs[i].at = "refusing" /\ reqs' = [reqs EXCEPT ![i].at = "refused"] /\ Guards!Others
    BY <1>2 DEF Guards!Discarded, Guards!At
  <2>2. reqs' = [reqs EXCEPT ![i] = r]
    BY <2>1
  <2>3. /\ r \in Guards!RequestType /\ r.at = "refused" /\ r.under = reqs[i].under
        /\ r.url = reqs[i].url /\ r.got = reqs[i].got /\ r.rebuilt = reqs[i].rebuilt
        /\ r.audits = reqs[i].audits /\ r.unheard = reqs[i].unheard
    BY <1>1 DEF Guards!RequestType
  <2> HIDE DEF r
  <2>4. Guards!IsSound(r)
    BY <1>1, <2>1, <2>3 DEF Guards!IsSound, Guards!Ended
  <2> QED BY <2>1, <2>2, <2>3, <2>4, RequestKeeps
<1>3. CASE Guards!Chunk(i)
  <2> DEFINE r == IF reqs[i].capped /\ reqs[i].got + 1 > Cap THEN [reqs[i] EXCEPT !.at = "errored"]
                  ELSE [reqs[i] EXCEPT !.got = @ + 1]
  <2>2. reqs[i].got \in Nat /\ reqs[i].declared \in Nat \union {Guards!Unknown}
    BY <1>1 DEF Guards!RequestType
  <2>5. /\ reqs[i].at = "open" /\ (reqs[i].declared # Guards!Unknown => reqs[i].got < reqs[i].declared)
        /\ Guards!Others
    BY <1>3 DEF Guards!Chunk, Guards!At
  <2>6. reqs' = [reqs EXCEPT ![i] = r]
    BY <1>3 DEF Guards!Chunk
  <2>1. /\ reqs[i].at = "open" /\ (reqs[i].declared # Guards!Unknown => reqs[i].got < reqs[i].declared)
        /\ reqs' = [reqs EXCEPT ![i] = r] /\ Guards!Others
    BY <2>5, <2>6
  <2>3. /\ r \in Guards!RequestType /\ r.under = reqs[i].under /\ r.url = reqs[i].url
        /\ r.rebuilt = reqs[i].rebuilt /\ r.capped = reqs[i].capped /\ r.declared = reqs[i].declared
        /\ r.audits = reqs[i].audits /\ r.unheard = reqs[i].unheard
        /\ \/ reqs[i].capped /\ reqs[i].got + 1 > Cap /\ r.at = "errored" /\ r.got = reqs[i].got
           \/ ~(reqs[i].capped /\ reqs[i].got + 1 > Cap) /\ r.at = "open" /\ r.got = reqs[i].got + 1
    BY <1>1, <2>1, <2>2 DEF Guards!RequestType
  <2> HIDE DEF r
  <2>4. Guards!IsSound(r)
    BY <1>1, <2>1, <2>2, <2>3 DEF Guards!IsSound, Guards!Ended
  <2> QED BY <2>1, <2>3, <2>4, RequestKeeps
<1> QED BY <1>2, <1>3

\* A line is charged to one sink, by whatever name it is logged.
LEMMA LoggedKeeps ==
  ASSUME Guards!RgInv, NEW k \in Guards!Runs, NEW size \in Sizes,
         sink' = Guards!Logged(k, size) \/ sink' = sink, Guards!Log
  PROVE  Guards!RgInv'
<1>1. /\ lines' = lines + 1 /\ UNCHANGED <<phase, fetchIs, consoleIs, kept, reqs>>
      /\ sink \in [Guards!Runs -> Guards!SinkType] /\ size \in Nat
  BY GuardsAssumption DEF Guards!Log, Guards!RgInv, Guards!RgTypeOK
<1>2. sink[k] \in Guards!SinkType
  BY <1>1
<1>3. PICK L \in Nat, B \in Nat : L = Guards!ResolveLimits(k).lines /\ B = Guards!ResolveLimits(k).bytes
  BY WireIs
<1>4. /\ sink[k].frames <= L /\ sink[k].bytes <= B /\ sink[k].notices <= 1
      /\ (sink[k].notices = 1 <=> sink[k].truncated) /\ sink[k].frames = sink[k].lines
  BY <1>3 DEF Guards!RgInv, Guards!LogsAreBounded
<1>5. PICK s : /\ s \in Guards!SinkType /\ (sink' = sink \/ sink' = [sink EXCEPT ![k] = s])
               /\ s.frames <= L /\ s.bytes <= B /\ s.notices <= 1
               /\ (s.notices = 1 <=> s.truncated) /\ s.frames = s.lines
  <2>1. CASE sink' = sink
    BY <1>2, <1>4, <2>1
  <2>2. CASE sink' # sink /\ Guards!Overflows(k, size)
    <3>1. ~sink[k].truncated /\ sink' = [sink EXCEPT ![k].truncated = TRUE, ![k].notices = @ + 1]
      BY <2>2 DEF Guards!Logged
    <3>2. PICK n \in Nat : n = sink[k].notices + 1
      BY <1>2 DEF Guards!SinkType
    <3> DEFINE s == [sink[k] EXCEPT !.truncated = TRUE, !.notices = n]
    <3>3. sink' = [sink EXCEPT ![k] = s]
      BY <1>1, <1>2, <3>1, <3>2 DEF Guards!SinkType
    <3>4. /\ s \in Guards!SinkType /\ s.truncated /\ s.notices = n /\ s.frames = sink[k].frames
          /\ s.bytes = sink[k].bytes /\ s.lines = sink[k].lines
      BY <1>2 DEF Guards!SinkType
    <3>5. n = 1
      BY <1>2, <1>4, <3>1, <3>2 DEF Guards!SinkType
    <3> HIDE DEF s
    <3>6. /\ s.frames <= L /\ s.bytes <= B /\ s.notices <= 1
          /\ (s.notices = 1 <=> s.truncated) /\ s.frames = s.lines
      BY <1>4, <3>4, <3>5
    <3> QED BY <3>3, <3>4, <3>6, Zenon
  <2>3. CASE sink' # sink /\ ~Guards!Overflows(k, size)
    <3>1. sink' = [sink EXCEPT ![k].lines = @ + 1, ![k].bytes = @ + size, ![k].frames = @ + 1]
      BY <2>3 DEF Guards!Logged
    <3>2. PICK n \in Nat, b \in Nat : n = sink[k].lines + 1 /\ b = sink[k].bytes + size
      BY <1>1, <1>2 DEF Guards!SinkType
    <3> DEFINE s == [sink[k] EXCEPT !.lines = n, !.bytes = b, !.frames = n]
    <3>3. sink' = [sink EXCEPT ![k] = s]
      BY <1>1, <1>2, <1>4, <3>1, <3>2 DEF Guards!SinkType
    <3>4. /\ s \in Guards!SinkType /\ s.frames = n /\ s.bytes = b /\ s.lines = n
          /\ s.notices = sink[k].notices /\ s.truncated = sink[k].truncated
      BY <1>2 DEF Guards!SinkType
    <3>5. n <= L /\ b <= B
      BY <1>1, <1>2, <1>3, <2>3, <3>2 DEF Guards!SinkType, Guards!Overflows
    <3> HIDE DEF s
    <3>6. /\ s.frames <= L /\ s.bytes <= B /\ s.notices <= 1
          /\ (s.notices = 1 <=> s.truncated) /\ s.frames = s.lines
      BY <1>4, <3>4, <3>5
    <3> QED BY <3>3, <3>4, <3>6, Zenon
  <2> QED BY <2>1, <2>2, <2>3
<1>6. sink' \in [Guards!Runs -> Guards!SinkType]
      /\ \A j \in Guards!Runs : sink'[j] = sink[j] \/ (j = k /\ sink'[j] = s)
  BY <1>1, <1>5
<1>7. Guards!LogsAreBounded' /\ \A j \in Guards!Runs : sink'[j].frames = sink'[j].lines
  <2>1. ASSUME NEW j \in Guards!Runs, sink'[j] = sink[j]
        PROVE  /\ sink'[j].frames <= Guards!ResolveLimits(j).lines /\ sink'[j].bytes <= Guards!ResolveLimits(j).bytes
               /\ sink'[j].notices <= 1 /\ (sink'[j].notices = 1 <=> sink'[j].truncated)
               /\ sink'[j].frames = sink'[j].lines
    BY <2>1 DEF Guards!RgInv, Guards!LogsAreBounded
  <2> QED BY <1>3, <1>5, <1>6, <2>1 DEF Guards!LogsAreBounded, Guards!ResolveLimits
<1>8. Guards!RgTypeOK'
  BY <1>1, <1>6 DEF Guards!RgInv, Guards!RgTypeOK
<1>9. Guards!InTurn' /\ Guards!GlobalsAreRestored' /\ (\A i \in DOMAIN reqs : Guards!IsSound(reqs[i]))'
  BY <1>1 DEF Guards!RgInv, Guards!InTurn, Guards!GlobalsAreRestored
<1> QED BY <1>7, <1>8, <1>9 DEF Guards!RgInv

\* Invocations come and go: what one installs it takes down.
LEMMA LifeKeeps ==
  ASSUME Guards!RgInv, NEW k \in Guards!Runs,
         Guards!RunInvocation(k) \/ Guards!Leaves(k) \/ Guards!Settles(k) \/ Guards!Finishes(k)
  PROVE  Guards!RgInv'
<1>1. /\ phase \in [Guards!Runs -> Guards!Phases] /\ fetchIs \in Guards!Owners /\ consoleIs \in Guards!Owners
      /\ kept \in [Guards!Runs -> [fetch : Guards!Owners, console : Guards!Owners]]
      /\ sink \in [Guards!Runs -> Guards!SinkType] /\ reqs \in Seq(Guards!RequestType) /\ lines \in Nat
      /\ Guards!Runs \subseteq Nat
  BY WireIs DEF Guards!RgInv, Guards!RgTypeOK
<1>2. UNCHANGED <<reqs, lines>>
  BY DEF Guards!RunInvocation, Guards!Leaves, Guards!Settles, Guards!Finishes
<1>3. /\ \A j \in Guards!Runs : sink'[j].frames = sink[j].frames /\ sink'[j].lines = sink[j].lines
           /\ sink'[j].bytes = sink[j].bytes /\ sink'[j].notices = sink[j].notices
           /\ sink'[j].truncated = sink[j].truncated
      /\ sink' \in [Guards!Runs -> Guards!SinkType]
  <2>1. CASE sink' = sink
    BY <1>1, <2>1
  <2>2. CASE sink' = [sink EXCEPT ![k].closed = TRUE]
    BY <1>1, <2>2 DEF Guards!SinkType
  <2> QED BY <2>1, <2>2 DEF Guards!RunInvocation, Guards!Leaves, Guards!Settles, Guards!Finishes
<1>4. Guards!LogsAreBounded' /\ \A j \in Guards!Runs : sink'[j].frames = sink'[j].lines
  BY <1>3 DEF Guards!RgInv, Guards!LogsAreBounded, Guards!ResolveLimits
<1>5. (\A i \in DOMAIN reqs : Guards!IsSound(reqs[i]))'
  BY <1>2 DEF Guards!RgInv
<1>6. \A j \in Guards!Runs : phase[j] # "new" => \A h \in Guards!Runs : h < j => phase[h] = "finished"
  BY DEF Guards!RgInv, Guards!InTurn
<1>7. \A j \in Guards!Runs : phase[j] = "running" => kept[j].fetch = Guards!Native /\ kept[j].console = Guards!Native
  BY DEF Guards!RgInv, Guards!InTurn
<1>8. (\A j \in Guards!Runs : phase[j] # "running") => fetchIs = Guards!Native /\ consoleIs = Guards!Native
  BY DEF Guards!RgInv, Guards!GlobalsAreRestored
<1>9. CASE Guards!RunInvocation(k)
  <2>1. /\ phase[k] = "new" /\ (\A j \in Guards!Runs : j < k => phase[j] = "finished")
        /\ phase' = [phase EXCEPT ![k] = "running"]
        /\ kept' = [kept EXCEPT ![k] = [fetch |-> fetchIs, console |-> consoleIs]]
        /\ fetchIs' = k /\ consoleIs' = k
    BY <1>9 DEF Guards!RunInvocation
  <2>2. \A j \in Guards!Runs : j < k \/ j = k \/ k < j
    BY <1>1
  <2>3. \A j \in Guards!Runs \ {k} : phase[j] \in {"new", "finished"}
    BY <1>6, <2>1, <2>2
  <2>4. fetchIs = Guards!Native /\ consoleIs = Guards!Native
    BY <1>8, <2>1, <2>3
  <2>5. /\ phase'[k] = "running" /\ \A j \in Guards!Runs \ {k} : phase'[j] = phase[j]
        /\ phase' \in [Guards!Runs -> Guards!Phases]
    BY <1>1, <2>1 DEF Guards!Phases
  <2>6. /\ kept'[k].fetch = Guards!Native /\ kept'[k].console = Guards!Native
        /\ kept' \in [Guards!Runs -> [fetch : Guards!Owners, console : Guards!Owners]]
    BY <1>1, <2>1, <2>4
  <2>7. Guards!RgTypeOK'
    BY <1>1, <1>2, <1>3, <2>1, <2>5, <2>6 DEF Guards!RgTypeOK, Guards!Owners
  <2>8. Guards!InTurn'
    <3>1. ASSUME NEW j \in Guards!Runs, phase'[j] # "new", NEW h \in Guards!Runs, h < j
          PROVE  phase'[h] = "finished"
      <4>1. CASE j = k
        BY <1>1, <2>1, <2>5, <3>1, <4>1
      <4>2. CASE j # k
        <5>1. phase[h] = "finished"
          BY <1>6, <2>5, <3>1, <4>2
        <5> QED BY <2>1, <2>5, <5>1
      <4> QED BY <4>1, <4>2
    <3>2. ASSUME NEW j \in Guards!Runs, phase'[j] = "running"
          PROVE  kept'[j].fetch = Guards!Native /\ kept'[j].console = Guards!Native
      BY <2>3, <2>5, <2>6, <3>2
    <3> QED BY <3>1, <3>2 DEF Guards!InTurn
  <2>9. Guards!GlobalsAreRestored'
    BY <2>5 DEF Guards!GlobalsAreRestored
  <2> QED BY <1>4, <1>5, <2>7, <2>8, <2>9 DEF Guards!RgInv
<1>10. CASE Guards!Leaves(k) \/ Guards!Settles(k) \/ Guards!Finishes(k)
  <2>1. PICK p \in Guards!Phases \ {"new", "running"} :
          /\ phase' = [phase EXCEPT ![k] = p] /\ phase[k] # "new" /\ phase[k] # "finished"
          /\ kept' = kept
          /\ \/ phase[k] = "running" /\ fetchIs' = kept[k].fetch /\ consoleIs' = kept[k].console
             \/ phase[k] # "running" /\ fetchIs' = fetchIs /\ consoleIs' = consoleIs
    BY <1>10 DEF Guards!Leaves, Guards!Settles, Guards!Finishes, Guards!Phases
  <2>2. /\ phase'[k] = p /\ \A j \in Guards!Runs \ {k} : phase'[j] = phase[j]
        /\ phase' \in [Guards!Runs -> Guards!Phases]
    BY <1>1, <2>1
  <2>3. Guards!RgTypeOK'
    BY <1>1, <1>2, <1>3, <2>1, <2>2 DEF Guards!RgTypeOK
  <2>4. Guards!InTurn'
    <3>1. ASSUME NEW j \in Guards!Runs, phase'[j] # "new", NEW h \in Guards!Runs, h < j
          PROVE  phase'[h] = "finished"
      <4>1. phase[j] # "new"
        BY <2>1, <2>2, <3>1
      <4>2. phase[h] = "finished"
        BY <1>6, <3>1, <4>1
      <4> QED BY <2>1, <2>2, <4>2
    <3> QED BY <1>7, <2>1, <2>2, <3>1 DEF Guards!InTurn
  <2>5. Guards!GlobalsAreRestored'
    <3>1. CASE phase[k] = "running"
      BY <1>7, <2>1, <3>1 DEF Guards!GlobalsAreRestored
    <3>2. CASE phase[k] # "running"
      BY <1>8, <2>1, <2>2, <3>2 DEF Guards!GlobalsAreRestored
    <3> QED BY <3>1, <3>2
  <2> QED BY <1>4, <1>5, <2>3, <2>4, <2>5 DEF Guards!RgInv
<1> QED BY <1>9, <1>10

LEMMA GuardsKeep == Guards!RgInv /\ [Guards!RgNext]_guardVars => Guards!RgInv'
<1> SUFFICES ASSUME Guards!RgInv, [Guards!RgNext]_guardVars PROVE Guards!RgInv'
  OBVIOUS
<1>1. CASE UNCHANGED guardVars
  BY <1>1 DEF guardVars, Guards!RgInv, Guards!RgTypeOK, Guards!InTurn, Guards!GlobalsAreRestored,
              Guards!LogsAreBounded
<1>2. CASE \E k \in Guards!Runs : Guards!RunInvocation(k) \/ Guards!Leaves(k) \/ Guards!Settles(k)
                                  \/ Guards!Finishes(k)
  BY <1>2, LifeKeeps
<1>3. CASE \E url \in Destinations : Guards!Fetch(url)
  BY <1>3, FetchKeeps
<1>4. CASE \E i \in DOMAIN reqs :
             \/ Guards!NetworkFails(i) \/ Guards!Discarded(i) \/ Guards!Chunk(i)
             \/ \E declared \in {Guards!Unknown, Cap, MaxChunks}, rebuilt \in BOOLEAN :
                  Guards!Responds(i, declared, rebuilt)
  BY <1>4, NetworkFailsKeeps, BodyKeeps, RespondsKeeps
<1>5. ASSUME NEW size \in Sizes, Guards!ConsoleLog(size) PROVE Guards!RgInv'
  <2>1. Guards!Log /\ (\E k \in Guards!Runs : TRUE)
        /\ sink' = IF consoleIs = Guards!Native THEN sink ELSE Guards!Logged(consoleIs, size)
    BY <1>5 DEF Guards!ConsoleLog
  <2>2. consoleIs \in Guards!Runs \union {Guards!Native}
    BY DEF Guards!RgInv, Guards!RgTypeOK, Guards!Owners
  <2> QED BY <2>1, <2>2, LoggedKeeps
<1>6. ASSUME NEW size \in Sizes, NEW k \in Guards!Runs, Guards!ContextLog(k, size) PROVE Guards!RgInv'
  BY <1>6, LoggedKeeps DEF Guards!ContextLog
<1> QED BY <1>1, <1>2, <1>3, <1>4, <1>5, <1>6 DEF Guards!RgNext

\* What was let through names a listed host and port.
LEMMA ListedIs ==
  ASSUME NEW k \in Guards!Runs, NEW url, ~Guards!Blocked(k, url)
  PROVE  LET entries == {e \in Guards!ResolveLimits(k).allow : e.form # "junk"}
         IN  entries # {} => \E e \in entries :
               /\ e.host = url.host
               /\ \/ e.port \in {Guards!NoPort, Guards!EffectivePort(url)}
                  \/ e.form = "url" /\ e.port = Guards!DefaultPort(e.scheme)
<1> DEFINE entries == {e \in Guards!ResolveLimits(k).allow : e.form # "junk"}
           list == Guards!CompileAllowlist(Guards!ResolveLimits(k).allow)
<1>1. list = {[host |-> e.host, port |-> Guards!PortOf(e)] : e \in entries}
  BY DEF Guards!CompileAllowlist, Guards!Names
<1>2. ASSUME entries # {}
      PROVE  \E e \in entries : /\ e.host = url.host
                                /\ \/ Guards!PortOf(e) = Guards!NoPort
                                   \/ Guards!PortOf(e) = Guards!EffectivePort(url)
  <2>1. list # {}
    BY <1>1, <1>2
  <2>2. Guards!IsAllowed(list, url)
    BY <2>1 DEF Guards!Blocked
  <2>3. PICK x \in list : x.host = url.host /\ (x.port = Guards!NoPort \/ x.port = Guards!EffectivePort(url))
    BY <2>2 DEF Guards!IsAllowed
  <2>4. PICK e \in entries : x = [host |-> e.host, port |-> Guards!PortOf(e)]
    BY <1>1, <2>3
  <2> QED BY <2>3, <2>4
<1> HIDE DEF list, entries
<1>3. entries # {} => \E e \in entries :
               /\ e.host = url.host
               /\ \/ e.port \in {Guards!NoPort, Guards!EffectivePort(url)}
                  \/ e.form = "url" /\ e.port = Guards!DefaultPort(e.scheme)
  BY <1>2 DEF Guards!PortOf
<1> QED BY <1>3 DEF entries

LEMMA GuardsFollow == Guards!RgInv => Guards!GuardsHold
<1> SUFFICES ASSUME Guards!RgInv PROVE Guards!GuardsHold
  OBVIOUS
<1>1. \A i \in DOMAIN reqs : Guards!IsSound(reqs[i]) /\ reqs[i].under \in Guards!Runs \union {Guards!Native}
  BY RequestIs DEF Guards!RequestType, Guards!Owners
<1>2. Guards!AuditedOnce /\ Guards!BodiesAreCapped
  BY <1>1 DEF Guards!IsSound, Guards!AuditedOnce, Guards!BodiesAreCapped, Guards!Guarded
<1>3. Guards!EgressIsListed
  <2> SUFFICES ASSUME NEW i \in DOMAIN reqs, Guards!Guarded(i), reqs[i].at # "blocked"
               PROVE  LET entries == {e \in Guards!ResolveLimits(reqs[i].under).allow : e.form # "junk"}
                      IN  entries # {} => \E e \in entries :
                            /\ e.host = reqs[i].url.host
                            /\ \/ e.port \in {Guards!NoPort, Guards!EffectivePort(reqs[i].url)}
                               \/ e.form = "url" /\ e.port = Guards!DefaultPort(e.scheme)
    BY DEF Guards!EgressIsListed
  <2>1. ~Guards!Blocked(reqs[i].under, reqs[i].url) /\ reqs[i].under \in Guards!Runs
    BY <1>1 DEF Guards!IsSound, Guards!Guarded
  <2> QED BY <2>1, ListedIs
<1> QED BY <1>2, <1>3 DEF Guards!GuardsHold, Guards!RgInv

-----------------------------------------------------------------------------

\* Behind a runner and its host (session.ts, transport.ts, invocation.ex) and the
\* guardrails of index.ts: an invocation is answered by one result, no reply settles
\* the call of another, no session ends in a protocol error that was not provoked, and
\* a caller that is told "ok" has its writes, once; each request of a handler is audited
\* at most once and goes to a listed host, bodies and logs stay within their bounds, and
\* the globals are the process's own between invocations.
THEOREM SessionWordKept == SumSpec => []SessionKeepsWord
<1> DEFINE SumInv == (part = "session" => SessionInv) /\ (part = "guards" => Guards!RgInv)
<1>1. SumInit => SumInv
  BY SessionStarts, GuardsStart DEF SumInit
<1>2. SumInv /\ [SumNext]_allVars => SumInv'
  <2> SUFFICES ASSUME SumInv, [SumNext]_allVars PROVE SumInv'
    OBVIOUS
  <2>1. CASE UNCHANGED allVars
    <3>1. part' = part /\ UNCHANGED fsVars /\ UNCHANGED guardVars
      BY <2>1 DEF allVars, sessionVars, fsVars
    <3> QED BY <3>1, SessionKeeps, GuardsKeep
  <2>2. CASE part = "session" /\ Next /\ part' = part
    BY <2>2, SessionKeeps
  <2>3. CASE part = "guards" /\ Guards!RgNext /\ part' = part
    BY <2>3, GuardsKeep
  <2>4. CASE part \in {"writes", "deploy"} /\ part' = part
    BY <2>4
  <2> HIDE DEF SumInv
  <2> QED BY <2>1, <2>2, <2>3, <2>4 DEF SumNext
<1>3. SumInv => SessionKeepsWord
  BY GuardsFollow DEF SessionInv, SessionKeepsWord, SessionHolds, OneResult, FsTypeOK
<1> QED BY <1>1, <1>2, <1>3, PTL DEF SumSpec

-----------------------------------------------------------------------------
(* Least and greatest numbers *)

LEMMA LeastNat ==
  ASSUME NEW S \in SUBSET Nat, S # {}
  PROVE  \E m \in S : \A n \in S : m <= n
<1> DEFINE LT == {ss \in Nat \X Nat : ss[1] < ss[2]}
<1>1. OpToRel(<, Nat) = LT
  BY Zenon DEF OpToRel
<1>2. IsWellFoundedOn(LT, Nat)
  BY <1>1, NatLessThanWellFounded, Zenon
<1>3. PICK m \in S : \A y \in S : ~(<<y, m>> \in LT)
  <2> HIDE DEF LT
  <2> QED BY <1>2, WFMin
<1>4. ASSUME NEW n \in S, n < m PROVE FALSE
  <2>1. <<n, m>> \in Nat \X Nat /\ <<n, m>>[1] < <<n, m>>[2]
    BY <1>4
  <2>2. <<n, m>> \in LT
    BY <2>1
  <2> QED BY <1>3, <2>2, Zenon
<1> QED BY <1>4

LEMMA LowestIs ==
  ASSUME NEW S \in SUBSET Nat, S # {}
  PROVE  Deploy!Min(S) \in S
BY LeastNat DEF Deploy!Min

LEMMA GreatestIs ==
  ASSUME NEW n \in Nat, NEW S \in SUBSET Nat, S # {}, \A v \in S : v < n
  PROVE  Deploy!Max(S) \in S
<1> DEFINE gaps == {n - v : v \in S}
<1>0. \A v \in S : n - v \in Nat
  OBVIOUS
<1>1. gaps \in SUBSET Nat /\ gaps # {}
  BY <1>0, Zenon
<1>2. PICK g \in gaps : \A k \in gaps : g <= k
  BY <1>1, LeastNat
<1>3. PICK v \in S : g = n - v
  BY <1>2
<1>4. \A w \in S : n - v <= n - w
  BY <1>2, <1>3
<1>5. \A w \in S : w <= v
  BY <1>4
<1> QED BY <1>5 DEF Deploy!Max

-----------------------------------------------------------------------------
(* Deploys: the version table of one function *)

RowType ==
  [hash : Good, status : {"active", "retired", "disabled"}, prev : Nat, pinned : BOOLEAN,
   served : BOOLEAN]

\* Versions below n were issued; one row is active, and a pointer leads to a row that served.
TableOk(table, n) ==
  /\ n \in Nat \ {0}
  /\ \A v \in DOMAIN table :
       /\ v \in Nat \ {0} /\ v < n
       /\ table[v] \in RowType /\ table[v].prev < n
       /\ table[v].status = "active" => table[v].served
       /\ ~table[v].served => table[v].prev = Deploy!NoVersion
       /\ table[v].prev \in DOMAIN table => table[table[v].prev].served
  /\ \A v, w \in Deploy!Active(table) : v = w

\* The pointers descend.
Descends(table, rank) ==
  /\ rank \in [DOMAIN table -> Nat]
  /\ \A v \in DOMAIN table : table[v].prev \in DOMAIN table => rank[table[v].prev] < rank[v]
Ranked(table) == \E rank : Descends(table, rank)

\* What a step on a table leaves of it: no version changes its hash or comes back.
Follows(t2, n2, table, n) ==
  /\ TableOk(t2, n2) /\ n <= n2
  /\ \A v \in DOMAIN t2 : v < n => v \in DOMAIN table /\ t2[v].hash = table[v].hash

\* A new row, which nothing points to yet, and some rows pruned.
Added(t2, table, n, hash) ==
  /\ \A v \in DOMAIN t2 : v = n \/ (v \in DOMAIN table /\ t2[v] = table[v])
  /\ \A v \in Deploy!Active(table) : v \in DOMAIN t2
  /\ n \in DOMAIN t2 => /\ t2[n] \in RowType /\ t2[n].status = "retired" /\ t2[n].prev = 0
                        /\ ~t2[n].served /\ t2[n].hash = hash

LEMMA PutIs ==
  ASSUME NEW table, NEW n, TableOk(table, n), NEW hash \in Good, NEW pinned \in BOOLEAN,
         NEW new, new = [hash |-> hash, status |-> "retired", prev |-> Deploy!NoVersion,
                         pinned |-> pinned, served |-> FALSE],
         NEW more, more = [v \in DOMAIN table \union {n} |-> IF v = n THEN new ELSE table[v]],
         NEW t2, t2 = Deploy!Pruned(more)
  PROVE  Added(t2, table, n, hash)
<1>1. /\ DOMAIN t2 \subseteq DOMAIN more /\ \A v \in DOMAIN t2 : t2[v] = more[v]
      /\ \A v \in DOMAIN more : more[v].status = "active" => v \in DOMAIN t2
  BY DEF Deploy!Pruned
<1>2. /\ DOMAIN more = DOMAIN table \union {n} /\ n \notin DOMAIN table /\ more[n] = new
      /\ \A v \in DOMAIN table : more[v] = table[v]
  BY DEF TableOk
<1>3. new \in RowType /\ new.status = "retired" /\ new.prev = 0 /\ ~new.served /\ new.hash = hash
  BY DEF RowType, Deploy!NoVersion
<1>4. n \in DOMAIN t2 => t2[n] = new
  BY <1>1, <1>2
<1>5. \A v \in DOMAIN t2 : v = n \/ (v \in DOMAIN table /\ t2[v] = table[v])
  BY <1>1, <1>2
<1>6. \A v \in Deploy!Active(table) : v \in DOMAIN t2
  BY <1>1, <1>2 DEF Deploy!Active
<1> QED BY <1>3, <1>4, <1>5, <1>6, Zenon DEF Added

LEMMA AddedIs ==
  ASSUME NEW table, NEW n, TableOk(table, n), NEW hash, NEW t2, Added(t2, table, n, hash)
  PROVE  /\ Follows(t2, n + 1, table, n) /\ (Ranked(table) => Ranked(t2))
         /\ \A v \in Deploy!Active(table) : v \in Deploy!Active(t2) /\ t2[v].hash = table[v].hash
         /\ n \in DOMAIN t2 => t2[n].hash = hash
<1>1. /\ n \in Nat \ {0}
      /\ \A v \in DOMAIN table : v \in Nat \ {0} /\ v < n /\ table[v].prev \in Nat /\ table[v].prev < n
  BY DEF TableOk, RowType
<1>2. \A v \in DOMAIN t2 : v = n \/ (v \in DOMAIN table /\ t2[v] = table[v] /\ v < n)
  BY <1>1 DEF Added
<1>3. n \in DOMAIN t2 => /\ t2[n] \in RowType /\ t2[n].status = "retired" /\ t2[n].prev = 0
                        /\ ~t2[n].served /\ t2[n].hash = hash
  BY DEF Added
<1>4. \A v \in Deploy!Active(table) : v \in Deploy!Active(t2) /\ t2[v] = table[v]
  BY <1>1, <1>2 DEF Added, Deploy!Active
<1>5. \A v \in Deploy!Active(t2) : v \in Deploy!Active(table)
  BY <1>2, <1>3 DEF Deploy!Active
<1>6. ASSUME NEW v \in DOMAIN t2, t2[v].prev \in DOMAIN t2
      PROVE  /\ v \in DOMAIN table /\ t2[v] = table[v] /\ v < n
             /\ table[v].prev \in DOMAIN table /\ t2[table[v].prev] = table[table[v].prev]
             /\ table[v].prev < n
  <2>1. v # n
    BY <1>1, <1>2, <1>3, <1>6
  <2>2. v \in DOMAIN table /\ t2[v] = table[v] /\ v < n
    BY <1>2, <2>1
  <2>3. table[v].prev # n /\ table[v].prev \in DOMAIN t2 /\ table[v].prev < n
    BY <1>1, <1>6, <2>2
  <2> QED BY <1>2, <2>2, <2>3
<1>7. TableOk(t2, n + 1)
  <2>1. n + 1 \in Nat \ {0} /\ \A v \in DOMAIN t2 : v \in Nat \ {0} /\ v < n + 1
    BY <1>1, <1>2
  <2>2. ASSUME NEW v \in DOMAIN t2
        PROVE  /\ t2[v] \in RowType /\ t2[v].prev < n + 1
               /\ t2[v].status = "active" => t2[v].served
               /\ ~t2[v].served => t2[v].prev = Deploy!NoVersion
    BY <1>1, <1>2, <1>3 DEF TableOk, Deploy!NoVersion
  <2>3. \A v \in DOMAIN t2 : t2[v].prev \in DOMAIN t2 => t2[t2[v].prev].served
    BY <1>6 DEF TableOk
  <2>4. \A v, w \in Deploy!Active(t2) : v = w
    BY <1>5 DEF TableOk
  <2> QED BY <2>1, <2>2, <2>3, <2>4, Zenon DEF TableOk
<1>8. ASSUME NEW rank, Descends(table, rank) PROVE Ranked(t2)
  <2>1. PICK r2 : r2 = [v \in DOMAIN t2 |-> IF v = n THEN 0 ELSE rank[v]]
    OBVIOUS
  <2>2. r2 \in [DOMAIN t2 -> Nat] /\ \A v \in DOMAIN t2 : v < n => r2[v] = rank[v]
    BY <1>1, <1>2, <1>8, <2>1 DEF Descends
  <2>3. ASSUME NEW v \in DOMAIN t2, t2[v].prev \in DOMAIN t2 PROVE r2[t2[v].prev] < r2[v]
    <3>1. rank[table[v].prev] < rank[v]
      BY <1>6, <1>8, <2>3 DEF Descends
    <3> QED BY <1>6, <2>2, <2>3, <3>1
  <2> QED BY <2>2, <2>3, Zenon DEF Descends, Ranked
<1>9. \A v \in DOMAIN t2 : v < n => v \in DOMAIN table /\ t2[v].hash = table[v].hash
  BY <1>1, <1>2
<1>10. Follows(t2, n + 1, table, n)
  BY <1>1, <1>7, <1>9 DEF Follows
<1> QED BY <1>3, <1>4, <1>8, <1>10 DEF Ranked

Promoted(row, prev) == [row EXCEPT !.status = "active", !.prev = prev, !.served = TRUE]

LEMMA PromotedIs ==
  ASSUME NEW row \in RowType, NEW prev \in Nat
  PROVE  /\ Promoted(row, prev) \in RowType /\ Promoted(row, prev).status = "active"
         /\ Promoted(row, prev).prev = prev /\ Promoted(row, prev).served
         /\ Promoted(row, prev).hash = row.hash
BY DEF RowType, Promoted

LEMMA SwitchIs ==
  ASSUME NEW table, NEW n, TableOk(table, n), NEW target \in DOMAIN table, NEW prev \in Nat, prev < n,
         prev \in DOMAIN table => table[prev].served,
         NEW t2, t2 = Deploy!Switched(table, target, prev)
  PROVE  /\ Follows(t2, n, table, n) /\ DOMAIN t2 = DOMAIN table
         /\ Deploy!Active(t2) = {target} /\ t2[target].prev = prev /\ t2[target].hash = table[target].hash
         /\ \A v \in DOMAIN table \ {target} : t2[v].prev = table[v].prev
<1>1. /\ DOMAIN t2 = DOMAIN table
      /\ t2[target] = Promoted(table[target], prev)
      /\ \A v \in DOMAIN table \ {target} :
           t2[v] = IF table[v].status = "active" THEN [table[v] EXCEPT !.status = "retired"] ELSE table[v]
  BY DEF Deploy!Switched, Promoted
<1>2. /\ t2[target] \in RowType /\ t2[target].status = "active" /\ t2[target].prev = prev
      /\ t2[target].served /\ t2[target].hash = table[target].hash
  <2>1. table[target] \in RowType
    BY DEF TableOk
  <2> QED BY <1>1, <2>1, PromotedIs
<1>3. ASSUME NEW v \in DOMAIN table \ {target}
      PROVE  /\ t2[v] \in RowType /\ t2[v].prev = table[v].prev /\ t2[v].served = table[v].served
             /\ t2[v].hash = table[v].hash /\ t2[v].status # "active"
  BY <1>1 DEF TableOk, RowType
<1>4. Deploy!Active(t2) = {target}
  BY <1>1, <1>2, <1>3 DEF Deploy!Active
<1>5. \A v \in DOMAIN table : table[v].served => t2[v].served
  BY <1>2, <1>3
<1>6. n \in Nat \ {0} /\ \A v \in DOMAIN t2 : v \in Nat \ {0} /\ v < n
  BY <1>1 DEF TableOk
<1>7. ASSUME NEW v \in DOMAIN t2
      PROVE  /\ t2[v] \in RowType /\ t2[v].prev < n
             /\ t2[v].status = "active" => t2[v].served
             /\ ~t2[v].served => t2[v].prev = Deploy!NoVersion
             /\ t2[v].prev \in DOMAIN t2 => t2[t2[v].prev].served
  <2>1. CASE v = target
    BY <1>1, <1>2, <1>5, <2>1
  <2>2. CASE v # target
    <3>1. v \in DOMAIN table \ {target} /\ t2[v].prev = table[v].prev
      BY <1>1, <1>3, <2>2
    <3>2. /\ table[v].prev < n /\ (~table[v].served => table[v].prev = Deploy!NoVersion)
          /\ table[v].prev \in DOMAIN table => table[table[v].prev].served
      BY <3>1 DEF TableOk
    <3> QED BY <1>1, <1>3, <1>5, <3>1, <3>2
  <2> QED BY <2>1, <2>2
<1>8. TableOk(t2, n)
  BY <1>4, <1>6, <1>7, Zenon DEF TableOk
<1>9. \A v \in DOMAIN t2 : t2[v].hash = table[v].hash
  BY <1>1, <1>2, <1>3
<1>10. Follows(t2, n, table, n)
  BY <1>1, <1>6, <1>8, <1>9 DEF Follows
<1> QED BY <1>1, <1>2, <1>3, <1>4, <1>10

\* A version that never served is not pointed to, so its pointer may lead anywhere.
LEMMA ActivatedIs ==
  ASSUME NEW table, NEW n, TableOk(table, n), NEW target \in DOMAIN table,
         NEW t2, t2 = Deploy!Activated(table, target)
  PROVE  /\ Follows(t2, n, table, n) /\ Deploy!Active(t2) = {target} /\ t2[target].hash = table[target].hash
         /\ Ranked(table) /\ ~(table[target].served /\ table[target].status # "active") => Ranked(t2)
<1> DEFINE others == Deploy!Active(table) \ {target}
<1>1. PICK prev : prev = IF others = {} THEN table[target].prev ELSE CHOOSE v \in others : TRUE
  OBVIOUS
<1>2. t2 = Deploy!Switched(table, target, prev)
  BY <1>1 DEF Deploy!Activated
<1>3. others # {} => prev \in others
  BY <1>1
<1>4. prev \in Nat /\ prev < n /\ (prev \in DOMAIN table => table[prev].served)
  <2>1. CASE others = {}
    BY <1>1, <2>1 DEF TableOk, RowType
  <2>2. CASE others # {}
    BY <1>3, <2>2 DEF TableOk, Deploy!Active
  <2> QED BY <2>1, <2>2
<1>5. /\ Follows(t2, n, table, n) /\ DOMAIN t2 = DOMAIN table
      /\ Deploy!Active(t2) = {target} /\ t2[target].prev = prev /\ t2[target].hash = table[target].hash
      /\ \A v \in DOMAIN table \ {target} : t2[v].prev = table[v].prev
  BY <1>2, <1>4, SwitchIs
<1>6. ASSUME NEW rank, Descends(table, rank), ~table[target].served \/ table[target].status = "active"
      PROVE  Ranked(t2)
  <2>1. CASE others = {}
    <3>1. prev = table[target].prev
      BY <1>1, <2>1
    <3>2. Descends(t2, rank)
      BY <1>5, <1>6, <3>1 DEF Descends
    <3> QED BY <3>2 DEF Ranked
  <2>2. CASE others # {}
    <3>1. prev \in DOMAIN table /\ prev # target /\ prev \in Deploy!Active(table)
      BY <1>3, <2>2 DEF Deploy!Active
    <3>2. ~table[target].served
      BY <1>6, <3>1 DEF TableOk, Deploy!Active
    <3>3. \A v \in DOMAIN table : table[v].prev # target
      BY <3>2 DEF TableOk
    <3>4. PICK r2 : r2 = [rank EXCEPT ![target] = rank[prev] + 1]
      OBVIOUS
    <3>5. /\ r2 \in [DOMAIN table -> Nat] /\ r2[target] = rank[prev] + 1 /\ rank[prev] \in Nat
          /\ \A v \in DOMAIN table \ {target} : r2[v] = rank[v]
      BY <1>6, <3>1, <3>4 DEF Descends
    <3>6. ASSUME NEW v \in DOMAIN table, t2[v].prev \in DOMAIN table PROVE r2[t2[v].prev] < r2[v]
      <4>1. CASE v = target
        BY <1>5, <3>1, <3>5, <4>1
      <4>2. CASE v # target
        <5>1. t2[v].prev = table[v].prev /\ table[v].prev # target
          BY <1>5, <3>3, <4>2
        <5>2. rank[table[v].prev] < rank[v]
          BY <1>6, <3>6, <5>1 DEF Descends
        <5> QED BY <3>5, <3>6, <4>2, <5>1, <5>2
      <4> QED BY <4>1, <4>2
    <3> QED BY <1>5, <3>5, <3>6 DEF Descends, Ranked
  <2> QED BY <2>1, <2>2
<1> QED BY <1>5, <1>6 DEF Ranked

LEMMA RolledBackIs ==
  ASSUME NEW table, NEW n, TableOk(table, n), NEW target \in Deploy!RollbackTargets(table),
         NEW t2, t2 = Deploy!RolledBack(table, target)
  PROVE  Follows(t2, n, table, n) /\ (Ranked(table) => Ranked(t2))
<1>1. target \in DOMAIN table /\ t2 = Deploy!Switched(table, target, table[target].prev)
  BY DEF Deploy!RollbackTargets, Deploy!RolledBack
<1>2. /\ Follows(t2, n, table, n) /\ DOMAIN t2 = DOMAIN table
      /\ \A v \in DOMAIN table : t2[v].prev = table[v].prev
  <2>1. /\ table[target].prev \in Nat /\ table[target].prev < n
        /\ table[target].prev \in DOMAIN table => table[table[target].prev].served
    BY <1>1 DEF TableOk, RowType
  <2> QED BY <1>1, <2>1, SwitchIs
<1> QED BY <1>2 DEF Ranked, Descends

LEMMA DisabledIs ==
  ASSUME NEW table, NEW n, TableOk(table, n),
         NEW t2, t2 = [v \in DOMAIN table |-> IF v \in Deploy!Active(table)
                         THEN [table[v] EXCEPT !.status = "disabled"] ELSE table[v]]
  PROVE  Follows(t2, n, table, n) /\ (Ranked(table) => Ranked(t2))
<1>1. /\ DOMAIN t2 = DOMAIN table
      /\ \A v \in DOMAIN table :
           /\ t2[v] \in RowType /\ t2[v].prev = table[v].prev /\ t2[v].served = table[v].served
           /\ t2[v].hash = table[v].hash /\ t2[v].status # "active"
  BY DEF TableOk, RowType, Deploy!Active
<1>2. Deploy!Active(t2) = {}
  BY <1>1 DEF Deploy!Active
<1>3. TableOk(t2, n)
  BY <1>1, <1>2 DEF TableOk
<1> QED BY <1>1, <1>3 DEF Follows, Ranked, Descends, TableOk

\* Pointers that descend leave every set of rows: the lowest of them points out of it.
LEMMA RankedWalks ==
  ASSUME NEW table, NEW n, TableOk(table, n), Ranked(table)
  PROVE  Deploy!WalksBack(table)
<1>1. PICK rank : Descends(table, rank)
  BY DEF Ranked
<1>2. SUFFICES ASSUME NEW around \in SUBSET DOMAIN table, around # {},
                      \A v \in around : table[v].prev \in around
               PROVE  FALSE
  BY Zenon DEF Deploy!WalksBack
<1>3. {rank[v] : v \in around} \in SUBSET Nat /\ {rank[v] : v \in around} # {}
  BY <1>1, <1>2 DEF Descends
<1>4. PICK m \in {rank[v] : v \in around} : \A k \in {rank[v] : v \in around} : m <= k
  BY <1>3, LeastNat
<1>5. PICK v \in around : m = rank[v]
  BY <1>4
<1>6. rank[table[v].prev] < rank[v] /\ rank[v] <= rank[table[v].prev]
  BY <1>1, <1>2, <1>4, <1>5 DEF Descends
<1>7. rank[v] \in Nat /\ rank[table[v].prev] \in Nat
  BY <1>1, <1>2 DEF Descends
<1> QED BY <1>6, <1>7
-----------------------------------------------------------------------------
(* Deploys: the inductive invariant *)

PassType ==
  [step : {"idle", "read", "list", "upload", "activate", "types", "map"}, todo : SUBSET Files,
   hash : Good \union {"none"}, target : Nat, same : BOOLEAN, opts : Deploy!Options,
   found : SUBSET Files]

\* A pass at work on an entry has its hash, and the version it will activate, if it is not
\* pruned by then, has that hash too.
PassOk(p, tables, ids) ==
  /\ p \in PassType
  /\ p.todo = {} <=> p.step \in {"idle", "types", "map"}
  /\ p.step \in {"list", "upload", "activate"} => p.hash \in Good
  /\ p.step = "activate" =>
       /\ ~p.same /\ p.target < ids[Deploy!NextEntry(p)]
       /\ p.target \in DOMAIN tables[Deploy!NextEntry(p)] =>
            tables[Deploy!NextEntry(p)][p.target].hash = p.hash

TablesInv ==
  /\ DOMAIN rows = Files /\ DOMAIN nextId = Files
  /\ \A f \in Files : TableOk(rows[f], nextId[f]) /\ (f \notin again => Ranked(rows[f]))

PassesInv ==
  /\ DOMAIN pass = Deploy!Deployers
  /\ \A d \in Deploy!Deployers : PassOk(pass[d], rows, nextId)
  /\ pass["watcher"].opts = Deploy!Plain

FilesInv == DOMAIN disk = Files /\ pending \subseteq Files /\ queue \in Seq(SUBSET Files)

\* A file that is not served as it is waits for a batch or is in the watcher's hands, and
\* what the watcher is at work on it has as the file is, or will do again.
Serves(f) == \E v \in Deploy!Active(rows[f]) : rows[f][v].hash = disk[f]
Queued(f) == f \in pending \/ \E i \in 1..Len(queue) : f \in queue[i]
AtWork(p, f) == p.step \in {"list", "upload", "activate"} /\ f = Deploy!NextEntry(p)
Cared(f, p) ==
  /\ disk[f] \in Good => Serves(f) \/ Queued(f) \/ f \in p.todo
  /\ AtWork(p, f) => p.hash = disk[f] \/ Queued(f)
CoverInv == watch # "closed" => \A f \in Files \ excused : Cared(f, pass["watcher"])

\* ... and so does a map that does not name the entries there are.
Moving == pending # {} \/ queue # <<>>
MapInv ==
  watch = "open" =>
    /\ types = Deploy!Present \/ unmapped \/ Moving \/ pass["watcher"].step # "idle"
    /\ pass["watcher"].step = "map" => pass["watcher"].found = Deploy!Present \/ Moving

DeployInv ==
  TablesInv /\ PassesInv /\ FilesInv /\ CoverInv /\ MapInv /\ Deploy!NothingUndone

-----------------------------------------------------------------------------
(* Passes *)

LEMMA EntryIs ==
  ASSUME NEW p, p \in PassType, p.todo # {}
  PROVE  Deploy!NextEntry(p) \in p.todo /\ Deploy!NextEntry(p) \in Files
<1>1. p.todo \in SUBSET Files /\ p.todo \in SUBSET Nat
  BY DeployAssumption DEF PassType
<1> QED BY <1>1, LowestIs DEF Deploy!NextEntry

LEMMA PassFollows ==
  ASSUME NEW tables, NEW ids, NEW t2s, NEW n2s, NEW p, PassOk(p, tables, ids),
         \A f \in Files : Follows(t2s[f], n2s[f], tables[f], ids[f]),
         \A f \in Files : ids[f] \in Nat /\ n2s[f] \in Nat
  PROVE  PassOk(p, t2s, n2s)
<1>1. ASSUME p.step = "activate"
      PROVE  /\ p.target < n2s[Deploy!NextEntry(p)]
             /\ p.target \in DOMAIN t2s[Deploy!NextEntry(p)] =>
                  t2s[Deploy!NextEntry(p)][p.target].hash = p.hash
  <2>1. p \in PassType /\ p.todo # {} /\ p.target \in Nat
    BY <1>1 DEF PassOk, PassType
  <2>2. PICK f : f = Deploy!NextEntry(p)
    OBVIOUS
  <2>3. f \in Files
    BY <2>1, <2>2, EntryIs
  <2>4. p.target < ids[f] /\ (p.target \in DOMAIN tables[f] => tables[f][p.target].hash = p.hash)
    BY <1>1, <2>2 DEF PassOk
  <2>5. ids[f] <= n2s[f] /\ ids[f] \in Nat /\ n2s[f] \in Nat
    BY <2>3 DEF Follows
  <2>6. p.target \in DOMAIN t2s[f] =>
          p.target \in DOMAIN tables[f] /\ t2s[f][p.target].hash = tables[f][p.target].hash
    BY <2>3, <2>4 DEF Follows
  <2> QED BY <2>1, <2>2, <2>4, <2>5, <2>6
<1> QED BY <1>1 DEF PassOk

LEMMA StartedIs ==
  ASSUME NEW chosen \in SUBSET Files, NEW opts \in Deploy!Options, NEW tables, NEW ids,
         NEW p, p = Deploy!Started(chosen, opts)
  PROVE  /\ PassOk(p, tables, ids) /\ p.opts = opts /\ p.todo = chosen
         /\ p.step \in {"types", "read"}
<1>1. /\ p.step = (IF chosen = {} THEN "types" ELSE "read") /\ p.todo = chosen /\ p.opts = opts
      /\ p \in PassType
  BY DEF Deploy!Started, Deploy!Idle, Deploy!NoVersion, PassType
<1> QED BY <1>1 DEF PassOk

LEMMA EndedIs ==
  ASSUME NEW tables, NEW ids,
         NEW p, p \in {Deploy!Idle, [Deploy!Idle EXCEPT !.step = "types"]}
  PROVE  PassOk(p, tables, ids) /\ p.opts = Deploy!Plain /\ p.todo = {} /\ p.step \in {"idle", "types"}
<1>1. /\ p.step \in {"idle", "types"} /\ p.todo = {} /\ p.opts = Deploy!Plain /\ p.hash = "none"
      /\ p.target = 0 /\ p.same = FALSE /\ p.found = {}
      /\ p = [step |-> p.step, todo |-> {}, hash |-> "none", target |-> 0, same |-> FALSE,
              opts |-> Deploy!Plain, found |-> {}]
  BY DEF Deploy!Idle, Deploy!NoVersion
<1>2. Deploy!Plain \in Deploy!Options
  BY DEF Deploy!Options
<1>3. PICK st \in {"idle", "types"} : st = p.step
  BY <1>1
<1>4. [step |-> st, todo |-> {}, hash |-> "none", target |-> 0, same |-> FALSE,
       opts |-> Deploy!Plain, found |-> {}] \in PassType
  BY <1>2 DEF PassType
<1>5. p \in PassType
  BY <1>1, <1>3, <1>4, Zenon
<1> QED BY <1>1, <1>5 DEF PassOk

LEMMA ServedIs ==
  ASSUME NEW tables, NEW ids, NEW q, PassOk(q, tables, ids), q.todo # {},
         NEW p, p = Deploy!Served(q)
  PROVE  /\ PassOk(p, tables, ids) /\ p.opts = q.opts /\ p.todo = q.todo \ {Deploy!NextEntry(q)}
         /\ p.step \in {"types", "read"}
<1>1. PICK left : left = q.todo \ {Deploy!NextEntry(q)}
  OBVIOUS
<1>2. PICK st \in {"types", "read"} : st = IF left = {} THEN "types" ELSE "read"
  OBVIOUS
<1>3. q \in PassType /\ left \in SUBSET Files
  BY <1>1 DEF PassOk, PassType
<1>4. p = [q EXCEPT !.step = st, !.todo = left, !.hash = "none", !.target = 0, !.same = FALSE]
  BY <1>1, <1>2 DEF Deploy!Served, Deploy!NoVersion
<1>5. p.step = st /\ p.todo = left /\ p.opts = q.opts
  BY <1>3, <1>4 DEF PassType
<1>6. p = [step |-> st, todo |-> left, hash |-> "none", target |-> 0, same |-> FALSE,
           opts |-> q.opts, found |-> q.found]
  BY <1>3, <1>4 DEF PassType
<1>7. q.opts \in Deploy!Options /\ q.found \in SUBSET Files
  BY <1>3 DEF PassType
<1>8. p \in PassType
  BY <1>2, <1>3, <1>6, <1>7 DEF PassType
<1> QED BY <1>1, <1>2, <1>5, <1>8 DEF PassOk
-----------------------------------------------------------------------------
(* The steps *)

LEMMA TablesFollow ==
  ASSUME TablesInv, NEW f \in Files, NEW t2, NEW n2, Follows(t2, n2, rows[f], nextId[f]),
         DOMAIN rows' = Files, rows'[f] = t2, \A g \in Files \ {f} : rows'[g] = rows[g],
         DOMAIN nextId' = Files, nextId'[f] = n2, \A g \in Files \ {f} : nextId'[g] = nextId[g],
         again \subseteq again', f \in again' \/ (Ranked(rows[f]) => Ranked(t2))
  PROVE  TablesInv' /\ \A p : PassOk(p, rows, nextId) => PassOk(p, rows', nextId')
<1>1. \A g \in Files : TableOk(rows[g], nextId[g]) /\ (g \notin again => Ranked(rows[g]))
  BY DEF TablesInv
<1>2. ASSUME NEW g \in Files
      PROVE  /\ Follows(rows'[g], nextId'[g], rows[g], nextId[g])
             /\ g \notin again' => Ranked(rows'[g])
             /\ nextId[g] \in Nat /\ nextId'[g] \in Nat
  <2>1. CASE g = f
    BY <1>1, <2>1 DEF Follows, TableOk
  <2>2. CASE g # f
    <3>1. rows'[g] = rows[g] /\ nextId'[g] = nextId[g] /\ TableOk(rows[g], nextId[g])
      BY <1>1, <2>2
    <3>2. nextId[g] \in Nat
      BY <3>1 DEF TableOk
    <3> QED BY <1>1, <3>1, <3>2 DEF Follows
  <2> QED BY <2>1, <2>2
<1>3. TablesInv'
  BY <1>2 DEF TablesInv, Follows
<1>4. ASSUME NEW p, PassOk(p, rows, nextId) PROVE PassOk(p, rows', nextId')
  BY <1>2, <1>4, PassFollows
<1> QED BY <1>3, <1>4

LEMMA OperatorKeeps ==
  ASSUME DeployInv, NEW f \in Files, NEW t2, Follows(t2, nextId[f], rows[f], nextId[f]),
         rows' = [rows EXCEPT ![f] = t2], Deploy!OperatorUnchanged(f),
         again \subseteq again', f \in again' \/ (Ranked(rows[f]) => Ranked(t2))
  PROVE  DeployInv'
<1>1. /\ excused' = excused \union {f}
      /\ UNCHANGED <<disk, nextId, pass, watch, pending, queue, types, unmapped, undone>>
  BY DEF Deploy!OperatorUnchanged
<1>2. /\ DOMAIN rows' = Files /\ rows'[f] = t2 /\ \A g \in Files \ {f} : rows'[g] = rows[g]
      /\ DOMAIN nextId' = Files
  BY <1>1 DEF DeployInv, TablesInv
<1>3. TablesInv' /\ \A p : PassOk(p, rows, nextId) => PassOk(p, rows', nextId')
  <2>1. TablesInv
    BY DEF DeployInv
  <2> QED BY <1>1, <1>2, <2>1, TablesFollow
<1>4. PassesInv'
  BY <1>1, <1>3 DEF DeployInv, PassesInv
<1>5. FilesInv' /\ MapInv' /\ Deploy!NothingUndone'
  BY <1>1 DEF DeployInv, FilesInv, MapInv, Moving, Deploy!Present, Deploy!NothingUndone
<1>6. ASSUME watch' # "closed", NEW g \in Files \ excused'
      PROVE  Cared(g, pass["watcher"])'
  <2>1. g # f /\ Cared(g, pass["watcher"])
    BY <1>1, <1>6 DEF DeployInv, CoverInv
  <2> QED BY <1>1, <1>2, <2>1 DEF Cared, Serves, Queued
<1> QED BY <1>3, <1>4, <1>5, <1>6 DEF DeployInv, CoverInv

LEMMA ActivateCommandKeeps ==
  ASSUME DeployInv, NEW f \in Files, Deploy!ActivateCommand(f)
  PROVE  DeployInv'
<1>1. PICK target \in DOMAIN rows[f] : Deploy!ActivateIn(f, target)
  BY DEF Deploy!ActivateCommand
<1>2. PICK t2 : t2 = Deploy!Activated(rows[f], target)
  OBVIOUS
<1>3. /\ rows' = [rows EXCEPT ![f] = t2]
      /\ again' = IF rows[f][target].served /\ rows[f][target].status # "active"
                  THEN again \union {f} ELSE again
  BY <1>1, <1>2 DEF Deploy!ActivateIn
<1>4. TableOk(rows[f], nextId[f])
  BY DEF DeployInv, TablesInv
<1>5. /\ Follows(t2, nextId[f], rows[f], nextId[f])
      /\ Ranked(rows[f]) /\ ~(rows[f][target].served /\ rows[f][target].status # "active") => Ranked(t2)
  BY <1>2, <1>4, ActivatedIs
<1>6. Deploy!OperatorUnchanged(f)
  BY DEF Deploy!ActivateCommand
<1>7. again \subseteq again' /\ (f \in again' \/ (Ranked(rows[f]) => Ranked(t2)))
  BY <1>3, <1>5
<1> QED BY <1>3, <1>5, <1>6, <1>7, OperatorKeeps

LEMMA RollbackCommandKeeps ==
  ASSUME DeployInv, NEW f \in Files, Deploy!RollbackCommand(f)
  PROVE  DeployInv'
<1>1. PICK target \in Deploy!RollbackTargets(rows[f]) :
        rows' = [rows EXCEPT ![f] = Deploy!RolledBack(rows[f], target)]
  BY DEF Deploy!RollbackCommand
<1>2. PICK t2 : t2 = Deploy!RolledBack(rows[f], target)
  OBVIOUS
<1>3. TableOk(rows[f], nextId[f])
  BY DEF DeployInv, TablesInv
<1>4. Follows(t2, nextId[f], rows[f], nextId[f]) /\ (Ranked(rows[f]) => Ranked(t2))
  BY <1>2, <1>3, RolledBackIs
<1>5. Deploy!OperatorUnchanged(f) /\ again' = again
  BY DEF Deploy!RollbackCommand
<1> QED BY <1>1, <1>2, <1>4, <1>5, OperatorKeeps

LEMMA DisableCommandKeeps ==
  ASSUME DeployInv, NEW f \in Files, Deploy!DisableCommand(f)
  PROVE  DeployInv'
<1>1. PICK t2 : t2 = [v \in DOMAIN rows[f] |-> IF v \in Deploy!Active(rows[f])
                        THEN [rows[f][v] EXCEPT !.status = "disabled"] ELSE rows[f][v]]
  OBVIOUS
<1>2. TableOk(rows[f], nextId[f])
  BY DEF DeployInv, TablesInv
<1>3. Follows(t2, nextId[f], rows[f], nextId[f]) /\ (Ranked(rows[f]) => Ranked(t2))
  BY <1>1, <1>2, DisabledIs
<1>4. Deploy!OperatorUnchanged(f) /\ again' = again /\ rows' = [rows EXCEPT ![f] = t2]
  BY <1>1 DEF Deploy!DisableCommand
<1> QED BY <1>3, <1>4, OperatorKeeps

LEMMA EditKeeps ==
  ASSUME DeployInv, NEW f \in Files, NEW content, Deploy!Edit(f, content)
  PROVE  DeployInv'
<1>1. /\ disk' = [disk EXCEPT ![f] = content]
      /\ pending' = IF watch = "open" THEN pending \union {f} ELSE pending
      /\ excused' = IF watch = "open" THEN excused ELSE excused \union {f}
      /\ UNCHANGED <<rows, nextId, pass, watch, queue, types, unmapped, again, undone>>
  BY DEF Deploy!Edit
<1>2. DOMAIN disk' = Files /\ \A g \in Files \ {f} : disk'[g] = disk[g]
  BY <1>1 DEF DeployInv, FilesInv
<1>3. TablesInv' /\ PassesInv' /\ Deploy!NothingUndone'
  BY <1>1 DEF DeployInv, TablesInv, PassesInv, Deploy!NothingUndone
<1>4. FilesInv'
  BY <1>1, <1>2 DEF DeployInv, FilesInv
<1>5. watch' = "open" => Moving'
  BY <1>1 DEF Moving
<1>6. MapInv'
  BY <1>5 DEF MapInv
<1>7. ASSUME watch' # "closed", NEW g \in Files \ excused'
      PROVE  Cared(g, pass["watcher"])'
  <2>1. CASE g = f
    BY <1>1, <1>7, <2>1 DEF Cared, Queued
  <2>2. CASE g # f
    <3>1. Cared(g, pass["watcher"])
      BY <1>1, <1>7 DEF DeployInv, CoverInv
    <3>2. Queued(g) => Queued(g)'
      BY <1>1 DEF Queued
    <3> QED BY <1>1, <1>2, <2>2, <3>1, <3>2 DEF Cared, Serves
  <2> QED BY <2>1, <2>2
<1> QED BY <1>3, <1>4, <1>6, <1>7 DEF DeployInv, CoverInv

LEMMA DebounceKeeps ==
  ASSUME DeployInv, Deploy!DebounceFires
  PROVE  DeployInv'
<1>1. /\ queue' = Append(queue, pending) /\ pending' = {}
      /\ UNCHANGED <<disk, rows, nextId, pass, watch, types, excused, unmapped, again, undone>>
  BY DEF Deploy!DebounceFires
<1>2. queue \in Seq(SUBSET Files) /\ pending \in SUBSET Files
  BY DEF DeployInv, FilesInv
<1>3. /\ queue' \in Seq(SUBSET Files) /\ Len(queue') = Len(queue) + 1 /\ queue' # <<>>
      /\ queue'[Len(queue) + 1] = pending /\ Len(queue) \in Nat
      /\ \A i \in 1..Len(queue) : queue'[i] = queue[i]
  BY <1>1, <1>2
<1>4. TablesInv' /\ PassesInv' /\ FilesInv' /\ Deploy!NothingUndone'
  BY <1>1, <1>3 DEF DeployInv, TablesInv, PassesInv, FilesInv, Deploy!NothingUndone
<1>5. MapInv'
  BY <1>3 DEF MapInv, Moving
<1>6. ASSUME watch' # "closed", NEW g \in Files \ excused'
      PROVE  Cared(g, pass["watcher"])'
  <2>1. Cared(g, pass["watcher"])
    BY <1>1, <1>6 DEF DeployInv, CoverInv
  <2>2. 1..Len(queue) \subseteq 1..Len(queue') /\ Len(queue) + 1 \in 1..Len(queue')
    BY <1>3
  <2>3. Queued(g) => Queued(g)'
    BY <1>3, <2>2 DEF Queued
  <2> QED BY <1>1, <2>1, <2>3 DEF Cared, Serves
<1> QED BY <1>4, <1>5, <1>6 DEF DeployInv, CoverInv

LEMMA CloseKeeps ==
  ASSUME DeployInv, Deploy!CloseWatcher
  PROVE  DeployInv'
<1>1. /\ watch' = "closed" /\ pending' = {}
      /\ UNCHANGED <<disk, rows, nextId, pass, queue, types, excused, unmapped, again, undone>>
  BY DEF Deploy!CloseWatcher
<1>2. TablesInv' /\ PassesInv' /\ FilesInv' /\ Deploy!NothingUndone'
  BY <1>1 DEF DeployInv, TablesInv, PassesInv, FilesInv, Deploy!NothingUndone
<1> QED BY <1>1, <1>2 DEF DeployInv, CoverInv, MapInv

LEMMA DeployCommandKeeps ==
  ASSUME DeployInv, NEW opts \in Deploy!Options, Deploy!DeployCommand(opts)
  PROVE  DeployInv'
<1>1. PICK p : p = Deploy!Started(Deploy!Present, opts)
  OBVIOUS
<1>2. /\ pass' = [pass EXCEPT !["cli"] = p]
      /\ UNCHANGED <<disk, rows, nextId, watch, pending, queue, types, excused, unmapped, again, undone>>
  BY <1>1 DEF Deploy!DeployCommand
<1>3. PassOk(p, rows, nextId)
  BY <1>1, StartedIs DEF Deploy!Present
<1>4. /\ DOMAIN pass' = Deploy!Deployers /\ pass'["cli"] = p
      /\ \A d \in Deploy!Deployers \ {"cli"} : pass'[d] = pass[d]
      /\ pass'["watcher"] = pass["watcher"]
  BY <1>2 DEF DeployInv, PassesInv, Deploy!Deployers
<1>5. PassesInv'
  BY <1>2, <1>3, <1>4 DEF DeployInv, PassesInv
<1>6. TablesInv' /\ FilesInv' /\ Deploy!NothingUndone'
  BY <1>2 DEF DeployInv, TablesInv, FilesInv, Deploy!NothingUndone
<1>7. CoverInv'
  BY <1>2, <1>4 DEF DeployInv, CoverInv, Cared, Serves, Queued
<1>8. MapInv'
  BY <1>2, <1>4 DEF DeployInv, MapInv, Moving, Deploy!Present
<1> QED BY <1>5, <1>6, <1>7, <1>8 DEF DeployInv

\* What a step of a pass leaves of the passes.
LEMMA PassesFollow ==
  ASSUME PassesInv, NEW d \in Deploy!Deployers, NEW p, pass' = [pass EXCEPT ![d] = p],
         PassOk(p, rows', nextId'), \A q : PassOk(q, rows, nextId) => PassOk(q, rows', nextId'),
         p.opts = pass[d].opts
  PROVE  /\ PassesInv' /\ pass'[d] = p /\ \A e \in Deploy!Deployers \ {d} : pass'[e] = pass[e]
         /\ d = "cli" => pass'["watcher"] = pass["watcher"]
<1>1. "watcher" \in Deploy!Deployers
  BY DEF Deploy!Deployers
<1>2. /\ DOMAIN pass' = Deploy!Deployers /\ pass'[d] = p
      /\ \A e \in Deploy!Deployers \ {d} : pass'[e] = pass[e]
  BY DEF PassesInv
<1>3. pass'["watcher"].opts = pass["watcher"].opts
  BY <1>1, <1>2
<1> QED BY <1>1, <1>2, <1>3 DEF PassesInv

\* Only the watcher's passes matter to what is cared for and to the map.
LEMMA CliKeeps ==
  ASSUME DeployInv, pass'["watcher"] = pass["watcher"],
         UNCHANGED <<disk, rows, watch, pending, queue, types, excused, unmapped>>
  PROVE  CoverInv' /\ MapInv' /\ (nextId' = nextId /\ again' = again => TablesInv') /\ FilesInv'
<1>1. CoverInv'
  BY DEF DeployInv, CoverInv, Cared, Serves, Queued
<1>2. MapInv'
  BY DEF DeployInv, MapInv, Moving, Deploy!Present
<1>3. FilesInv' /\ (nextId' = nextId /\ again' = again => TablesInv')
  BY DEF DeployInv, FilesInv, TablesInv
<1> QED BY <1>1, <1>2, <1>3

LEMMA NextBatchKeeps ==
  ASSUME DeployInv, Deploy!NextBatch
  PROVE  DeployInv'
<1>1. PICK p : p = Deploy!Started(Head(queue) \intersect Deploy!Present, Deploy!Plain)
  OBVIOUS
<1>2. /\ pass["watcher"].step = "idle" /\ queue # <<>>
      /\ pass' = [pass EXCEPT !["watcher"] = p] /\ queue' = Tail(queue)
      /\ UNCHANGED <<disk, rows, nextId, watch, pending, types, excused, unmapped, again, undone>>
  BY <1>1 DEF Deploy!NextBatch
<1>3. queue \in Seq(SUBSET Files) /\ DOMAIN disk = Files
  BY DEF DeployInv, FilesInv
<1>4. /\ queue' \in Seq(SUBSET Files) /\ Head(queue) = queue[1] /\ Len(queue) \in Nat \ {0}
      /\ Len(queue') = Len(queue) - 1 /\ \A i \in 1..Len(queue) - 1 : queue'[i] = queue[i + 1]
  BY <1>2, <1>3
<1>5. Head(queue) \intersect Deploy!Present \in SUBSET Files /\ Deploy!Plain \in Deploy!Options
  BY DEF Deploy!Present, Deploy!Options
<1>6. /\ PassOk(p, rows, nextId) /\ p.opts = Deploy!Plain /\ p.step \in {"types", "read"}
      /\ p.todo = Head(queue) \intersect Deploy!Present
  BY <1>1, <1>5, StartedIs
<1>7. PassesInv' /\ pass'["watcher"] = p
  <2>1. "watcher" \in Deploy!Deployers /\ PassesInv /\ pass["watcher"].opts = Deploy!Plain
    BY DEF DeployInv, PassesInv, Deploy!Deployers
  <2> QED BY <1>2, <1>6, <2>1, PassesFollow
<1>8. TablesInv' /\ FilesInv' /\ Deploy!NothingUndone'
  BY <1>2, <1>4 DEF DeployInv, TablesInv, FilesInv, Deploy!NothingUndone
<1>9. MapInv'
  BY <1>6, <1>7 DEF MapInv
<1>10. ASSUME watch' # "closed", NEW g \in Files \ excused'
       PROVE  Cared(g, pass["watcher"])'
  <2>1. Cared(g, pass["watcher"])
    BY <1>2, <1>10 DEF DeployInv, CoverInv
  <2>2. pass["watcher"].todo = {}
    BY <1>2 DEF DeployInv, PassesInv, PassOk, Deploy!Deployers
  <2>3. ASSUME Queued(g), disk[g] \in Good PROVE Queued(g)' \/ g \in p.todo
    <3>1. CASE g \in pending
      BY <1>2, <3>1 DEF Queued
    <3>2. ASSUME NEW i \in 1..Len(queue), g \in queue[i] PROVE Queued(g)' \/ g \in p.todo
      <4>1. CASE i = 1
        BY <1>4, <1>6, <2>3, <3>2, <4>1, DeployAssumption DEF Deploy!Present
      <4>2. CASE i # 1
        <5>1. i - 1 \in 1..Len(queue') /\ i - 1 \in 1..Len(queue) - 1 /\ (i - 1) + 1 = i
          BY <1>4, <3>2, <4>2
        <5>2. queue'[i - 1] = queue[i]
          BY <1>4, <5>1
        <5> QED BY <3>2, <5>1, <5>2 DEF Queued
      <4> QED BY <4>1, <4>2
    <3> QED BY <2>3, <3>1, <3>2 DEF Queued
  <2>4. Serves(g)' = Serves(g) /\ disk'[g] = disk[g]
    BY <1>2 DEF Serves
  <2>5. ~AtWork(p, g)
    BY <1>6 DEF AtWork
  <2> QED BY <1>7, <2>1, <2>2, <2>3, <2>4, <2>5 DEF Cared, AtWork
<1> QED BY <1>7, <1>8, <1>9, <1>10 DEF DeployInv, CoverInv

LEMMA PrepareKeeps ==
  ASSUME DeployInv, NEW d \in Deploy!Deployers, Deploy!Prepare(d)
  PROVE  DeployInv'
<1>1. PICK q, f, st : /\ q = pass[d] /\ f = Deploy!NextEntry(q)
                      /\ st = IF q.opts.force \/ q.opts.keep THEN "upload" ELSE "list"
  OBVIOUS
<1>2. PICK p : p = [q EXCEPT !.step = st, !.hash = disk[f]]
  OBVIOUS
<1>3. /\ q.step = "read" /\ disk[f] \in Good
      /\ pass' = [pass EXCEPT ![d].step = st, ![d].hash = disk[f]]
      /\ excused' = IF d = "watcher" THEN excused \ {f} ELSE excused
      /\ UNCHANGED <<disk, rows, nextId, watch, pending, queue, types, unmapped, again, undone>>
  BY <1>1 DEF Deploy!Prepare
<1>4. PassesInv /\ PassOk(q, rows, nextId)
  BY <1>1 DEF DeployInv, PassesInv
<1>5. pass' = [pass EXCEPT ![d] = p]
  BY <1>1, <1>2, <1>3, <1>4 DEF PassesInv
<1>6. q \in PassType /\ q.todo # {} /\ st \in {"upload", "list"}
  BY <1>1, <1>3, <1>4 DEF PassOk
<1>7. /\ p.step = st /\ p.hash = disk[f] /\ p.todo = q.todo /\ p.opts = q.opts
      /\ Deploy!NextEntry(p) = f /\ p \in PassType
  <2>1. p.step = st /\ p.hash = disk[f] /\ p.todo = q.todo /\ p.opts = q.opts
    BY <1>2, <1>6 DEF PassType
  <2>2. p \in PassType
    BY <1>2, <1>3, <1>6 DEF PassType
  <2> QED BY <1>1, <2>1, <2>2 DEF Deploy!NextEntry
<1>8. PassOk(p, rows, nextId)
  BY <1>3, <1>6, <1>7 DEF PassOk
<1>9. /\ PassesInv' /\ pass'[d] = p /\ (d = "cli" => pass'["watcher"] = pass["watcher"])
  BY <1>1, <1>3, <1>4, <1>5, <1>7, <1>8, PassesFollow
<1>10. TablesInv' /\ FilesInv' /\ Deploy!NothingUndone'
  BY <1>3 DEF DeployInv, TablesInv, FilesInv, Deploy!NothingUndone
<1>11. CASE d = "cli"
  <2>1. CoverInv' /\ MapInv'
    BY <1>3, <1>9, <1>11, CliKeeps
  <2> QED BY <1>9, <1>10, <2>1 DEF DeployInv
<1>12. CASE d = "watcher"
  <2>1. MapInv'
    BY <1>6, <1>7, <1>9, <1>12 DEF MapInv
  <2>2. ASSUME watch' # "closed", NEW g \in Files \ excused'
        PROVE  Cared(g, pass["watcher"])'
    <3>1. CASE g = f
      <4>1. f \in q.todo
        BY <1>1, <1>6, EntryIs
      <4> QED BY <1>3, <1>7, <1>9, <1>12, <3>1, <4>1 DEF Cared
    <3>2. CASE g # f
      <4>1. Cared(g, q)
        BY <1>1, <1>3, <1>12, <2>2, <3>2 DEF DeployInv, CoverInv
      <4>2. ~AtWork(p, g)
        BY <1>7, <3>2 DEF AtWork
      <4> QED BY <1>3, <1>7, <1>9, <1>12, <4>1, <4>2 DEF Cared, Serves, Queued, AtWork
    <3> QED BY <3>1, <3>2
  <2> QED BY <1>9, <1>10, <2>1, <2>2 DEF DeployInv, CoverInv
<1> QED BY <1>11, <1>12 DEF Deploy!Deployers

LEMMA FailPassKeeps ==
  ASSUME DeployInv, NEW d \in Deploy!Deployers, Deploy!FailPass(d)
  PROVE  DeployInv'
<1>1. PICK q : q = IF d = "watcher" THEN [Deploy!Idle EXCEPT !.step = "types"] ELSE Deploy!Idle
  OBVIOUS
<1>2. /\ pass' = [pass EXCEPT ![d] = q]
      /\ excused' = IF d = "watcher" THEN excused \union pass[d].todo ELSE excused
      /\ UNCHANGED <<disk, rows, nextId, watch, pending, queue, types, unmapped, again, undone>>
  BY <1>1 DEF Deploy!FailPass
<1>3. PassOk(q, rows, nextId) /\ q.opts = Deploy!Plain /\ q.todo = {} /\ q.step \in {"idle", "types"}
  BY <1>1, EndedIs
<1>4. d = "watcher" => q.step = "types"
  BY <1>1 DEF Deploy!Idle
<1>5. PassesInv
  BY DEF DeployInv
<1>6. /\ DOMAIN pass' = Deploy!Deployers /\ pass'[d] = q /\ "watcher" \in Deploy!Deployers
      /\ \A e \in Deploy!Deployers \ {d} : pass'[e] = pass[e]
  BY <1>2, <1>5 DEF PassesInv, Deploy!Deployers
<1>7. PassesInv' /\ (d = "cli" => pass'["watcher"] = pass["watcher"])
  BY <1>2, <1>3, <1>5, <1>6 DEF PassesInv
<1>8. TablesInv' /\ FilesInv' /\ Deploy!NothingUndone'
  BY <1>2 DEF DeployInv, TablesInv, FilesInv, Deploy!NothingUndone
<1>9. CASE d = "cli"
  <2>1. CoverInv' /\ MapInv'
    BY <1>2, <1>7, <1>9, CliKeeps
  <2> QED BY <1>7, <1>8, <2>1 DEF DeployInv
<1>10. CASE d = "watcher"
  <2>1. MapInv'
    BY <1>4, <1>6, <1>10 DEF MapInv
  <2>2. ASSUME watch' # "closed", NEW g \in Files \ excused'
        PROVE  Cared(g, pass["watcher"])'
    <3>1. Cared(g, pass["watcher"]) /\ g \notin pass["watcher"].todo
      BY <1>2, <1>10, <2>2 DEF DeployInv, CoverInv
    <3>2. ~AtWork(q, g)
      BY <1>3 DEF AtWork
    <3> QED BY <1>2, <1>6, <1>10, <3>1, <3>2 DEF Cared, Serves, Queued, AtWork
  <2> QED BY <1>7, <1>8, <2>1, <2>2 DEF DeployInv, CoverInv
<1> QED BY <1>9, <1>10 DEF Deploy!Deployers

\* The version to reuse has the hash, and it is active if one with that hash is.
LEMMA MatchingIs ==
  ASSUME NEW table, NEW n, TableOk(table, n), NEW hash,
         NEW reuse, reuse = Deploy!MatchingVersion(table, hash)
  PROVE  /\ reuse = Deploy!NoVersion => \A v \in DOMAIN table : table[v].hash # hash
         /\ reuse # Deploy!NoVersion =>
              /\ reuse \in DOMAIN table /\ table[reuse].hash = hash /\ reuse \in Nat /\ reuse < n
              /\ (\E v \in Deploy!Active(table) : table[v].hash = hash) => table[reuse].status = "active"
<1> DEFINE matches == {v \in DOMAIN table : table[v].hash = hash}
           active == matches \intersect Deploy!Active(table)
<1>1. reuse = IF matches = {} THEN Deploy!NoVersion
              ELSE IF active # {} THEN CHOOSE v \in active : TRUE ELSE Deploy!Max(matches)
  BY DEF Deploy!MatchingVersion
<1>2. n \in Nat \ {0} /\ \A v \in DOMAIN table : v \in Nat \ {0} /\ v < n
  BY DEF TableOk
<1>3. CASE matches = {}
  BY <1>1, <1>3
<1>4. CASE matches # {}
  <2>1. matches \in SUBSET Nat /\ \A v \in matches : v < n
    BY <1>2
  <2>2. reuse \in matches /\ (active # {} => reuse \in active)
    <3>1. CASE active # {}
      BY <1>1, <1>4, <3>1
    <3>2. CASE active = {}
      <4>1. Deploy!Max(matches) \in matches
        BY <1>2, <1>4, <2>1, GreatestIs
      <4> QED BY <1>1, <1>4, <3>2, <4>1
    <3> QED BY <3>1, <3>2
  <2>3. reuse \in DOMAIN table /\ table[reuse].hash = hash
    BY <2>2
  <2>4. ASSUME NEW v \in Deploy!Active(table), table[v].hash = hash PROVE table[reuse].status = "active"
    <3>1. v \in active
      BY <2>4 DEF Deploy!Active
    <3> QED BY <2>2, <3>1 DEF Deploy!Active
  <2> QED BY <1>2, <2>3, <2>4 DEF Deploy!NoVersion
<1> QED BY <1>3, <1>4

LEMMA FindEntriesKeeps ==
  ASSUME DeployInv, NEW d \in Deploy!Deployers, Deploy!FindEntries(d)
  PROVE  DeployInv'
<1>1. PICK q, p : q = pass[d] /\ p = [q EXCEPT !.step = "map", !.found = Deploy!Present]
  OBVIOUS
<1>2. PassesInv /\ PassOk(q, rows, nextId)
  BY <1>1 DEF DeployInv, PassesInv
<1>3. /\ q.step = "types" /\ pass' = [pass EXCEPT ![d] = p]
      /\ UNCHANGED <<disk, rows, nextId, watch, pending, queue, types, excused, unmapped, again, undone>>
  BY <1>1, <1>2 DEF Deploy!FindEntries, PassesInv
<1>4. q \in PassType /\ q.todo = {} /\ Deploy!Present \in SUBSET Files
  BY <1>2, <1>3 DEF PassOk, Deploy!Present
<1>5. p.step = "map" /\ p.found = Deploy!Present /\ p.todo = {} /\ p.opts = q.opts /\ p \in PassType
  BY <1>1, <1>4 DEF PassType
<1>6. PassOk(p, rows', nextId')
  BY <1>5 DEF PassOk
<1>7. PassesInv' /\ pass'[d] = p /\ (d = "cli" => pass'["watcher"] = pass["watcher"])
  BY <1>1, <1>2, <1>3, <1>5, <1>6, PassesFollow
<1>8. TablesInv' /\ FilesInv' /\ Deploy!NothingUndone'
  BY <1>3 DEF DeployInv, TablesInv, FilesInv, Deploy!NothingUndone
<1>9. CASE d = "cli"
  <2>1. CoverInv' /\ MapInv'
    BY <1>3, <1>7, <1>9, CliKeeps
  <2> QED BY <1>7, <1>8, <2>1 DEF DeployInv
<1>10. CASE d = "watcher"
  <2>1. MapInv'
    BY <1>3, <1>5, <1>7, <1>10 DEF MapInv, Deploy!Present
  <2>2. CoverInv'
    BY <1>1, <1>3, <1>4, <1>5, <1>7, <1>10 DEF DeployInv, CoverInv, Cared, Serves, Queued, AtWork
  <2> QED BY <1>7, <1>8, <2>1, <2>2 DEF DeployInv
<1> QED BY <1>9, <1>10 DEF Deploy!Deployers

LEMMA WriteMapKeeps ==
  ASSUME DeployInv, NEW d \in Deploy!Deployers, Deploy!WriteMap(d)
  PROVE  DeployInv'
<1>1. /\ pass[d].step = "map" /\ types' = pass[d].found /\ pass' = [pass EXCEPT ![d] = Deploy!Idle]
      /\ watch' = IF d = "watcher" /\ watch = "starting" THEN "open" ELSE watch
      /\ unmapped' = (pass[d].found # Deploy!Present /\ (d = "cli" \/ watch # "open"))
      /\ UNCHANGED <<disk, rows, nextId, pending, queue, excused, again, undone>>
  BY DEF Deploy!WriteMap
<1>2. PassesInv
  BY DEF DeployInv
<1>3. /\ PassOk(Deploy!Idle, rows, nextId) /\ Deploy!Idle.opts = Deploy!Plain
      /\ Deploy!Idle.todo = {} /\ Deploy!Idle.step = "idle"
  BY EndedIs DEF Deploy!Idle
<1>4. /\ DOMAIN pass' = Deploy!Deployers /\ pass'[d] = Deploy!Idle /\ "watcher" \in Deploy!Deployers
      /\ \A e \in Deploy!Deployers \ {d} : pass'[e] = pass[e]
  BY <1>1, <1>2 DEF PassesInv, Deploy!Deployers
<1>5. PassesInv' /\ (d = "cli" => pass'["watcher"] = pass["watcher"])
  BY <1>1, <1>2, <1>3, <1>4 DEF PassesInv
<1>6. TablesInv' /\ FilesInv' /\ Deploy!NothingUndone'
  BY <1>1 DEF DeployInv, TablesInv, FilesInv, Deploy!NothingUndone
<1>7. pass[d].todo = {}
  BY <1>1, <1>2 DEF PassesInv, PassOk
<1>8. CoverInv'
  <2> SUFFICES ASSUME watch' # "closed", NEW g \in Files \ excused' PROVE Cared(g, pass["watcher"])'
    BY DEF CoverInv
  <2>1. Cared(g, pass["watcher"])
    BY <1>1 DEF DeployInv, CoverInv
  <2>2. Serves(g)' = Serves(g) /\ (Queued(g)' <=> Queued(g)) /\ disk'[g] = disk[g]
    BY <1>1 DEF Serves, Queued
  <2>3. CASE d = "cli"
    BY <1>1, <1>5, <2>1, <2>2, <2>3 DEF Cared
  <2>4. CASE d = "watcher"
    BY <1>3, <1>4, <1>7, <2>1, <2>2, <2>4 DEF Cared, AtWork
  <2> QED BY <2>3, <2>4 DEF Deploy!Deployers
<1>9. MapInv'
  <2>1. Deploy!Present' = Deploy!Present /\ (Moving' <=> Moving)
    BY <1>1 DEF Deploy!Present, Moving
  <2>2. CASE d = "cli"
    <3>1. watch' = watch /\ pass'["watcher"] = pass["watcher"]
      BY <1>1, <1>5, <2>2
    <3>2. types' = Deploy!Present \/ unmapped'
      BY <1>1, <2>2
    <3> QED BY <2>1, <3>1, <3>2 DEF DeployInv, MapInv
  <2>3. CASE d = "watcher"
    <3>1. watch' = "open" => types' = Deploy!Present \/ unmapped' \/ Moving
      BY <1>1, <2>3 DEF DeployInv, MapInv
    <3> QED BY <1>3, <1>4, <2>1, <2>3, <3>1 DEF MapInv
  <2> QED BY <2>2, <2>3 DEF Deploy!Deployers
<1> QED BY <1>5, <1>6, <1>8, <1>9 DEF DeployInv

\* A pass moves on at its entry f, or is done with it: then f, if cared for, is served.
LEMMA MovesOn ==
  ASSUME DeployInv, NEW q, q = pass["watcher"], NEW f, f = Deploy!NextEntry(q),
         q.step \in {"list", "upload", "activate"},
         NEW p, pass'["watcher"] = p,
         \/ AtWork(p, f) /\ p.todo = q.todo /\ p.hash = q.hash /\ Deploy!NextEntry(p) = f
         \/ p.todo = q.todo \ {f} /\ p.step \in {"types", "read"} /\ (q.hash = disk[f] => Serves(f)'),
         \A g \in Files : Serves(g) => Serves(g)' \/ (g = f /\ (q.hash = disk[f] => Serves(g)')),
         UNCHANGED <<disk, watch, pending, queue, types, excused, unmapped>>
  PROVE  CoverInv' /\ (p.step \notin {"idle", "map"} => MapInv')
<1>1. p.step \notin {"idle", "map"} => MapInv'
  BY DEF MapInv
<1>2. PassOk(q, rows, nextId)
  BY DEF DeployInv, PassesInv, Deploy!Deployers
<1>3. f \in q.todo
  BY <1>2, EntryIs DEF PassOk
<1>4. ASSUME watch' # "closed", NEW g \in Files \ excused'
      PROVE  Cared(g, pass["watcher"])'
  <2>1. Cared(g, q)
    BY <1>4 DEF DeployInv, CoverInv
  <2>2. (Queued(g)' <=> Queued(g)) /\ disk'[g] = disk[g]
    BY DEF Queued
  <2>3. CASE g = f
    <3>1. AtWork(q, f)
      BY DEF AtWork
    <3>2. q.hash = disk[f] \/ Queued(f)
      BY <2>1, <2>3, <3>1 DEF Cared
    <3> QED BY <1>3, <2>2, <2>3, <3>2 DEF Cared, AtWork
  <2>4. CASE g # f
    <3>1. Serves(g) => Serves(g)'
      BY <2>4
    <3>2. ~AtWork(p, g)
      BY <2>4 DEF AtWork
    <3>3. g \in q.todo => g \in p.todo
      BY <2>4
    <3> QED BY <2>1, <2>2, <3>1, <3>2, <3>3 DEF Cared, AtWork
  <2> QED BY <2>3, <2>4
<1> QED BY <1>1, <1>4 DEF CoverInv

LEMMA ListVersionsKeeps ==
  ASSUME DeployInv, NEW d \in Deploy!Deployers, Deploy!ListVersions(d)
  PROVE  DeployInv'
<1>1. PICK q, f, reuse, same :
        /\ q = pass[d] /\ f = Deploy!NextEntry(q) /\ reuse = Deploy!MatchingVersion(rows[f], q.hash)
        /\ same = \E v \in Deploy!Active(rows[f]) : rows[f][v].hash = q.hash
  OBVIOUS
<1>2. PICK at : at = [q EXCEPT !.target = reuse, !.same = same]
  OBVIOUS
<1>3. PICK p : p = IF reuse = Deploy!NoVersion THEN [at EXCEPT !.step = "upload"]
                   ELSE IF at.opts.activate /\ rows[f][reuse].status # "active"
                        THEN [at EXCEPT !.step = "activate"]
                   ELSE Deploy!Served(at)
  OBVIOUS
<1>4. /\ q.step = "list" /\ pass' = [pass EXCEPT ![d] = p]
      /\ UNCHANGED <<disk, rows, nextId, watch, pending, queue, types, excused, unmapped, again, undone>>
  BY <1>1, <1>2, <1>3 DEF Deploy!ListVersions
<1>5. PassesInv /\ PassOk(q, rows, nextId) /\ TablesInv
  BY <1>1 DEF DeployInv, PassesInv
<1>6. q \in PassType /\ q.todo # {} /\ q.hash \in Good
  BY <1>4, <1>5 DEF PassOk
<1>7. f \in q.todo /\ f \in Files
  BY <1>1, <1>6, EntryIs
<1>8. TableOk(rows[f], nextId[f])
  BY <1>5, <1>7 DEF TablesInv
<1>9. /\ reuse = Deploy!NoVersion => \A v \in DOMAIN rows[f] : rows[f][v].hash # q.hash
      /\ reuse # Deploy!NoVersion =>
           /\ reuse \in DOMAIN rows[f] /\ rows[f][reuse].hash = q.hash /\ reuse \in Nat /\ reuse < nextId[f]
           /\ same => rows[f][reuse].status = "active"
  BY <1>1, <1>8, MatchingIs
<1>10. reuse \in Nat /\ same \in BOOLEAN
  BY <1>1, <1>9 DEF Deploy!NoVersion
<1>11. /\ at \in PassType /\ at.step = q.step /\ at.todo = q.todo /\ at.hash = q.hash
       /\ at.opts = q.opts /\ Deploy!NextEntry(at) = f
  <2>1. /\ at.step = q.step /\ at.todo = q.todo /\ at.hash = q.hash /\ at.opts = q.opts
        /\ at = [step |-> q.step, todo |-> q.todo, hash |-> q.hash, target |-> reuse, same |-> same,
                opts |-> q.opts, found |-> q.found]
    BY <1>2, <1>6 DEF PassType
  <2>2. at \in PassType
    BY <1>6, <1>10, <2>1 DEF PassType
  <2> QED BY <1>1, <2>1, <2>2 DEF Deploy!NextEntry
<1>12. PassOk(at, rows, nextId)
  BY <1>4, <1>6, <1>11 DEF PassOk
<1>13. CASE p \in {[at EXCEPT !.step = "upload"], [at EXCEPT !.step = "activate"]}
  <2>1. PICK st \in {"upload", "activate"} : p = [at EXCEPT !.step = st]
    BY <1>13
  <2>2. /\ p.step = st /\ p.todo = q.todo /\ p.hash = q.hash /\ p.opts = q.opts
        /\ p.target = reuse /\ p.same = same /\ p \in PassType
    BY <1>2, <1>6, <1>10, <1>11, <2>1 DEF PassType
  <2>3. Deploy!NextEntry(p) = f
    BY <1>1, <2>2 DEF Deploy!NextEntry
  <2>4. st = "activate" => reuse # Deploy!NoVersion /\ rows[f][reuse].status # "active"
    BY <1>3, <1>4, <1>11, <2>1, <2>2 DEF Deploy!Served
  <2>5. PassOk(p, rows, nextId)
    BY <1>6, <1>9, <2>2, <2>3, <2>4 DEF PassOk
  <2>6. AtWork(p, f)
    BY <2>2, <2>3 DEF AtWork
  <2> QED
    <3>1. PassesInv' /\ pass'[d] = p /\ (d = "cli" => pass'["watcher"] = pass["watcher"])
      BY <1>1, <1>4, <1>5, <2>2, <2>5, PassesFollow
    <3>2. TablesInv' /\ FilesInv' /\ Deploy!NothingUndone'
      BY <1>4 DEF DeployInv, TablesInv, FilesInv, Deploy!NothingUndone
    <3>3. CASE d = "cli"
      BY <1>4, <3>1, <3>2, <3>3, CliKeeps DEF DeployInv
    <3>4. CASE d = "watcher"
      <4>1. \A g \in Files : Serves(g) => Serves(g)'
        BY <1>4 DEF Serves
      <4>2. CoverInv' /\ MapInv'
        BY <1>1, <1>4, <2>2, <2>3, <2>6, <3>1, <3>4, <4>1, MovesOn
      <4> QED BY <3>1, <3>2, <4>2 DEF DeployInv
    <3> QED BY <3>3, <3>4 DEF Deploy!Deployers
<1>14. CASE p \notin {[at EXCEPT !.step = "upload"], [at EXCEPT !.step = "activate"]}
  <2>1. /\ p = Deploy!Served(at) /\ reuse # Deploy!NoVersion
        /\ at.opts.activate => rows[f][reuse].status = "active"
    BY <1>3, <1>14
  <2>2. /\ PassOk(p, rows, nextId) /\ p.opts = q.opts /\ p.todo = q.todo \ {f} /\ p.step \in {"types", "read"}
    BY <1>6, <1>11, <1>12, <2>1, ServedIs
  <2>3. PassesInv' /\ pass'[d] = p /\ (d = "cli" => pass'["watcher"] = pass["watcher"])
    BY <1>1, <1>4, <1>5, <2>2, PassesFollow
  <2>4. TablesInv' /\ FilesInv' /\ Deploy!NothingUndone'
    BY <1>4 DEF DeployInv, TablesInv, FilesInv, Deploy!NothingUndone
  <2>5. CASE d = "cli"
    BY <1>4, <2>3, <2>4, <2>5, CliKeeps DEF DeployInv
  <2>6. CASE d = "watcher"
    <3>1. at.opts.activate
      BY <1>1, <1>5, <1>11, <2>6 DEF PassesInv, Deploy!Plain
    <3>2. q.hash = disk[f] => Serves(f)'
      BY <1>4, <1>9, <2>1, <3>1 DEF Serves, Deploy!Active
    <3>3. \A g \in Files : Serves(g) => Serves(g)'
      BY <1>4 DEF Serves
    <3>4. CoverInv' /\ MapInv'
      BY <1>1, <1>4, <2>2, <2>3, <2>6, <3>2, <3>3, MovesOn
    <3> QED BY <2>3, <2>4, <3>4 DEF DeployInv
  <2> QED BY <2>5, <2>6 DEF Deploy!Deployers
<1> QED BY <1>13, <1>14

LEMMA OptionsAre ==
  ASSUME NEW opts \in Deploy!Options
  PROVE  opts.keep \in BOOLEAN
<1>1. PICK plain : plain = [activate |-> TRUE, keep |-> FALSE, force |-> FALSE]
  OBVIOUS
<1>2. opts \in {plain, [plain EXCEPT !.activate = FALSE], [plain EXCEPT !.keep = TRUE], [plain EXCEPT !.force = TRUE]}
  BY <1>1 DEF Deploy!Options, Deploy!Plain
<1>3. plain.keep = FALSE /\ [plain EXCEPT !.activate = FALSE].keep = FALSE
  BY <1>1
<1>4. [plain EXCEPT !.keep = TRUE].keep = TRUE /\ [plain EXCEPT !.force = TRUE].keep = FALSE
  BY <1>1
<1> QED BY <1>2, <1>3, <1>4

LEMMA UploadVersionKeeps ==
  ASSUME DeployInv, NEW d \in Deploy!Deployers, Deploy!UploadVersion(d)
  PROVE  DeployInv'
<1>1. PICK q, f, n : q = pass[d] /\ f = Deploy!NextEntry(q) /\ n = nextId[f]
  OBVIOUS
<1>2. PICK at : at = [q EXCEPT !.target = n, !.same = FALSE]
  OBVIOUS
<1>3. PICK p : p = IF at.opts.activate THEN [at EXCEPT !.step = "activate"] ELSE Deploy!Served(at)
  OBVIOUS
<1>4. /\ q.step = "upload" /\ pass' = [pass EXCEPT ![d] = p] /\ Deploy!PutVersion(f, at.hash, at.opts.keep)
      /\ UNCHANGED <<disk, watch, pending, queue, types, excused, unmapped, again, undone>>
  BY <1>1, <1>2, <1>3 DEF Deploy!UploadVersion
<1>5. PassesInv /\ PassOk(q, rows, nextId) /\ TablesInv
  BY <1>1 DEF DeployInv, PassesInv
<1>6. q \in PassType /\ q.todo # {} /\ q.hash \in Good
  BY <1>4, <1>5 DEF PassOk
<1>7. f \in q.todo /\ f \in Files
  BY <1>1, <1>6, EntryIs
<1>8. TableOk(rows[f], n) /\ n \in Nat
  BY <1>1, <1>5, <1>7 DEF TablesInv, TableOk
<1>9. /\ at \in PassType /\ at.step = q.step /\ at.todo = q.todo /\ at.hash = q.hash
      /\ at.opts = q.opts /\ at.target = n /\ ~at.same /\ Deploy!NextEntry(at) = f
  <2>1. /\ at.step = q.step /\ at.todo = q.todo /\ at.hash = q.hash /\ at.opts = q.opts
        /\ at.target = n /\ ~at.same
        /\ at = [step |-> q.step, todo |-> q.todo, hash |-> q.hash, target |-> n, same |-> FALSE,
                opts |-> q.opts, found |-> q.found]
    BY <1>2, <1>6 DEF PassType
  <2>2. at \in PassType
    BY <1>6, <1>8, <2>1 DEF PassType
  <2> QED BY <1>1, <2>1, <2>2 DEF Deploy!NextEntry
<1>10. PICK t2 :
         /\ Added(t2, rows[f], n, q.hash)
         /\ rows' = [rows EXCEPT ![f] = t2] /\ nextId' = [nextId EXCEPT ![f] = n + 1]
  <2>1. PICK pinned \in BOOLEAN : pinned = at.opts.keep
    BY <1>6, <1>9, OptionsAre DEF PassType
  <2>2. PICK new : new = [hash |-> q.hash, status |-> "retired", prev |-> Deploy!NoVersion,
                          pinned |-> pinned, served |-> FALSE]
    OBVIOUS
  <2>3. PICK more : more = [v \in DOMAIN rows[f] \union {n} |-> IF v = n THEN new ELSE rows[f][v]]
    OBVIOUS
  <2>4. PICK t2 : t2 = Deploy!Pruned(more)
    OBVIOUS
  <2>5. rows' = [rows EXCEPT ![f] = t2] /\ nextId' = [nextId EXCEPT ![f] = n + 1]
    BY <1>1, <1>4, <1>9, <2>1, <2>2, <2>3, <2>4 DEF Deploy!PutVersion
  <2>6. Added(t2, rows[f], n, q.hash)
    BY <1>6, <1>8, <2>2, <2>3, <2>4, PutIs
  <2> QED BY <2>5, <2>6
<1>11. /\ Follows(t2, n + 1, rows[f], n) /\ (Ranked(rows[f]) => Ranked(t2))
       /\ \A v \in Deploy!Active(rows[f]) : v \in Deploy!Active(t2) /\ t2[v].hash = rows[f][v].hash
       /\ n \in DOMAIN t2 => t2[n].hash = q.hash
  BY <1>8, <1>10, AddedIs
<1>12. /\ DOMAIN rows' = Files /\ rows'[f] = t2 /\ \A g \in Files \ {f} : rows'[g] = rows[g]
       /\ DOMAIN nextId' = Files /\ nextId'[f] = n + 1 /\ \A g \in Files \ {f} : nextId'[g] = nextId[g]
  BY <1>5, <1>7, <1>10 DEF TablesInv
<1>13. TablesInv' /\ \A r : PassOk(r, rows, nextId) => PassOk(r, rows', nextId')
  BY <1>1, <1>4, <1>5, <1>7, <1>11, <1>12, TablesFollow
<1>14. PassOk(at, rows', nextId')
  BY <1>4, <1>6, <1>9 DEF PassOk
<1>15. /\ PassOk(p, rows', nextId') /\ p.opts = q.opts
       /\ \/ at.opts.activate /\ AtWork(p, f) /\ p.todo = q.todo /\ p.hash = q.hash /\ Deploy!NextEntry(p) = f
          \/ ~at.opts.activate /\ p.todo = q.todo \ {f} /\ p.step \in {"types", "read"}
  <2>1. CASE at.opts.activate
    <3>1. p = [at EXCEPT !.step = "activate"]
      BY <1>3, <2>1
    <3>2. /\ p.step = "activate" /\ p.todo = q.todo /\ p.hash = q.hash /\ p.opts = q.opts
          /\ p.target = n /\ ~p.same /\ p \in PassType
      BY <1>9, <3>1 DEF PassType
    <3>3. Deploy!NextEntry(p) = f
      BY <1>1, <3>2 DEF Deploy!NextEntry
    <3>4. n < nextId'[f] /\ (n \in DOMAIN rows'[f] => rows'[f][n].hash = q.hash)
      BY <1>8, <1>11, <1>12
    <3> QED BY <1>6, <2>1, <3>2, <3>3, <3>4 DEF PassOk, AtWork
  <2>2. CASE ~at.opts.activate
    <3>1. p = Deploy!Served(at)
      BY <1>3, <2>2
    <3>2. PassOk(p, rows', nextId') /\ p.opts = q.opts /\ p.todo = q.todo \ {f} /\ p.step \in {"types", "read"}
      BY <1>6, <1>9, <1>14, <3>1, ServedIs
    <3> QED BY <2>2, <3>2, Zenon
  <2> QED BY <2>1, <2>2
<1>16. PassesInv' /\ pass'[d] = p /\ (d = "cli" => pass'["watcher"] = pass["watcher"])
  BY <1>1, <1>4, <1>5, <1>13, <1>15, PassesFollow
<1>17. FilesInv' /\ Deploy!NothingUndone'
  BY <1>4 DEF DeployInv, FilesInv, Deploy!NothingUndone
<1>18. \A g \in Files : Serves(g) => Serves(g)'
  BY <1>4, <1>11, <1>12 DEF Serves
<1>19. CASE d = "cli"
  <2>1. CoverInv'
    <3> SUFFICES ASSUME watch' # "closed", NEW g \in Files \ excused' PROVE Cared(g, pass["watcher"])'
      BY DEF CoverInv
    <3>1. Cared(g, pass["watcher"])
      BY <1>4 DEF DeployInv, CoverInv
    <3> QED BY <1>4, <1>16, <1>18, <1>19, <3>1 DEF Cared, Queued
  <2>2. MapInv'
    BY <1>4, <1>16, <1>19 DEF DeployInv, MapInv, Moving, Deploy!Present
  <2> QED BY <1>13, <1>16, <1>17, <2>1, <2>2 DEF DeployInv
<1>20. CASE d = "watcher"
  <2>1. at.opts.activate
    BY <1>1, <1>5, <1>9, <1>20 DEF PassesInv, Deploy!Plain
  <2>2. AtWork(p, f) /\ p.todo = q.todo /\ p.hash = q.hash /\ Deploy!NextEntry(p) = f
    BY <1>15, <2>1
  <2>3. CoverInv' /\ MapInv'
    <3>1. p.step \notin {"idle", "map"}
      BY <2>2 DEF AtWork
    <3> QED BY <1>1, <1>4, <1>16, <1>18, <1>20, <2>2, <3>1, MovesOn
  <2> QED BY <1>13, <1>16, <1>17, <2>3 DEF DeployInv
<1> QED BY <1>19, <1>20 DEF Deploy!Deployers

LEMMA ActivateVersionKeeps ==
  ASSUME DeployInv, NEW d \in Deploy!Deployers, Deploy!ActivateVersion(d)
  PROVE  DeployInv'
<1>1. PICK q, f, p : q = pass[d] /\ f = Deploy!NextEntry(q) /\ p = Deploy!Served(q)
  OBVIOUS
<1>2. /\ q.step = "activate" /\ Deploy!ActivateIn(f, q.target) /\ pass' = [pass EXCEPT ![d] = p]
      /\ excused' = IF d = "cli" /\ q.hash # disk[f] THEN excused \union {f} ELSE excused
      /\ undone' = (undone \/ q.same)
      /\ UNCHANGED <<disk, nextId, watch, pending, queue, types, unmapped>>
  BY <1>1 DEF Deploy!ActivateVersion
<1>3. PassesInv /\ PassOk(q, rows, nextId) /\ TablesInv
  BY <1>1 DEF DeployInv, PassesInv
<1>4. q \in PassType /\ q.todo # {} /\ ~q.same
  BY <1>2, <1>3 DEF PassOk
<1>5. f \in q.todo /\ f \in Files
  BY <1>1, <1>4, EntryIs
<1>6. PICK t2 : t2 = Deploy!Activated(rows[f], q.target)
  OBVIOUS
<1>7. /\ q.target \in DOMAIN rows[f] /\ rows' = [rows EXCEPT ![f] = t2]
      /\ again' = IF rows[f][q.target].served /\ rows[f][q.target].status # "active"
                  THEN again \union {f} ELSE again
  BY <1>2, <1>6 DEF Deploy!ActivateIn
<1>8. rows[f][q.target].hash = q.hash
  BY <1>1, <1>2, <1>3, <1>7 DEF PassOk
<1>9. TableOk(rows[f], nextId[f])
  BY <1>3, <1>5 DEF TablesInv
<1>10. /\ Follows(t2, nextId[f], rows[f], nextId[f]) /\ Deploy!Active(t2) = {q.target}
       /\ t2[q.target].hash = rows[f][q.target].hash
       /\ Ranked(rows[f]) /\ ~(rows[f][q.target].served /\ rows[f][q.target].status # "active") => Ranked(t2)
  BY <1>6, <1>7, <1>9, ActivatedIs
<1>11. again \subseteq again' /\ (f \in again' \/ (Ranked(rows[f]) => Ranked(t2)))
  BY <1>7, <1>10
<1>12. /\ DOMAIN rows' = Files /\ rows'[f] = t2 /\ (\A g \in Files \ {f} : rows'[g] = rows[g])
       /\ DOMAIN nextId' = Files
  BY <1>2, <1>3, <1>5, <1>7 DEF TablesInv
<1>13. TablesInv' /\ \A r : PassOk(r, rows, nextId) => PassOk(r, rows', nextId')
  BY <1>2, <1>3, <1>5, <1>10, <1>11, <1>12, TablesFollow
<1>14. /\ PassOk(p, rows', nextId') /\ p.opts = q.opts /\ p.todo = q.todo \ {f}
       /\ p.step \in {"types", "read"}
  BY <1>1, <1>3, <1>4, <1>13, ServedIs
<1>15. PassesInv' /\ pass'[d] = p /\ (d = "cli" => pass'["watcher"] = pass["watcher"])
  BY <1>1, <1>2, <1>3, <1>13, <1>14, PassesFollow
<1>16. FilesInv' /\ Deploy!NothingUndone'
  BY <1>2, <1>4 DEF DeployInv, FilesInv, Deploy!NothingUndone
<1>17. q.hash = disk[f] => Serves(f)'
  BY <1>2, <1>8, <1>10, <1>12 DEF Serves
<1>18. \A g \in Files \ {f} : Serves(g) => Serves(g)'
  BY <1>2, <1>12 DEF Serves
<1>19. CASE d = "cli"
  <2>1. CoverInv'
    <3> SUFFICES ASSUME watch' # "closed", NEW g \in Files \ excused' PROVE Cared(g, pass["watcher"])'
      BY DEF CoverInv
    <3>1. Cared(g, pass["watcher"])
      BY <1>2 DEF DeployInv, CoverInv
    <3>2. Serves(g) => Serves(g)'
      BY <1>2, <1>17, <1>18, <1>19
    <3> QED BY <1>2, <1>15, <1>19, <3>1, <3>2 DEF Cared, Queued
  <2>2. MapInv'
    BY <1>2, <1>15, <1>19 DEF DeployInv, MapInv, Moving, Deploy!Present
  <2> QED BY <1>13, <1>15, <1>16, <2>1, <2>2 DEF DeployInv
<1>20. CASE d = "watcher"
  <2>1. CoverInv' /\ MapInv'
    <3>1. \A g \in Files : Serves(g) => Serves(g)' \/ (g = f /\ (q.hash = disk[f] => Serves(g)'))
      BY <1>17, <1>18
    <3>2. excused' = excused /\ pass'["watcher"] = p /\ q = pass["watcher"]
      BY <1>1, <1>2, <1>15, <1>20
    <3> QED BY <1>1, <1>2, <1>14, <1>17, <3>1, <3>2, MovesOn
  <2> QED BY <1>13, <1>15, <1>16, <2>1 DEF DeployInv
<1> QED BY <1>19, <1>20 DEF Deploy!Deployers

-----------------------------------------------------------------------------

LEMMA DeployBegins == Deploy!FdInit => DeployInv
<1> SUFFICES ASSUME Deploy!FdInit PROVE DeployInv
  OBVIOUS
<1>1. PICK none : none = <<>> /\ DOMAIN none = {}
  OBVIOUS
<1>2. TableOk(none, 1) /\ Ranked(none)
  <2>1. Deploy!Active(none) = {}
    BY <1>1 DEF Deploy!Active
  <2>2. none \in [DOMAIN none -> Nat]
    BY <1>1
  <2>3. TableOk(none, 1)
    BY <1>1, <2>1 DEF TableOk
  <2> QED BY <1>1, <2>2, <2>3 DEF Ranked, Descends
<1>3. TablesInv
  BY <1>1, <1>2 DEF Deploy!FdInit, TablesInv
<1>4. DOMAIN disk = Files
  BY DeployAssumption DEF Deploy!FdInit
<1>5. FilesInv
  BY <1>4 DEF Deploy!FdInit, FilesInv
<1>6. Deploy!Plain \in Deploy!Options /\ Deploy!Present \in SUBSET Files
  BY DEF Deploy!Options, Deploy!Present
<1>7. PICK q : q = Deploy!Started(Deploy!Present, Deploy!Plain)
  OBVIOUS
<1>8. PassOk(q, rows, nextId) /\ q.opts = Deploy!Plain
  BY <1>6, <1>7, StartedIs
<1>9. PassOk(Deploy!Idle, rows, nextId)
  BY EndedIs
<1>10. pass = [d \in Deploy!Deployers |-> IF d = "watcher" THEN q ELSE Deploy!Idle]
  BY <1>7 DEF Deploy!FdInit
<1>11. PassesInv
  BY <1>8, <1>9, <1>10 DEF PassesInv, Deploy!Deployers
<1>12. CoverInv /\ MapInv /\ Deploy!NothingUndone
  BY DEF Deploy!FdInit, CoverInv, MapInv, Deploy!NothingUndone
<1> QED BY <1>3, <1>5, <1>11, <1>12 DEF DeployInv

LEMMA DeployKeeps == DeployInv /\ [Deploy!FdNext]_(Deploy!fdVars) => DeployInv'
<1> SUFFICES ASSUME DeployInv, [Deploy!FdNext]_(Deploy!fdVars) PROVE DeployInv'
  OBVIOUS
<1>1. CASE UNCHANGED Deploy!fdVars
  <2>1. UNCHANGED <<disk, rows, nextId, pass, watch, pending, queue, types, excused, unmapped, again, undone>>
    BY <1>1 DEF Deploy!fdVars
  <2> QED BY <2>1 DEF DeployInv, TablesInv, PassesInv, FilesInv, CoverInv, Cared, Serves, Queued, MapInv,
                      Moving, Deploy!Present, Deploy!NothingUndone
<1>2. ASSUME NEW d \in Deploy!Deployers, Deploy!Step(d) PROVE DeployInv'
  <2>1. CASE Deploy!Prepare(d)
    BY <2>1, PrepareKeeps
  <2>2. CASE Deploy!PrepareFails(d) \/ Deploy!RequestFails(d) \/ Deploy!ActivateGone(d)
    BY <2>2, FailPassKeeps DEF Deploy!PrepareFails, Deploy!RequestFails, Deploy!ActivateGone
  <2>3. CASE Deploy!ListVersions(d)
    BY <2>3, ListVersionsKeeps
  <2>4. CASE Deploy!UploadVersion(d)
    BY <2>4, UploadVersionKeeps
  <2>5. CASE Deploy!ActivateVersion(d)
    BY <2>5, ActivateVersionKeeps
  <2>6. CASE Deploy!FindEntries(d)
    BY <2>6, FindEntriesKeeps
  <2>7. CASE Deploy!WriteMap(d)
    BY <2>7, WriteMapKeeps
  <2> QED BY <1>2, <2>1, <2>2, <2>3, <2>4, <2>5, <2>6, <2>7 DEF Deploy!Step
<1>3. ASSUME NEW opts \in Deploy!Options, Deploy!DeployCommand(opts) PROVE DeployInv'
  BY <1>3, DeployCommandKeeps
<1>4. CASE Deploy!NextBatch
  BY <1>4, NextBatchKeeps
<1>5. CASE Deploy!DebounceFires
  BY <1>5, DebounceKeeps
<1>6. CASE Deploy!CloseWatcher
  BY <1>6, CloseKeeps
<1>7. ASSUME NEW f \in Files, NEW content, Deploy!Edit(f, content) PROVE DeployInv'
  BY <1>7, EditKeeps
<1>8. ASSUME NEW f \in Files, Deploy!ActivateCommand(f) PROVE DeployInv'
  BY <1>8, ActivateCommandKeeps
<1>9. ASSUME NEW f \in Files, Deploy!RollbackCommand(f) PROVE DeployInv'
  BY <1>9, RollbackCommandKeeps
<1>10. ASSUME NEW f \in Files, Deploy!DisableCommand(f) PROVE DeployInv'
  BY <1>10, DisableCommandKeeps
<1> HIDE DEF DeployInv
<1> QED BY <1>1, <1>2, <1>3, <1>4, <1>5, <1>6, <1>7, <1>8, <1>9, <1>10 DEF Deploy!FdNext

LEMMA DeploysDo == DeployInv => Deploy!DeploysFollow
<1> SUFFICES ASSUME DeployInv PROVE Deploy!DeploysFollow
  OBVIOUS
<1>1. Deploy!ServesLatest
  <2> SUFFICES ASSUME Deploy!Quiet, NEW f \in Files \ excused, disk[f] \in Good PROVE Serves(f)
    BY DEF Deploy!ServesLatest, Serves
  <2>1. Cared(f, pass["watcher"]) /\ pending = {} /\ queue = <<>>
    BY DEF Deploy!Quiet, DeployInv, CoverInv
  <2>2. pass["watcher"].todo = {}
    BY DEF Deploy!Quiet, DeployInv, PassesInv, PassOk, Deploy!Deployers
  <2>3. Len(queue) = 0 /\ 1..Len(queue) = {}
    BY <2>1
  <2> QED BY <2>1, <2>2, <2>3 DEF Cared, Queued
<1>2. Deploy!MapIsCurrent
  BY DEF Deploy!Quiet, DeployInv, MapInv, Moving, Deploy!MapIsCurrent
<1>3. Deploy!RollbackWalks
  BY RankedWalks DEF DeployInv, TablesInv, Deploy!RollbackWalks
<1> QED BY <1>1, <1>2, <1>3 DEF DeployInv, Deploy!DeploysFollow

\* Behind the passes of deploy.ts and the version store of store.ex: a watcher at rest serves
\* every file as it is and has a map of them, rollbacks walk back while no version was
\* activated twice, and an unchanged deploy leaves the pointer alone, whatever edits,
\* one-off deploys, operator commands and failed requests come between two requests.
THEOREM DeployWordKept == SumSpec => []DeploysKeepWord
<1> DEFINE Inv == part = "deploy" => DeployInv
<1>1. SumInit => Inv
  BY DeployBegins DEF SumInit
<1>2. Inv /\ [SumNext]_allVars => Inv'
  <2> SUFFICES ASSUME Inv, [SumNext]_allVars, part' = "deploy" PROVE DeployInv'
    OBVIOUS
  <2>1. part = "deploy"
    BY DEF SumNext, allVars
  <2>2. [Deploy!FdNext]_(Deploy!fdVars)
    BY <2>1 DEF SumNext, allVars, deployVars, Deploy!fdVars
  <2> QED BY <2>1, <2>2, DeployKeeps
<1>3. Inv => DeploysKeepWord
  BY DeploysDo DEF DeploysKeepWord
<1> QED BY <1>1, <1>2, <1>3, PTL DEF SumSpec

==============================================================================

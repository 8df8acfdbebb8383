---------------------------- MODULE WatcherProofs ----------------------------
(***************************************************************************)
(* Proofs about Watcher, for every set of keys, objects and configurations *)
(* and every value of the durations and bounds: types, and that a wait     *)
(* judges only snapshots the server had.                                   *)
(*                                                                         *)
(* CacheIsSnapshot and VerdictOfSnapshot are not inductive: that an event  *)
(* turns one version into the next, that an unserved kind has no objects,  *)
(* and that the verdict of the wait phase is that of its cache, have to be *)
(* carried along (CoreInv).                                                *)
(***************************************************************************)
EXTENDS Watcher, TLAPS

(* What Parse guarantees of the Spec in use. *)
LEMMA SpecType ==
    ASSUME ControlType
    PROVE  /\ s.Timeout \in Nat /\ s.Settle \in Nat /\ s.PollInterval \in Nat
           /\ s.ProgressInterval \in Nat /\ s.PollInterval > 0 /\ s.ProgressInterval > 0
           /\ s.Absent \in Verdicts /\ s.Watch \in BOOLEAN
  BY SpecsAssumption DEF ControlType, RunnerRules, ValidDurations, Verdicts

(* The evaluator returns a verdict, whatever the snapshot. *)
LEMMA VerdictType ==
    ASSUME ControlType, NEW objs
    PROVE  Verdict(s, objs) \in Verdicts
  <1>1. s.Absent \in Verdicts
    BY SpecType
  <1>2. evaluateSingle(s, objs) \in Verdicts
    <2> DEFINE j == judge(s, objs[CHOOSE k \in named(s, objs) : TRUE])
    <2>1. CASE named(s, objs) = {}
      BY <1>1, <2>1 DEF evaluateSingle
    <2>2. CASE named(s, objs) # {}
      <3>1. evaluateSingle(s, objs) =
              CASE j.fails -> "failure"
                [] ~j.fails /\ j.err -> "pending"
                [] ~j.fails /\ ~j.err /\ j.passes -> "success"
                [] OTHER -> "pending"
        BY <2>2 DEF evaluateSingle
      <3> HIDE DEF j
      <3> QED BY <3>1 DEF Verdicts
    <2> QED BY <2>1, <2>2
  <1>3. evaluateSet(s, objs) \in Verdicts
    BY DEF evaluateSet, Verdicts
  <1> QED BY <1>2, <1>3 DEF Verdict

LEMMA ObserveTracker ==
    ASSUME NEW t \in Tracker, NEW n \in Nat, NEW v \in Verdicts
    PROVE  Observe(t, n, v) \in Tracker
  BY DEF Observe, Tracker, Verdicts

LEMMA EmitType ==
    ASSUME now \in Nat, NEW v \in Verdicts, NEW n \in Notes
    PROVE  emit(v, n) \in Progress
  BY DEF emit, Progress

LEMMA HeartbeatType ==
    ASSUME EnvType, SeenType
    PROVE  heartbeat \in Progress
  BY EmitType DEF heartbeat, EnvType, SeenType

(* One observation keeps the types of the fields it writes. *)
LEMMA ObserveType ==
    ASSUME now \in Nat, tracker \in Tracker,
           NEW p \in Progress, NEW v \in Verdicts, NEW n \in Notes, observe(p, v, n)
    PROVE  /\ last' \in Verdicts /\ noteKind' \in Notes
           /\ tracker' \in Tracker /\ progress' \in Progress
  <1>1. emit(v, n) \in Progress
    BY EmitType
  <1>2. tracker' \in Tracker
    BY ObserveTracker DEF observe
  <1>3. progress' \in Progress
    BY <1>1 DEF observe, emitFinal
  <1> QED BY <1>2, <1>3 DEF observe

LEMMA NoCallType == NoCall \in Calls /\ NoCall.rv = 0
  BY DEF NoCall, Calls

LEMMA NoTimersType == NoTimers \in Timers
  BY DEF NoTimers, Timers

(* The control points a step may move to keep the control types. *)
LEMMA EndType ==
    ASSUME EnvType, ControlType, hist' = hist,
           NEW kind \in {"settled", "timeout", "fatal", "cancelled"},
           NEW v \in Verdicts, NEW w \in BOOLEAN, End(kind, v, w)
    PROVE  ControlType'
  BY NoCallType, NoTimersType DEF EnvType, ControlType, End, PCs, Outcomes

LEMMA LoopType ==
    ASSUME EnvType, ControlType, hist' = hist, Loop
    PROVE  ControlType'
  BY NoCallType, NoTimersType DEF EnvType, ControlType, Loop, PCs

LEMMA SleepType ==
    ASSUME EnvType, ControlType, hist' = hist, NEW d \in Nat, Sleep(d)
    PROVE  ControlType'
  <1>1. now + d \in Nat /\ timers \in Timers
    BY DEF EnvType, ControlType
  <1>2. timers' \in Timers
    BY <1>1 DEF Sleep, Timers
  <1> QED BY <1>2, NoCallType DEF EnvType, ControlType, Sleep, PCs

LEMMA EnterWaitType ==
    ASSUME EnvType, ControlType, hist' = hist, NEW w \in {"none", "open"}, EnterWait(w)
    PROVE  ControlType'
  <1>1. now + s.PollInterval \in Nat /\ timers \in Timers
    BY SpecType DEF EnvType, ControlType
  <1>2. timers' \in Timers
    BY <1>1 DEF EnterWait, Timers
  <1> QED BY <1>2, NoCallType DEF EnvType, ControlType, EnterWait, PCs

LEMMA AskType ==
    ASSUME EnvType, ControlType, hist' = hist, NEW p \in Requesting, Ask(p),
           timers' \in Timers, UNCHANGED <<watch, s, result>>
    PROVE  ControlType'
  <1>1. call' = [NoCall EXCEPT !.st = "waiting", !.at = now] /\ now \in Nat
    BY DEF Ask, EnvType
  <1>2. call' \in Calls /\ call'.rv = 0
    BY <1>1 DEF NoCall, Calls
  <1> QED BY <1>2 DEF EnvType, ControlType, Ask, PCs

LEMMA TurnType ==
    ASSUME EnvType, ControlType, hist' = hist, Turn
    PROVE  ControlType'
  BY DEF EnvType, ControlType, Turn, PCs, Timers

LEMMA EnvUnchanged ==
    ASSUME EnvType, now' = now, ctxDone' = ctxDone, served' = served, hist' = hist, faults' \in Nat
    PROVE  EnvType'
  BY DEF EnvType

LEMMA SeenUnchanged ==
    ASSUME SeenType, hist' = hist, progress' \in Progress,
           UNCHANGED <<arrived, cache, pos, seen, retry>>
    PROVE  SeenType'
  BY DEF SeenType, seen, retry

------------------------------------------------------------------------------
(* The ways a wait ends. *)

LEMMA TimeoutType == ASSUME TypeOK, timeout PROVE TypeOK'
  <1>1. EnvType /\ ControlType /\ SeenType
    BY DEF TypeOK
  <1>2. UNCHANGED <<env, arrived, cache, pos, seen, retry>> /\ End("timeout", "failure", FALSE)
    BY DEF timeout
  <1>3. EnvType' /\ hist' = hist
    BY <1>1, <1>2, EnvUnchanged DEF env, EnvType
  <1>4. ControlType'
    BY <1>1, <1>2, <1>3, EndType DEF Verdicts
  <1>5. progress' \in Progress
    BY <1>1, EmitType DEF timeout, emitFinal, EnvType, SeenType
  <1>6. SeenType'
    BY <1>1, <1>2, <1>3, <1>5, SeenUnchanged
  <1> QED BY <1>3, <1>4, <1>6 DEF TypeOK

LEMMA CancelledType == ASSUME TypeOK, cancelled PROVE TypeOK'
  <1>1. EnvType /\ ControlType /\ SeenType
    BY DEF TypeOK
  <1>2. /\ UNCHANGED <<env, arrived, cache, pos, seen, progress, retry>>
        /\ End("cancelled", "failure", FALSE)
    BY DEF cancelled
  <1>3. EnvType' /\ hist' = hist
    BY <1>1, <1>2, EnvUnchanged DEF env, EnvType
  <1>4. ControlType'
    BY <1>1, <1>2, <1>3, EndType DEF Verdicts
  <1>5. SeenType'
    BY <1>1, <1>2, <1>3, SeenUnchanged DEF SeenType
  <1> QED BY <1>3, <1>4, <1>5 DEF TypeOK

LEMMA FatalType == ASSUME TypeOK, fatal, faults' \in Nat PROVE TypeOK'
  <1>1. EnvType /\ ControlType /\ SeenType
    BY DEF TypeOK
  <1>2. EnvType' /\ hist' = hist
    BY <1>1, EnvUnchanged DEF fatal
  <1>3. ControlType'
    BY <1>1, <1>2, EndType DEF fatal, Verdicts
  <1>4. progress' \in Progress
    <2>1. "failure" \in Verdicts /\ "none" \in Notes
      BY DEF Verdicts, Notes
    <2> QED BY <1>1, <2>1, EmitType DEF fatal, emitFinal, EnvType, SeenType
  <1>5. SeenType'
    BY <1>1, <1>2, <1>4 DEF fatal, SeenType, retry, Verdicts, Notes
  <1> QED BY <1>2, <1>3, <1>5 DEF TypeOK

(* The settled end, after an observation whose other effects are typed. *)
LEMMA EndSettledType ==
    ASSUME EnvType, ControlType, hist' = hist,
           NEW v \in Verdicts, EndSettled(v)
    PROVE  ControlType'
  <1>1. (v = "success" /\ noteKind' = "notServed") \in BOOLEAN
    OBVIOUS
  <1> QED BY <1>1, EndType DEF EndSettled

------------------------------------------------------------------------------
(* The error policy. *)

LEMMA BackoffType == ASSUME TypeOK PROVE nextBackoff \in Nat
  <1>1. s.PollInterval \in Nat /\ backoff \in Nat /\ MinBackoff \in Nat
    BY SpecType, ConstantsAssumption DEF TypeOK, SeenType
  <1> QED BY <1>1 DEF nextBackoff

LEMMA ApiErrorType ==
    ASSUME TypeOK, NEW e \in ErrKinds, apiError(e), faults' \in Nat
    PROVE  TypeOK'
  <1>1. EnvType /\ ControlType /\ SeenType
    BY DEF TypeOK
  <1>2. CASE fatal
    BY <1>2, FatalType
  <1>3. CASE /\ unauthRetried' = TRUE
             /\ Loop
             /\ UNCHANGED <<now, ctxDone, served, hist, arrived, cache, pos, seen, progress, backoff>>
    <2>1. EnvType' /\ hist' = hist
      BY <1>1, <1>3, EnvUnchanged
    <2>2. ControlType'
      BY <1>1, <1>3, <2>1, LoopType
    <2>3. SeenType'
      BY <1>1, <1>3 DEF SeenType, seen
    <2> QED BY <2>1, <2>2, <2>3 DEF TypeOK
  <1>4. CASE /\ observe(progress, "pending", "apiError")
             /\ backoff' = nextBackoff
             /\ Sleep(nextBackoff)
             /\ UNCHANGED <<now, ctxDone, served, hist, arrived, cache, pos, unauthRetried>>
    <2>1. EnvType' /\ hist' = hist
      BY <1>1, <1>4, EnvUnchanged
    <2>2. nextBackoff \in Nat
      BY BackoffType
    <2>3. ControlType'
      BY <1>1, <1>4, <2>1, <2>2, SleepType
    <2>4. /\ last' \in Verdicts /\ noteKind' \in Notes
          /\ tracker' \in Tracker /\ progress' \in Progress
      <3>1. /\ now \in Nat /\ tracker \in Tracker /\ progress \in Progress
            /\ "pending" \in Verdicts /\ "apiError" \in Notes
        BY <1>1 DEF EnvType, SeenType, Verdicts, Notes
      <3> QED BY <1>4, <3>1, ObserveType
    <2>5. SeenType'
      BY <1>1, <1>4, <2>2, <2>4 DEF SeenType
    <2> QED BY <2>1, <2>3, <2>5 DEF TypeOK
  <1> QED BY <1>2, <1>3, <1>4 DEF apiError

------------------------------------------------------------------------------
(* One cycle of loop. *)

LEMMA LoopStartType == ASSUME TypeOK, LoopStart PROVE TypeOK'
  <1>1. EnvType /\ ControlType /\ SeenType
    BY DEF TypeOK
  <1>2. EnvType' /\ hist' = hist
    BY <1>1, EnvUnchanged DEF LoopStart, env, EnvType
  <1>3. timers' \in Timers
    BY <1>1 DEF LoopStart, NoTimers, Timers, EnvType
  <1>4. ControlType'
    BY <1>1, <1>2, <1>3, AskType DEF LoopStart, Requesting
  <1>5. SeenType'
    BY <1>1, <1>2, SeenUnchanged DEF LoopStart, SeenType
  <1> QED BY <1>2, <1>4, <1>5 DEF TypeOK

LEMMA ResolveReturnsType == ASSUME TypeOK, ResolveReturns PROVE TypeOK'
  <1>1. EnvType /\ ControlType /\ SeenType
    BY DEF TypeOK
  <1>2. EnvType' /\ hist' = hist
    BY <1>1, EnvUnchanged DEF ResolveReturns, env, EnvType
  <1>3. timers' \in Timers
    BY <1>1 DEF ResolveReturns, ControlType
  <1>4. ControlType'
    BY <1>1, <1>2, <1>3, AskType DEF ResolveReturns, Requesting
  <1>5. SeenType'
    BY <1>1, <1>2, SeenUnchanged DEF ResolveReturns, SeenType
  <1> QED BY <1>2, <1>4, <1>5 DEF TypeOK

(* A fresh snapshot: what it writes is typed. *)
LEMMA RefreshType ==
    ASSUME TypeOK, NEW objs \in Snapshots, NEW n \in Notes, Refresh(objs, n)
    PROVE  EnvType' /\ hist' = hist /\ SeenType'
  <1>1. EnvType /\ ControlType /\ SeenType
    BY DEF TypeOK
  <1>2. EnvType' /\ hist' = hist
    BY <1>1, EnvUnchanged DEF Refresh, env, EnvType
  <1>3. Verdict(s, objs) \in Verdicts
    BY <1>1, VerdictType
  <1>4. /\ last' \in Verdicts /\ noteKind' \in Notes
        /\ tracker' \in Tracker /\ progress' \in Progress
    <2>1. now \in Nat /\ tracker \in Tracker /\ progress \in Progress
      BY <1>1 DEF EnvType, SeenType
    <2>2. observe(progress, Verdict(s, objs), n)
      BY DEF Refresh
    <2> QED BY <1>3, <2>1, <2>2, ObserveType
  <1>5. call.rv \in Nat /\ call.rv <= Len(hist) /\ Len(hist) \in Nat
    BY <1>1 DEF ControlType, Calls, EnvType
  <1>6. /\ cache' = objs /\ pos' = call.rv /\ arrived' = call.rv
        /\ unauthRetried' = FALSE /\ backoff' = 0
    BY DEF Refresh
  <1>7. pos' \in Nat /\ arrived' \in Nat /\ pos' <= arrived' /\ arrived' <= Len(hist') /\ backoff' \in Nat
    BY <1>2, <1>5, <1>6
  <1>8. cache' \in Snapshots /\ unauthRetried' \in BOOLEAN
    BY <1>6
  <1>9. SeenType'
    BY <1>4, <1>7, <1>8 DEF SeenType
  <1> QED BY <1>2, <1>9

LEMMA NoObjectsType == NoObjects \in Snapshots
  BY DEF NoObjects, Snapshots

LEMMA ResolveUnservedType == ASSUME TypeOK, ResolveUnserved PROVE TypeOK'
  <1>1. EnvType /\ ControlType /\ SeenType
    BY DEF TypeOK
  <1>2. "notServed" \in Notes /\ Verdict(s, NoObjects) \in Verdicts
    BY <1>1, VerdictType DEF Notes
  <1>3. EnvType' /\ hist' = hist /\ SeenType'
    BY <1>2, RefreshType, NoObjectsType DEF ResolveUnserved
  <1>4. ControlType'
    <2>1. EndSettled(Verdict(s, NoObjects)) \/ EnterWait("none")
      BY DEF ResolveUnserved
    <2> QED BY <1>1, <1>2, <1>3, <2>1, EndSettledType, EnterWaitType
  <1> QED BY <1>3, <1>4 DEF TypeOK

LEMMA HistEntryType ==
    ASSUME EnvType, NEW i \in 1 .. Len(hist)
    PROVE  hist[i].objs \in Snapshots /\ hist[i].key \in Keys \cup {NoKey}
  <1>1. hist[i] \in Version
    BY DEF EnvType
  <1> QED BY <1>1 DEF Version

(* An answer names a version the server has. *)
AnswerOK == call.st = "ok" => call.rv >= 1

LEMMA ListReturnsType == ASSUME TypeOK, AnswerOK, ListReturns PROVE TypeOK'
  <1>1. EnvType /\ ControlType /\ SeenType
    BY DEF TypeOK
  <1> DEFINE objs == hist[call.rv].objs
  <1>2. call.rv \in 1 .. Len(hist)
    BY <1>1 DEF AnswerOK, ListReturns, ControlType, Calls, EnvType
  <1>3. objs \in Snapshots
    BY <1>1, <1>2, HistEntryType
  <1>4. "none" \in Notes /\ Verdict(s, objs) \in Verdicts
    BY <1>1, VerdictType DEF Notes
  <1>5. /\ Refresh(objs, "none")
        /\ \/ EndSettled(Verdict(s, objs))
           \/ Ask("watch") /\ UNCHANGED <<s, timers, result, watch>>
           \/ EnterWait("none")
    BY DEF ListReturns
  <1> HIDE DEF objs
  <1>6. EnvType' /\ hist' = hist /\ SeenType'
    BY <1>3, <1>4, <1>5, RefreshType
  <1>7. ControlType'
    <2>1. CASE EndSettled(Verdict(s, objs))
      BY <1>1, <1>4, <1>6, <2>1, EndSettledType
    <2>2. CASE Ask("watch") /\ UNCHANGED <<s, timers, result, watch>>
      <3>1. "watch" \in Requesting /\ timers' \in Timers
        BY <1>1, <2>2 DEF Requesting, ControlType
      <3> QED BY <1>1, <1>6, <2>2, <3>1, AskType
    <2>3. CASE EnterWait("none")
      BY <1>1, <1>6, <2>3, EnterWaitType
    <2> QED BY <1>5, <2>1, <2>2, <2>3
  <1> QED BY <1>6, <1>7 DEF TypeOK

LEMMA WatchReturnsType == ASSUME TypeOK, WatchReturns PROVE TypeOK'
  <1>1. EnvType /\ ControlType /\ SeenType
    BY DEF TypeOK
  <1>2. EnvType' /\ hist' = hist
    BY <1>1, EnvUnchanged DEF WatchReturns, env, EnvType
  <1>3. ControlType'
    BY <1>1, <1>2, EnterWaitType DEF WatchReturns
  <1>4. SeenType'
    BY <1>1, <1>2, SeenUnchanged DEF WatchReturns, SeenType
  <1> QED BY <1>2, <1>3, <1>4 DEF TypeOK

(* The steps that only go back to the top of loop. *)
LEMMA BackToLoopType ==
    ASSUME TypeOK, Loop, faults' \in Nat, progress' \in Progress,
           UNCHANGED <<now, ctxDone, served, hist, arrived, cache, pos, seen, retry>>
    PROVE  TypeOK'
  <1>1. EnvType /\ ControlType /\ SeenType
    BY DEF TypeOK
  <1>2. EnvType' /\ hist' = hist
    BY <1>1, EnvUnchanged
  <1>3. ControlType'
    BY <1>1, <1>2, LoopType
  <1>4. SeenType'
    BY <1>1, <1>2, SeenUnchanged
  <1> QED BY <1>2, <1>3, <1>4 DEF TypeOK

LEMMA RelistType ==
    ASSUME TypeOK, WatchGone \/ WaitSettleByList \/ WaitResync \/ SelectGone \/ SleepOver
    PROVE  TypeOK'
  <1>1. EnvType /\ ControlType /\ SeenType
    BY DEF TypeOK
  <1>2. heartbeat \in Progress /\ progress \in Progress /\ faults \in Nat
    BY <1>1, HeartbeatType DEF EnvType, SeenType
  <1>3. /\ Loop /\ faults' \in Nat /\ progress' \in Progress
        /\ UNCHANGED <<now, ctxDone, served, hist, arrived, cache, pos, seen, retry>>
    BY <1>2 DEF WatchGone, WaitSettleByList, WaitResync, SelectGone, SleepOver, env
  <1> QED BY <1>3, BackToLoopType

LEMMA CallFailsType == ASSUME TypeOK, CallFails, call.err \in ErrKinds PROVE TypeOK'
  <1>1. faults' \in Nat
    BY DEF TypeOK, EnvType, CallFails
  <1> QED BY <1>1, ApiErrorType DEF CallFails

------------------------------------------------------------------------------
(* waitPhase and sleep. *)

LEMMA EarliestType ==
    ASSUME NEW a \in Nat, NEW b \in Nat
    PROVE  earliest(a, b) \in Nat
  BY DEF earliest

LEMMA NextHeartbeatType ==
    ASSUME ControlType, NEW p \in Progress
    PROVE  nextHeartbeat(p) \in Nat
  <1>1. s.Timeout \in Nat /\ s.ProgressInterval \in Nat /\ p.lastEmit \in Nat
    BY SpecType DEF Progress
  <1> QED BY <1>1 DEF nextHeartbeat

LEMMA WaitWakeType ==
    ASSUME TypeOK, NEW p \in Progress
    PROVE  waitWake(p) \in Nat
  <1>1. /\ timers.resyncAt \in Nat /\ s.Timeout \in Nat /\ nextHeartbeat(p) \in Nat
        /\ Deadline(tracker, s.Settle) \in Nat
    BY SpecType, NextHeartbeatType DEF TypeOK, ControlType, SeenType, Timers, Tracker, Deadline
  <1>2. earliest(earliest(timers.resyncAt, s.Timeout), nextHeartbeat(p)) \in Nat
    BY <1>1, EarliestType
  <1> QED BY <1>1, <1>2, EarliestType DEF waitWake

LEMMA BlockType ==
    ASSUME TypeOK, NEW w \in Nat, NEW q \in PCs, pc' = q, progress' \in Progress,
           timers' = [timers EXCEPT !.wake = w],
           UNCHANGED <<env, call, watch, arrived, s, result, cache, pos, seen, retry>>
    PROVE  TypeOK'
  <1>1. EnvType /\ ControlType /\ SeenType
    BY DEF TypeOK
  <1>2. EnvType' /\ hist' = hist
    BY <1>1, EnvUnchanged DEF env, EnvType
  <1>3. timers' \in Timers
    BY <1>1 DEF ControlType, Timers
  <1>4. ControlType'
    BY <1>1, <1>2, <1>3 DEF ControlType
  <1>5. SeenType'
    BY <1>1, <1>2, SeenUnchanged
  <1> QED BY <1>2, <1>4, <1>5 DEF TypeOK

LEMMA WaitBlockType == ASSUME TypeOK, WaitBlock PROVE TypeOK'
  <1>1. heartbeat \in Progress
    BY HeartbeatType DEF TypeOK
  <1>2. waitWake(heartbeat) \in Nat /\ "select" \in PCs
    BY <1>1, WaitWakeType DEF PCs
  <1> QED BY <1>1, <1>2, BlockType DEF WaitBlock

LEMMA SleepBlockType == ASSUME TypeOK, SleepBlock PROVE TypeOK'
  <1>1. heartbeat \in Progress
    BY HeartbeatType DEF TypeOK
  <1>2. timers.until \in Nat /\ s.Timeout \in Nat /\ nextHeartbeat(heartbeat) \in Nat
    BY <1>1, SpecType, NextHeartbeatType DEF TypeOK, ControlType, Timers
  <1>3. /\ earliest(earliest(timers.until, s.Timeout), nextHeartbeat(heartbeat)) \in Nat
        /\ "sleeping" \in PCs
    BY <1>2, EarliestType DEF PCs
  <1> QED BY <1>1, <1>3, BlockType DEF SleepBlock

LEMMA WakeUpType ==
    ASSUME TypeOK, SelectTimer \/ SelectBookmark \/ SleepingTimer
    PROVE  TypeOK'
  <1>1. progress \in Progress /\ "wait" \in PCs /\ "sleep" \in PCs /\ 0 \in Nat
    BY DEF TypeOK, SeenType, PCs
  <1>2. CASE SelectTimer \/ SelectBookmark
    BY <1>1, <1>2, BlockType DEF SelectTimer, SelectBookmark, Turn
  <1>3. CASE SleepingTimer
    BY <1>1, <1>3, BlockType DEF SleepingTimer
  <1> QED BY <1>2, <1>3

LEMMA WaitSettleByWatchType == ASSUME TypeOK, WaitSettleByWatch PROVE TypeOK'
  <1>1. EnvType /\ ControlType /\ SeenType
    BY DEF TypeOK
  <1>2. EnvType' /\ hist' = hist
    BY <1>1, EnvUnchanged DEF WaitSettleByWatch, env, EnvType
  <1>3. last \in Verdicts /\ noteKind \in Notes /\ heartbeat \in Progress
    BY <1>1, HeartbeatType DEF SeenType
  <1>4. ControlType'
    BY <1>1, <1>2, <1>3, EndSettledType DEF WaitSettleByWatch
  <1>5. /\ last' \in Verdicts /\ noteKind' \in Notes
        /\ tracker' \in Tracker /\ progress' \in Progress
    <2>1. now \in Nat /\ tracker \in Tracker /\ observe(heartbeat, last, noteKind)
      BY <1>1 DEF EnvType, SeenType, WaitSettleByWatch
    <2> QED BY <1>3, <2>1, ObserveType
  <1>6. SeenType'
    BY <1>1, <1>2, <1>5 DEF SeenType, WaitSettleByWatch, retry
  <1> QED BY <1>2, <1>4, <1>6 DEF TypeOK

LEMMA SelectEventType == ASSUME TypeOK, SelectEvent PROVE TypeOK'
  <1>1. EnvType /\ ControlType /\ SeenType
    BY DEF TypeOK
  <1>2. EnvType' /\ hist' = hist
    BY <1>1, EnvUnchanged DEF SelectEvent, env, EnvType
  <1>3. pos + 1 \in 1 .. Len(hist) /\ pos + 1 <= arrived
    BY <1>1 DEF SelectEvent, SeenType, EnvType
  <1>4. hist[pos + 1].objs \in Snapshots
    BY <1>1, <1>3, HistEntryType
  <1>5. applied \in Snapshots
    <2>1. CASE hist[pos + 1].key \in Keys
      BY <1>1, <1>4, <2>1 DEF applied, Snapshots, SeenType
    <2>2. CASE hist[pos + 1].key \notin Keys
      BY <1>1, <2>2 DEF applied, Snapshots, SeenType
    <2> QED BY <2>1, <2>2
  <1>6. Verdict(s, applied) \in Verdicts /\ noteKind \in Notes
    BY <1>1, VerdictType DEF SeenType
  <1>7. /\ last' \in Verdicts /\ noteKind' \in Notes
        /\ tracker' \in Tracker /\ progress' \in Progress
    <2>1. /\ now \in Nat /\ tracker \in Tracker /\ progress \in Progress
          /\ observe(progress, Verdict(s, applied), noteKind)
      BY <1>1 DEF EnvType, SeenType, SelectEvent
    <2> QED BY <1>6, <2>1, ObserveType
  <1>8. ControlType'
    <2>1. EndSettled(Verdict(s, applied)) \/ Turn
      BY DEF SelectEvent
    <2> QED BY <1>1, <1>2, <1>6, <2>1, EndSettledType, TurnType
  <1>9. SeenType'
    BY <1>1, <1>2, <1>3, <1>5, <1>7 DEF SeenType, SelectEvent, retry
  <1> QED BY <1>2, <1>8, <1>9 DEF TypeOK

LEMMA SelectClosedType == ASSUME TypeOK, SelectClosed PROVE TypeOK'
  <1>1. EnvType /\ ControlType /\ SeenType
    BY DEF TypeOK
  <1>2. EnvType' /\ hist' = hist
    BY <1>1, EnvUnchanged DEF SelectClosed, EnvType
  <1>3. ControlType'
    <2>1. CASE now - timers.cycleStart < MinCycle
      <3> DEFINE d == MinCycle - (now - timers.cycleStart)
      <3>1. d \in Nat
        BY <1>1, <2>1, ConstantsAssumption DEF EnvType, ControlType, Timers
      <3>2. Sleep(d)
        BY <2>1 DEF SelectClosed
      <3> HIDE DEF d
      <3> QED BY <1>1, <1>2, <3>1, <3>2, SleepType
    <2>2. CASE ~(now - timers.cycleStart < MinCycle)
      BY <1>1, <1>2, <2>2, LoopType DEF SelectClosed
    <2> QED BY <2>1, <2>2
  <1>4. SeenType'
    BY <1>1, <1>2, SeenUnchanged DEF SelectClosed, SeenType
  <1> QED BY <1>2, <1>3, <1>4 DEF TypeOK

LEMMA SelectErrorType ==
    ASSUME TypeOK, NEW e \in ErrKinds, SelectError(e)
    PROVE  TypeOK'
  <1>1. faults' \in Nat
    BY DEF TypeOK, EnvType, SelectError
  <1> QED BY <1>1, ApiErrorType DEF SelectError

------------------------------------------------------------------------------
(* The environment's steps. *)

LEMMA AnswerType ==
    ASSUME TypeOK, NEW a \in Calls, a.rv <= Len(hist), Answer(a), faults' \in Nat
    PROVE  TypeOK'
  <1>1. EnvType /\ ControlType /\ SeenType
    BY DEF TypeOK
  <1>2. EnvType'
    BY <1>1, EnvUnchanged DEF Answer
  <1>3. ControlType'
    BY <1>1 DEF ControlType, Answer, runnerVars
  <1>4. SeenType'
    BY <1>1 DEF SeenType, Answer, runnerVars
  <1> QED BY <1>2, <1>3, <1>4 DEF TypeOK

LEMMA FailedCall ==
    ASSUME TypeOK, NEW e \in ErrKinds
    PROVE  /\ [call EXCEPT !.st = "failed", !.err = e] \in Calls
           /\ [call EXCEPT !.st = "failed", !.err = e].rv <= Len(hist)
  BY DEF TypeOK, ControlType, Calls

LEMMA ServerAnswersType == ASSUME TypeOK, ServerAnswers PROVE TypeOK'
  <1>1. faults' \in Nat
    BY DEF TypeOK, EnvType, ServerAnswers
  <1> DEFINE ok == [call EXCEPT !.st = "ok", !.served = served, !.rv = Len(hist)]
  <1>2. ok \in Calls /\ ok.rv <= Len(hist)
    <2>1. call \in Calls /\ served \in BOOLEAN /\ Len(hist) \in Nat
      BY DEF TypeOK, EnvType, ControlType
    <2>2. ok \in Calls
      BY <2>1 DEF Calls
    <2>3. ok.rv = Len(hist)
      BY <2>1 DEF Calls
    <2> QED BY <2>1, <2>2, <2>3
  <1>3. CASE pc = "resolve" \/ served
    <2>1. Answer(ok)
      BY <1>3 DEF ServerAnswers
    <2> QED BY <1>1, <1>2, <2>1, AnswerType
  <1>4. CASE ~(pc = "resolve" \/ served)
    <2>1. Answer([call EXCEPT !.st = "failed", !.err = "other"]) /\ "other" \in ErrKinds
      BY <1>4 DEF ServerAnswers, ErrKinds
    <2> QED BY <1>1, <2>1, FailedCall, AnswerType
  <1> QED BY <1>3, <1>4

LEMMA ServerFailsType ==
    ASSUME TypeOK, NEW e \in ErrKinds, ServerFails(e)
    PROVE  TypeOK'
  <1>1. faults' \in Nat /\ Answer([call EXCEPT !.st = "failed", !.err = e])
    BY DEF TypeOK, EnvType, ServerFails
  <1> QED BY <1>1, FailedCall, AnswerType

LEMMA RequestEndsType ==
    ASSUME TypeOK, RequestExpires \/ RequestCancelled
    PROVE  TypeOK'
  <1>1. /\ faults' \in Nat /\ "other" \in ErrKinds
        /\ Answer([call EXCEPT !.st = "failed", !.err = "other"])
    BY DEF TypeOK, EnvType, RequestExpires, RequestCancelled, ErrKinds
  <1> QED BY <1>1, FailedCall, AnswerType

(* One more version of the selection. *)
LEMMA NewVersionType ==
    ASSUME TypeOK, NEW v \in Version, hist' = Append(hist, v),
           served' \in BOOLEAN, faults' \in Nat,
           UNCHANGED <<now, ctxDone, call, watch, arrived, runnerVars>>
    PROVE  TypeOK'
  <1>1. EnvType /\ ControlType /\ SeenType
    BY DEF TypeOK
  <1>2. hist' \in Seq(Version) /\ Len(hist') = Len(hist) + 1 /\ Len(hist) \in Nat
    BY <1>1 DEF EnvType
  <1>3. EnvType'
    BY <1>1, <1>2 DEF EnvType
  <1>4. ControlType'
    <2>1. call.rv \in Nat /\ call.rv <= Len(hist)
      BY <1>1 DEF ControlType, Calls
    <2> QED BY <1>1, <1>2, <2>1 DEF ControlType, runnerVars
  <1>5. SeenType'
    BY <1>1, <1>2 DEF SeenType, runnerVars
  <1> QED BY <1>3, <1>4, <1>5 DEF TypeOK

LEMMA LatestType ==
    ASSUME TypeOK
    PROVE  hist[Len(hist)].objs \in Snapshots /\ Len(hist) \in Nat /\ Len(hist) >= 1
  <1>1. EnvType /\ Len(hist) \in 1 .. Len(hist)
    BY DEF TypeOK, EnvType
  <1> QED BY <1>1, HistEntryType

LEMMA ClusterChangeVersion ==
    ASSUME TypeOK, NEW k \in Keys, NEW o \in Objects \cup {NoObject}
    PROVE  [objs |-> [hist[Len(hist)].objs EXCEPT ![k] = o], key |-> k] \in Version
  BY LatestType DEF Version, Snapshots

LEMMA ClusterChangeType ==
    ASSUME TypeOK, NEW k \in Keys, NEW o \in Objects \cup {NoObject}, ClusterChange(k, o)
    PROVE  TypeOK'
  <1> DEFINE v == [objs |-> [hist[Len(hist)].objs EXCEPT ![k] = o], key |-> k]
  <1>1. v \in Version /\ hist' = Append(hist, v)
    BY ClusterChangeVersion DEF ClusterChange
  <1>2. /\ served' \in BOOLEAN /\ faults' \in Nat
        /\ UNCHANGED <<now, ctxDone, call, watch, arrived, runnerVars>>
    BY DEF TypeOK, EnvType, ClusterChange
  <1> HIDE DEF v
  <1> QED BY <1>1, <1>2, NewVersionType

(* A flip leaves the selection as it is, or replaces it as a whole. *)
LEMMA FlipServedCases ==
    ASSUME FlipServed
    PROVE  \/ hist' = hist /\ (served => hist[Len(hist)].objs = NoObjects)
           \/ \E objs \in Snapshots : /\ served => objs = NoObjects
                                     /\ hist' = Append(hist, [objs |-> objs, key |-> NoKey])
  <1>1. PICK objs \in IF served THEN {NoObjects} ELSE Snapshots :
          \/ objs = hist[Len(hist)].objs /\ hist' = hist
          \/ hist' = Append(hist, [objs |-> objs, key |-> NoKey])
    BY DEF FlipServed
  <1>2. objs \in Snapshots /\ (served => objs = NoObjects)
    BY NoObjectsType
  <1> QED BY <1>1, <1>2

LEMMA FlipServedType == ASSUME TypeOK, FlipServed PROVE TypeOK'
  <1>1. /\ served' \in BOOLEAN
        /\ UNCHANGED <<now, ctxDone, call, watch, arrived, runnerVars>>
    BY Zenon DEF FlipServed
  <1>2. faults' \in Nat
    BY DEF TypeOK, EnvType, FlipServed
  <1>3. CASE hist' = hist
    <2>1. EnvType /\ ControlType /\ SeenType
      BY DEF TypeOK
    <2> QED BY <1>1, <1>2, <1>3, <2>1 DEF TypeOK, EnvType, ControlType, SeenType, runnerVars
  <1>4. ASSUME NEW objs \in Snapshots, hist' = Append(hist, [objs |-> objs, key |-> NoKey])
        PROVE  TypeOK'
    <2>1. [objs |-> objs, key |-> NoKey] \in Version
      BY DEF Version
    <2> QED BY <1>1, <1>2, <1>4, <2>1, NewVersionType
  <1> QED BY <1>3, <1>4, FlipServedCases

LEMMA OtherEnvType ==
    ASSUME TypeOK, EventArrives \/ Cancel \/ Tick
    PROVE  TypeOK'
  <1>1. EnvType /\ ControlType /\ SeenType
    BY DEF TypeOK
  <1>2. EnvType' /\ hist' = hist
    <2>1. ctxDone' \in BOOLEAN /\ served' \in BOOLEAN
      BY <1>1, Zenon DEF EnvType, EventArrives, Cancel, Tick, env
    <2>2. now' \in Nat /\ faults' \in Nat /\ hist' = hist
      BY <1>1 DEF EnvType, EventArrives, Cancel, Tick, env
    <2> QED BY <1>1, <2>1, <2>2 DEF EnvType
  <1>3. ControlType'
    BY <1>1, <1>2 DEF ControlType, EventArrives, Cancel, Tick, runnerVars
  <1>4. SeenType'
    <2>1. arrived' \in Nat /\ arrived' >= arrived /\ arrived' <= Len(hist)
      BY <1>1 DEF EnvType, SeenType, EventArrives, Cancel, Tick
    <2> QED BY <1>1, <1>2, <2>1
            DEF SeenType, EventArrives, Cancel, Tick, runnerVars
  <1> QED BY <1>2, <1>3, <1>4 DEF TypeOK

------------------------------------------------------------------------------
(* Type correctness.  An answer must also be usable: a successful one names *)
(* a version the server has, a failed one an error apiError knows.          *)

CallOK == AnswerOK /\ (call.st = "failed" => call.err \in ErrKinds)

TypeInv == TypeOK /\ CallOK

(* A step of the runner leaves the server alone, and its request is over,   *)
(* fresh or as it was.                                                      *)
LEMMA RunnerFrame ==
    ASSUME RunnerStep
    PROVE  /\ UNCHANGED <<now, ctxDone, served, hist, s>>
           /\ call' \in {NoCall, [NoCall EXCEPT !.st = "waiting", !.at = now], call}
  <1> USE DEF End, Loop, Sleep, EnterWait, Turn, Ask, env, Refresh, EndSettled
  <1>1. CASE LoopCancelled \/ LoopTimeout \/ LoopStart
    BY <1>1 DEF LoopCancelled, LoopTimeout, LoopStart, cancelled, timeout
  <1>2. CASE ResolveReturns \/ ResolveWrongScope \/ ResolveUnserved
    BY <1>2 DEF ResolveReturns, ResolveWrongScope, ResolveUnserved, fatal
  <1>3. CASE ListReturns
    BY <1>3 DEF ListReturns
  <1>4. CASE WatchReturns \/ WatchGone
    BY <1>4 DEF WatchReturns, WatchGone
  <1>5. CASE CallFails
    BY <1>5 DEF CallFails, apiError, fatal
  <1>6. CASE WaitTimeout \/ WaitSettleByList \/ WaitSettleByWatch \/ WaitResync \/ WaitBlock
    BY <1>6 DEF WaitTimeout, WaitSettleByList, WaitSettleByWatch, WaitResync, WaitBlock, timeout
  <1>7. CASE SelectCancelled \/ SelectTimer \/ SelectEvent \/ SelectBookmark
    BY <1>7 DEF SelectCancelled, SelectTimer, SelectEvent, SelectBookmark, cancelled
  <1>8. CASE SelectClosed \/ SelectGone
    BY <1>8 DEF SelectClosed, SelectGone
  <1>9. ASSUME NEW e \in ErrKinds, SelectError(e)
        PROVE  /\ UNCHANGED <<now, ctxDone, served, hist, s>>
               /\ call' \in {NoCall, [NoCall EXCEPT !.st = "waiting", !.at = now], call}
    BY <1>9 DEF SelectError, apiError, fatal
  <1>10. CASE SleepTimeout \/ SleepOver \/ SleepBlock \/ SleepingCancelled \/ SleepingTimer
    BY <1>10 DEF SleepTimeout, SleepOver, SleepBlock, SleepingCancelled, SleepingTimer,
                 cancelled, timeout
  <1> QED BY <1>1, <1>2, <1>3, <1>4, <1>5, <1>6, <1>7, <1>8, <1>9, <1>10 DEF RunnerStep

(* A step of the environment leaves the runner alone. *)
LEMMA EnvFrame == ASSUME EnvStep \/ Tick PROVE UNCHANGED <<watch, runnerVars>>
  BY DEF EnvStep, Tick, ServerAnswers, ServerFails, RequestExpires, RequestCancelled, Answer,
         ClusterChange, FlipServed, EventArrives, Cancel

LEMMA CallOKStep == ASSUME TypeInv, [Next]_vars PROVE CallOK'
  <1> USE DEF CallOK, AnswerOK
  <1>1. call \in Calls /\ CallOK /\ Len(hist) \in Nat /\ Len(hist) >= 1
    BY DEF TypeInv, TypeOK, ControlType, EnvType
  <1>2. CASE RunnerStep
    <2>1. call' \in {NoCall, [NoCall EXCEPT !.st = "waiting", !.at = now], call}
      BY <1>2, RunnerFrame
    <2>2. CASE call' = NoCall
      BY <2>2 DEF NoCall
    <2>3. CASE call' = [NoCall EXCEPT !.st = "waiting", !.at = now]
      BY <2>3 DEF NoCall
    <2> QED BY <1>1, <2>1, <2>2, <2>3
  <1>3. CASE ServerAnswers
    <2>1. CASE pc = "resolve" \/ served
      <3>1. call' = [call EXCEPT !.st = "ok", !.served = served, !.rv = Len(hist)]
        BY <1>3, <2>1 DEF ServerAnswers, Answer
      <3> QED BY <1>1, <3>1 DEF Calls
    <2>2. CASE ~(pc = "resolve" \/ served)
      <3>1. call' = [call EXCEPT !.st = "failed", !.err = "other"]
        BY <1>3, <2>2 DEF ServerAnswers, Answer
      <3> QED BY <1>1, <3>1 DEF Calls, ErrKinds
    <2> QED BY <2>1, <2>2
  <1>4. ASSUME NEW e \in ErrKinds, ServerFails(e) PROVE CallOK'
    BY <1>1, <1>4 DEF ServerFails, Answer, Calls
  <1>5. CASE RequestExpires \/ RequestCancelled
    BY <1>1, <1>5 DEF RequestExpires, RequestCancelled, Answer, Calls, ErrKinds
  <1>6. ASSUME NEW k \in Keys, NEW o \in Objects \cup {NoObject}, ClusterChange(k, o)
        PROVE  CallOK'
    BY <1>1, <1>6 DEF ClusterChange
  <1>7. CASE FlipServed \/ EventArrives \/ Cancel \/ Tick \/ UNCHANGED vars
    BY <1>1, <1>7 DEF FlipServed, EventArrives, Cancel, Tick, vars
  <1> QED BY <1>2, <1>3, <1>4, <1>5, <1>6, <1>7 DEF Next, EnvStep, Terminated

LEMMA TypeStep == ASSUME TypeInv, [Next]_vars PROVE TypeOK'
  <1>1. TypeOK /\ AnswerOK /\ (call.st = "failed" => call.err \in ErrKinds)
    BY DEF TypeInv, CallOK
  <1>2. CASE LoopCancelled \/ SelectCancelled \/ SleepingCancelled
    BY <1>1, <1>2, CancelledType DEF LoopCancelled, SelectCancelled, SleepingCancelled
  <1>3. CASE LoopTimeout \/ WaitTimeout \/ SleepTimeout
    BY <1>1, <1>3, TimeoutType DEF LoopTimeout, WaitTimeout, SleepTimeout
  <1>4. CASE LoopStart \/ ResolveReturns \/ ResolveUnserved \/ ListReturns \/ WatchReturns
    BY <1>1, <1>4, LoopStartType, ResolveReturnsType, ResolveUnservedType, ListReturnsType,
       WatchReturnsType
  <1>5. CASE ResolveWrongScope
    <2>1. faults' \in Nat
      BY <1>1, <1>5 DEF ResolveWrongScope, TypeOK, EnvType
    <2> QED BY <1>1, <1>5, <2>1, FatalType DEF ResolveWrongScope
  <1>6. CASE WatchGone \/ WaitSettleByList \/ WaitResync \/ SelectGone \/ SleepOver
    BY <1>1, <1>6, RelistType
  <1>7. CASE CallFails
    BY <1>1, <1>7, CallFailsType DEF CallFails
  <1>8. CASE WaitBlock \/ SleepBlock \/ SelectTimer \/ SelectBookmark \/ SleepingTimer
    BY <1>1, <1>8, WaitBlockType, SleepBlockType, WakeUpType
  <1>9. CASE WaitSettleByWatch \/ SelectEvent \/ SelectClosed
    BY <1>1, <1>9, WaitSettleByWatchType, SelectEventType, SelectClosedType
  <1>10. ASSUME NEW e \in ErrKinds, SelectError(e) PROVE TypeOK'
    BY <1>1, <1>10, SelectErrorType
  <1>11. CASE ServerAnswers \/ RequestExpires \/ RequestCancelled
    BY <1>1, <1>11, ServerAnswersType, RequestEndsType
  <1>12. ASSUME NEW e \in ErrKinds, ServerFails(e) PROVE TypeOK'
    BY <1>1, <1>12, ServerFailsType
  <1>13. ASSUME NEW k \in Keys, NEW o \in Objects \cup {NoObject}, ClusterChange(k, o)
         PROVE  TypeOK'
    BY <1>1, <1>13, ClusterChangeType
  <1>14. CASE FlipServed \/ EventArrives \/ Cancel \/ Tick
    BY <1>1, <1>14, FlipServedType, OtherEnvType
  <1>15. CASE UNCHANGED vars
    BY <1>1, <1>15 DEF TypeOK, EnvType, ControlType, SeenType, vars
  <1> QED BY <1>2, <1>3, <1>4, <1>5, <1>6, <1>7, <1>8, <1>9, <1>10, <1>11, <1>12, <1>13,
             <1>14, <1>15 DEF Next, RunnerStep, EnvStep, Terminated

LEMMA TypeInit == Init => TypeInv
  <1> SUFFICES ASSUME Init PROVE TypeInv
    OBVIOUS
  <1>1. PICK objs \in Snapshots : hist = <<[objs |-> objs, key |-> NoKey]>>
    BY DEF Init
  <1>2. [objs |-> objs, key |-> NoKey] \in Version
    BY DEF Version
  <1>3. hist \in Seq(Version) /\ Len(hist) = 1
    BY <1>1, <1>2
  <1>4. EnvType
    <2>1. ctxDone \in BOOLEAN /\ served \in BOOLEAN
      BY Zenon DEF Init
    <2>2. now = 0 /\ faults = 0
      BY DEF Init
    <2> QED BY <1>3, <2>1, <2>2 DEF EnvType
  <1>5. ControlType
    <2>1. NoResult \in Outcomes
      BY DEF NoResult, Outcomes, Verdicts
    <2> QED BY <1>3, <2>1, NoCallType, NoTimersType DEF ControlType, Init, PCs
  <1>6. SeenType
    <2>1. NewTracker \in Tracker
      BY DEF NewTracker, Tracker, Verdicts
    <2>2. [emitted |-> FALSE, lastKey |-> << >>, lastEmit |-> 0] \in Progress
      BY DEF Progress
    <2>3. unauthRetried \in BOOLEAN
      BY Zenon DEF Init
    <2>4. /\ pos = 0 /\ arrived = 0 /\ backoff = 0 /\ cache = NoObjects
          /\ last = "pending" /\ noteKind = "none" /\ tracker = NewTracker
          /\ progress = [emitted |-> FALSE, lastKey |-> << >>, lastEmit |-> 0]
      BY DEF Init
    <2> QED BY <1>3, <2>1, <2>2, <2>3, <2>4, NoObjectsType DEF SeenType, Verdicts, Notes
  <1>7. CallOK
    BY DEF Init, NoCall, CallOK, AnswerOK
  <1> QED BY <1>4, <1>5, <1>6, <1>7 DEF TypeInv, TypeOK

LEMMA TypeInvariant == Spec => []TypeInv
  <1>1. TypeInv /\ [Next]_vars => TypeInv'
    BY TypeStep, CallOKStep DEF TypeInv
  <1> QED BY <1>1, TypeInit, PTL DEF Spec

(* Every variable of a wait keeps its type, whatever the server does: the   *)
(* positions stay within the history, so an event or an answer is never     *)
(* looked up outside it.                                                    *)
THEOREM TypeCorrect == Spec => []TypeOK
  <1>1. TypeInv => TypeOK
    BY DEF TypeInv
  <1> QED BY <1>1, TypeInvariant, PTL

------------------------------------------------------------------------------
(* The cache and the settled verdict. *)

(* A version made by the change of a key differs from the one before in     *)
(* that key.                                                                *)
HistChanges ==
    \A i \in 1 .. Len(hist) - 1 :
        hist[i + 1].key # NoKey => hist[i + 1].objs =
            [hist[i].objs EXCEPT ![hist[i + 1].key] = hist[i + 1].objs[hist[i + 1].key]]

(* A kind that is not served has no objects. *)
UnservedEmpty == ~served => hist[Len(hist)].objs = NoObjects

(* ... nor had it when discovery said so. *)
AnswerUnserved ==
    pc = "resolve" /\ call.st = "ok" /\ ~call.served => hist[call.rv].objs = NoObjects

(* From the list to the end of the wait phase, last judges the cache. *)
Judging == {"watch", "wait", "select"}
Judged == pc \in Judging => pos > 0 /\ last = Verdict(s, cache)

ResultAtEnd == result.kind # "none" => pc = "done"

(* A watch delivers only versions made by the change of a key. *)
Streamed == \A i \in pos + 1 .. arrived : hist[i].key # NoKey

ServerInv == HistChanges /\ UnservedEmpty

CoreInv ==
    /\ TypeInv /\ ServerInv
    /\ AnswerUnserved /\ Judged /\ Streamed /\ ResultAtEnd
    /\ CacheIsSnapshot /\ VerdictOfSnapshot

------------------------------------------------------------------------------
(* The server's side. *)

(* The history only grows. *)
LEMMA HistGrows ==
    ASSUME TypeOK, [Next]_vars
    PROVE  /\ Len(hist) \in Nat /\ Len(hist') \in Nat /\ Len(hist') >= Len(hist)
           /\ \A i \in 1 .. Len(hist) : hist'[i] = hist[i]
  <1>1. hist \in Seq(Version) /\ Len(hist) \in Nat
    BY DEF TypeOK, EnvType
  <1>2. ASSUME NEW v, hist' = Append(hist, v)
        PROVE  /\ Len(hist') \in Nat /\ Len(hist') >= Len(hist)
               /\ \A i \in 1 .. Len(hist) : hist'[i] = hist[i]
    BY <1>1, <1>2
  <1>3. CASE UNCHANGED hist
    BY <1>1, <1>3
  <1>4. UNCHANGED hist \/ \E v : hist' = Append(hist, v)
    <2>1. CASE RunnerStep
      BY <2>1, RunnerFrame
    <2>2. ASSUME NEW k \in Keys, NEW o \in Objects \cup {NoObject}, ClusterChange(k, o)
          PROVE  \E v : hist' = Append(hist, v)
      BY <2>2 DEF ClusterChange
    <2>3. CASE FlipServed
      BY <2>3, FlipServedCases
    <2>4. CASE \/ ServerAnswers \/ \E e \in ErrKinds : ServerFails(e)
               \/ RequestExpires \/ RequestCancelled \/ EventArrives \/ Cancel
               \/ Tick \/ UNCHANGED vars
      BY <2>4 DEF Tick, vars, ServerAnswers, ServerFails, RequestExpires, RequestCancelled,
                  Answer, EventArrives, Cancel, env
    <2> QED BY <2>1, <2>2, <2>3, <2>4 DEF Next, EnvStep, Terminated
  <1> QED BY <1>1, <1>2, <1>3, <1>4

(* One more version, made by the change of its key if it has one. *)
LEMMA NewVersionStep ==
    ASSUME TypeOK, HistChanges, NEW v \in Version, hist' = Append(hist, v),
           v.key # NoKey =>
               v.objs = [hist[Len(hist)].objs EXCEPT ![v.key] = v.objs[v.key]]
    PROVE  HistChanges' /\ hist'[Len(hist')] = v
  <1> DEFINE n == Len(hist)
  <1>1. hist \in Seq(Version) /\ n \in Nat /\ n >= 1
    BY DEF TypeOK, EnvType
  <1>2. Len(hist') = n + 1 /\ hist'[n + 1] = v /\ \A i \in 1 .. n : hist'[i] = hist[i]
    BY <1>1
  <1>3. ASSUME NEW i \in 1 .. Len(hist') - 1, hist'[i + 1].key # NoKey
        PROVE  hist'[i + 1].objs =
                 [hist'[i].objs EXCEPT ![hist'[i + 1].key] = hist'[i + 1].objs[hist'[i + 1].key]]
    <2>1. CASE i = n
      BY <1>1, <1>2, <1>3, <2>1
    <2>2. CASE i # n
      <3>1. i \in 1 .. n - 1 /\ i + 1 \in 1 .. n /\ i \in 1 .. n
        BY <1>1, <1>2, <2>2
      <3> QED BY <1>2, <1>3, <3>1 DEF HistChanges
    <2> QED BY <2>1, <2>2
  <1> QED BY <1>2, <1>3 DEF HistChanges

LEMMA ServerStep == ASSUME TypeOK, ServerInv, [Next]_vars PROVE ServerInv'
  <1>1. CASE UNCHANGED <<served, hist>>
    BY <1>1 DEF ServerInv, HistChanges, UnservedEmpty
  <1>2. CASE FlipServed
    <2>1. served' = ~served /\ HistChanges
      BY <1>2 DEF FlipServed, ServerInv
    <2>2. CASE hist' = hist /\ (served => hist[Len(hist)].objs = NoObjects)
      BY <2>1, <2>2 DEF ServerInv, HistChanges, UnservedEmpty
    <2>3. ASSUME NEW objs \in Snapshots, served => objs = NoObjects,
                 hist' = Append(hist, [objs |-> objs, key |-> NoKey])
          PROVE  ServerInv'
      <3> DEFINE v == [objs |-> objs, key |-> NoKey]
      <3>1. v \in Version /\ v.key = NoKey /\ v.objs = objs /\ hist' = Append(hist, v)
        BY <2>3 DEF Version
      <3> HIDE DEF v
      <3>2. HistChanges' /\ hist'[Len(hist')] = v
        BY <2>1, <3>1, NewVersionStep
      <3> QED BY <2>1, <2>3, <3>1, <3>2 DEF ServerInv, UnservedEmpty
    <2> QED BY <1>2, <2>2, <2>3, FlipServedCases
  <1>3. ASSUME NEW k \in Keys, NEW o \in Objects \cup {NoObject}, ClusterChange(k, o)
        PROVE  ServerInv'
    <2> DEFINE was == hist[Len(hist)].objs
               v == [objs |-> [was EXCEPT ![k] = o], key |-> k]
    <2>1. was \in [Keys -> Objects \cup {NoObject}]
      BY LatestType DEF Snapshots
    <2>2. v.objs = [was EXCEPT ![v.key] = v.objs[v.key]]
      BY <2>1
    <2>3. v \in Version /\ hist' = Append(hist, v) /\ served' /\ HistChanges
      BY <1>3, ClusterChangeVersion DEF ClusterChange, ServerInv
    <2> HIDE DEF v
    <2> QED BY <2>2, <2>3, NewVersionStep DEF ServerInv, UnservedEmpty
  <1>4. UNCHANGED <<served, hist>> \/ FlipServed
        \/ \E k \in Keys, o \in Objects \cup {NoObject} : ClusterChange(k, o)
    <2>1. CASE RunnerStep
      BY <2>1, RunnerFrame
    <2>2. CASE EnvStep \/ Tick \/ Terminated \/ UNCHANGED vars
      BY <2>2 DEF EnvStep, Tick, Terminated, vars, ServerAnswers, ServerFails, RequestExpires,
                  RequestCancelled, Answer, EventArrives, Cancel, env
    <2> QED BY <2>1, <2>2 DEF Next
  <1> QED BY <1>1, <1>2, <1>3, <1>4

------------------------------------------------------------------------------
(* The runner's side: the cache and the verdict of it. *)

RunnerInv ==
    AnswerUnserved /\ Judged /\ Streamed /\ ResultAtEnd /\ CacheIsSnapshot /\ VerdictOfSnapshot

(* A step away from the wait phase: the cache is kept, and a result, if it  *)
(* brings one, is not a settled one.                                        *)
Elsewhere ==
    /\ UNCHANGED <<hist, s, cache, pos, arrived>>
    /\ pc # "done" /\ pc' \notin Judging
    /\ pc' = "resolve" => call'.st = "waiting"
    /\ \/ result' = result
       \/ pc' = "done" /\ result'.kind \in {"timeout", "fatal", "cancelled"}

LEMMA ElsewhereStep == ASSUME RunnerInv, Elsewhere PROVE RunnerInv'
  BY DEF RunnerInv, Elsewhere, AnswerUnserved, Judged, Streamed, ResultAtEnd,
         CacheIsSnapshot, VerdictOfSnapshot

LEMMA ElsewhereActions ==
    ASSUME \/ LoopCancelled \/ SelectCancelled \/ SleepingCancelled
           \/ LoopTimeout \/ WaitTimeout \/ SleepTimeout
           \/ LoopStart \/ ResolveReturns \/ ResolveWrongScope
           \/ WatchGone \/ WaitSettleByList \/ WaitResync \/ SelectGone \/ SleepOver
           \/ SelectClosed \/ SleepBlock \/ SleepingTimer
           \/ CallFails \/ \E e \in ErrKinds : SelectError(e)
    PROVE  Elsewhere
  <1> USE DEF Elsewhere, Judging, Requesting, env, End, Loop, Sleep, Ask
  <1>1. CASE \/ LoopCancelled \/ SelectCancelled \/ SleepingCancelled
             \/ LoopTimeout \/ WaitTimeout \/ SleepTimeout \/ ResolveWrongScope
    BY <1>1 DEF LoopCancelled, SelectCancelled, SleepingCancelled, LoopTimeout, WaitTimeout,
                SleepTimeout, ResolveWrongScope, cancelled, timeout, fatal
  <1>2. CASE LoopStart \/ ResolveReturns
    BY <1>2 DEF LoopStart, ResolveReturns, NoCall
  <1>3. CASE WatchGone \/ WaitSettleByList \/ WaitResync \/ SelectGone \/ SleepOver
    BY <1>3 DEF WatchGone, WaitSettleByList, WaitResync, SelectGone, SleepOver, Drained
  <1>4. CASE SelectClosed \/ SleepBlock \/ SleepingTimer
    BY <1>4 DEF SelectClosed, SleepBlock, SleepingTimer, Drained
  <1>5. CASE CallFails
    BY <1>5 DEF CallFails, apiError, fatal
  <1>6. ASSUME NEW e \in ErrKinds, SelectError(e) PROVE Elsewhere
    BY <1>6 DEF SelectError, apiError, fatal, Drained
  <1> QED BY <1>1, <1>2, <1>3, <1>4, <1>5, <1>6

(* A refresh leaves the cache at the version its answer named, and judged. *)
LEMMA RefreshStep ==
    ASSUME TypeInv, RunnerInv, call.st = "ok", pc \in {"resolve", "list"},
           NEW objs, NEW n, hist[call.rv].objs = objs, Refresh(objs, n), UNCHANGED <<hist, s>>,
           pc' # "resolve",
           \/ pc' \in Judging /\ result' = result
           \/ pc' = "done" /\ result'.verdict = Verdict(s, objs)
    PROVE  RunnerInv'
  <1>1. /\ call.rv \in Nat /\ call.rv > 0 /\ pos' = call.rv /\ arrived' = call.rv
        /\ cache' = objs /\ last' = Verdict(s, objs)
    BY DEF TypeInv, TypeOK, CallOK, AnswerOK, ControlType, Calls, Refresh, observe
  <1>2. result.kind = "none"
    BY DEF RunnerInv, ResultAtEnd
  <1>3. Streamed'
    BY <1>1 DEF Streamed
  <1> QED BY <1>1, <1>2, <1>3 DEF RunnerInv, AnswerUnserved, Judged, Judging, ResultAtEnd,
             CacheIsSnapshot, VerdictOfSnapshot

LEMMA ResolveUnservedStep ==
    ASSUME TypeInv, RunnerInv, ResolveUnserved, UNCHANGED <<hist, s>>
    PROVE  RunnerInv'
  <1>1. /\ call.st = "ok" /\ pc = "resolve" /\ hist[call.rv].objs = NoObjects
        /\ Refresh(NoObjects, "notServed")
    BY DEF ResolveUnserved, RunnerInv, AnswerUnserved
  <1>2. /\ pc' # "resolve"
        /\ \/ pc' \in Judging /\ result' = result
           \/ pc' = "done" /\ result'.verdict = Verdict(s, NoObjects)
    BY DEF ResolveUnserved, EndSettled, End, EnterWait, Judging
  <1> QED BY <1>1, <1>2, RefreshStep

LEMMA ListReturnsStep ==
    ASSUME TypeInv, RunnerInv, ListReturns, UNCHANGED <<hist, s>>
    PROVE  RunnerInv'
  <1> DEFINE objs == hist[call.rv].objs
  <1>1. call.st = "ok" /\ pc = "list" /\ Refresh(objs, "none")
    BY DEF ListReturns
  <1>2. /\ pc' # "resolve"
        /\ \/ pc' \in Judging /\ result' = result
           \/ pc' = "done" /\ result'.verdict = Verdict(s, objs)
    BY DEF ListReturns, EndSettled, End, EnterWait, Ask, Judging
  <1> HIDE DEF objs
  <1>3. hist[call.rv].objs = objs
    BY DEF objs
  <1> QED BY <1>1, <1>2, <1>3, RefreshStep

(* The steps of the wait phase that observe nothing. *)
LEMMA WaitPhaseStep ==
    ASSUME RunnerInv, UNCHANGED <<hist, s>>,
           WatchReturns \/ WaitBlock \/ SelectTimer \/ SelectBookmark
    PROVE  RunnerInv'
  <1>1. /\ UNCHANGED <<cache, pos, arrived, last, result>>
        /\ pc \in Judging /\ pc' \in {"wait", "select"}
    BY DEF WatchReturns, WaitBlock, SelectTimer, SelectBookmark, Drained, EnterWait, Turn,
           seen, Judging
  <1> QED BY <1>1 DEF RunnerInv, AnswerUnserved, Judged, Judging, Streamed, ResultAtEnd,
             CacheIsSnapshot, VerdictOfSnapshot

(* The next event turns the cached version into the next one. *)
LEMMA SelectEventStep ==
    ASSUME TypeInv, ServerInv, RunnerInv, SelectEvent, UNCHANGED <<hist, s>>
    PROVE  RunnerInv'
  <1>1. pos > 0 /\ cache = hist[pos].objs /\ result.kind = "none"
    BY DEF RunnerInv, Judged, Judging, CacheIsSnapshot, ResultAtEnd, SelectEvent
  <1>2. pos \in 1 .. Len(hist) - 1 /\ pos \in Nat
    BY <1>1 DEF SelectEvent, TypeInv, TypeOK, EnvType, SeenType
  <1>3. pos + 1 \in pos + 1 .. arrived /\ arrived \in Nat
    BY <1>2 DEF SelectEvent, TypeInv, TypeOK, SeenType
  <1>4. applied = hist[pos + 1].objs
    <2>1. hist[pos + 1].key # NoKey
      BY <1>3 DEF RunnerInv, Streamed
    <2> QED BY <1>1, <1>2, <2>1 DEF ServerInv, HistChanges, applied
  <1>5. cache' = applied /\ pos' = pos + 1 /\ last' = Verdict(s, applied)
    BY DEF SelectEvent, observe
  <1>6. \/ pc' = "wait" /\ result' = result
        \/ pc' = "done" /\ result'.verdict = Verdict(s, applied)
    BY DEF SelectEvent, EndSettled, End, Turn
  <1>7. pos' > 0 /\ cache' = hist'[pos'].objs
    BY <1>2, <1>4, <1>5
  <1>8. Judged' /\ CacheIsSnapshot'
    BY <1>5, <1>7 DEF Judged, CacheIsSnapshot
  <1>9. VerdictOfSnapshot'
    BY <1>1, <1>5, <1>6, <1>7 DEF VerdictOfSnapshot
  <1>10. Streamed'
    <2>1. arrived' = arrived /\ hist' = hist
      BY DEF SelectEvent
    <2> QED BY <1>2, <1>3, <1>5, <2>1 DEF RunnerInv, Streamed
  <1> QED BY <1>1, <1>6, <1>8, <1>9, <1>10 DEF RunnerInv, AnswerUnserved, ResultAtEnd

LEMMA WaitSettleByWatchStep ==
    ASSUME RunnerInv, WaitSettleByWatch, UNCHANGED <<hist, s>>
    PROVE  RunnerInv'
  <1>1. pos > 0 /\ cache = hist[pos].objs /\ last = Verdict(s, cache)
    BY DEF RunnerInv, Judged, Judging, CacheIsSnapshot, WaitSettleByWatch
  <1>2. UNCHANGED <<cache, pos, arrived>> /\ pc' = "done" /\ result'.verdict = last
    BY DEF WaitSettleByWatch, EndSettled, End
  <1> QED BY <1>1, <1>2 DEF RunnerInv, AnswerUnserved, Judged, Judging, Streamed, ResultAtEnd,
             CacheIsSnapshot, VerdictOfSnapshot

(* What the environment does cannot touch what the runner has. *)
LEMMA EnvironmentStep ==
    ASSUME TypeInv, ServerInv, RunnerInv, EnvStep \/ Tick \/ UNCHANGED vars, [Next]_vars
    PROVE  RunnerInv'
  <1>1. UNCHANGED <<s, pc, result, cache, pos, last>>
    BY EnvFrame DEF runnerVars, vars
  <1>2. \A i \in 1 .. Len(hist) : hist'[i] = hist[i]
    BY HistGrows DEF TypeInv
  <1>3. pos \in Nat /\ pos <= Len(hist) /\ Len(hist) \in Nat
    BY DEF TypeInv, TypeOK, EnvType, SeenType
  <1>4. pos > 0 => hist'[pos] = hist[pos]
    BY <1>2, <1>3
  <1>5. Judged' /\ ResultAtEnd' /\ CacheIsSnapshot' /\ VerdictOfSnapshot'
    BY <1>1, <1>4 DEF RunnerInv, Judged, ResultAtEnd, CacheIsSnapshot, VerdictOfSnapshot
  <1>6. AnswerUnserved'
    <2>1. CASE call' = call
      <3>1. call.st = "ok" => call.rv \in 1 .. Len(hist)
        BY DEF TypeInv, TypeOK, ControlType, EnvType, Calls, CallOK, AnswerOK
      <3> QED BY <1>1, <1>2, <2>1, <3>1 DEF RunnerInv, AnswerUnserved
    <2>2. CASE ServerAnswers
      <3>1. hist' = hist /\ served' = served
        BY <2>2 DEF ServerAnswers, Answer
      <3>2. CASE pc = "resolve"
        <4>1. call' = [call EXCEPT !.st = "ok", !.served = served, !.rv = Len(hist)]
          BY <2>2, <3>2 DEF ServerAnswers, Answer
        <4>2. call'.served = served /\ call'.rv = Len(hist)
          BY <4>1 DEF TypeInv, TypeOK, ControlType, Calls
        <4> QED BY <3>1, <4>2 DEF ServerInv, UnservedEmpty, AnswerUnserved
      <3>3. CASE pc # "resolve"
        BY <1>1, <3>3 DEF AnswerUnserved
      <3> QED BY <3>2, <3>3
    <2>3. CASE call'.st = "failed"
      BY <2>3 DEF AnswerUnserved
    <2>4. call' = call \/ ServerAnswers \/ call'.st = "failed"
      BY DEF EnvStep, Tick, vars, ServerFails, RequestExpires, RequestCancelled, Answer,
             ClusterChange, FlipServed, EventArrives, Cancel, TypeInv, TypeOK, ControlType, Calls
    <2> QED BY <2>1, <2>2, <2>3, <2>4
  <1>7. Streamed'
    <2>1. pos' = pos /\ arrived \in Nat /\ arrived <= Len(hist)
      BY <1>1 DEF TypeInv, TypeOK, SeenType
    <2>2. CASE arrived' = arrived
      BY <1>2, <1>3, <2>1, <2>2 DEF RunnerInv, Streamed
    <2>3. CASE EventArrives
      <3>1. /\ hist[arrived + 1].key # NoKey /\ arrived' = arrived + 1 /\ hist' = hist
        BY <2>3 DEF EventArrives, env
      <3>2. \A i \in pos + 1 .. arrived + 1 : i \in pos + 1 .. arrived \/ i = arrived + 1
        BY <1>3, <2>1
      <3> QED BY <2>1, <3>1, <3>2 DEF RunnerInv, Streamed
    <2>4. arrived' = arrived \/ EventArrives
      BY DEF EnvStep, Tick, vars, ServerAnswers, ServerFails, RequestExpires, RequestCancelled,
             Answer, ClusterChange, FlipServed, Cancel
    <2> QED BY <2>2, <2>3, <2>4
  <1> QED BY <1>5, <1>6, <1>7 DEF RunnerInv

LEMMA RunnerInvStep ==
    ASSUME TypeInv, ServerInv, RunnerInv, [Next]_vars
    PROVE  RunnerInv'
  <1>1. CASE RunnerStep
    <2>1. UNCHANGED <<hist, s>>
      BY <1>1, RunnerFrame
    <2>2. CASE Elsewhere
      BY <2>2, ElsewhereStep
    <2>3. CASE ResolveUnserved \/ ListReturns \/ SelectEvent \/ WaitSettleByWatch
      BY <2>1, <2>3, ResolveUnservedStep, ListReturnsStep, SelectEventStep,
         WaitSettleByWatchStep
    <2>4. CASE WatchReturns \/ WaitBlock \/ SelectTimer \/ SelectBookmark
      BY <2>1, <2>4, WaitPhaseStep
    <2> QED BY <1>1, <2>2, <2>3, <2>4, ElsewhereActions DEF RunnerStep
  <1>2. CASE EnvStep \/ Tick \/ UNCHANGED vars
    BY <1>2, EnvironmentStep
  <1> QED BY <1>1, <1>2 DEF Next, Terminated

LEMMA CoreInit == Init => CoreInv
  <1> SUFFICES ASSUME Init PROVE CoreInv
    OBVIOUS
  <1>1. TypeInv
    BY TypeInit
  <1>2. ServerInv
    <2>1. PICK objs \in Snapshots :
             (~served => objs = NoObjects) /\ hist = <<[objs |-> objs, key |-> NoKey]>>
      BY DEF Init
    <2>2. Len(hist) = 1 /\ hist[1].objs = objs
      BY <2>1
    <2> QED BY <2>1, <2>2 DEF ServerInv, HistChanges, UnservedEmpty
  <1>3. RunnerInv
    BY DEF Init, NoResult, RunnerInv, AnswerUnserved, Judged, Judging, Streamed, ResultAtEnd,
           CacheIsSnapshot, VerdictOfSnapshot
  <1> QED BY <1>1, <1>2, <1>3 DEF CoreInv, RunnerInv

LEMMA CoreInvariant == Spec => []CoreInv
  <1>1. CoreInv /\ [Next]_vars => CoreInv'
    <2> SUFFICES ASSUME CoreInv, [Next]_vars PROVE CoreInv'
      OBVIOUS
    <2>1. TypeInv /\ ServerInv /\ RunnerInv
      BY DEF CoreInv, RunnerInv
    <2>2. TypeInv'
      BY <2>1, TypeStep, CallOKStep DEF TypeInv
    <2>3. ServerInv'
      BY <2>1, ServerStep DEF TypeInv
    <2>4. RunnerInv'
      BY <2>1, RunnerInvStep
    <2> QED BY <2>2, <2>3, <2>4 DEF CoreInv, RunnerInv
  <1> QED BY <1>1, CoreInit, PTL DEF Spec

(* Through lists, watches, re-lists, errors and an unserved kind, the cache *)
(* of run is always the selection as the server had it at one version.      *)
THEOREM CacheCorrect == Spec => []CacheIsSnapshot
  <1>1. CoreInv => CacheIsSnapshot
    BY DEF CoreInv
  <1> QED BY <1>1, CoreInvariant, PTL

(* A settled Result is the evaluator's verdict of such a snapshot: no retry *)
(* or error becomes an outcome, however the requests and events interleave. *)
THEOREM SettledVerdictCorrect == Spec => []VerdictOfSnapshot
  <1>1. CoreInv => VerdictOfSnapshot
    BY DEF CoreInv
  <1> QED BY <1>1, CoreInvariant, PTL
==============================================================================

------------------------- MODULE WatcherReportProofs -------------------------
(***************************************************************************)
(* Proofs about what a wait reports and when it wakes up, for every set of *)
(* keys, objects and configurations and every value of the durations.      *)
(***************************************************************************)
EXTENDS WatcherProofs

------------------------------------------------------------------------------
(* The timers of the two selects. *)

(* Only the two blocking steps lead to a select. *)
LEMMA OnlyBlocksBlock ==
    ASSUME RunnerStep, ~WaitBlock, ~SleepBlock
    PROVE  pc' \notin {"select", "sleeping"}
  <1> USE DEF End, Loop, Sleep, EnterWait, Turn, Ask, EndSettled
  <1>1. CASE LoopCancelled \/ LoopTimeout \/ LoopStart
    BY <1>1 DEF LoopCancelled, LoopTimeout, LoopStart, cancelled, timeout
  <1>2. CASE ResolveReturns \/ ResolveWrongScope \/ ResolveUnserved \/ ListReturns
    BY <1>2 DEF ResolveReturns, ResolveWrongScope, ResolveUnserved, ListReturns, fatal
  <1>3. CASE WatchReturns \/ WatchGone \/ CallFails
    BY <1>3 DEF WatchReturns, WatchGone, CallFails, apiError, fatal
  <1>4. CASE WaitTimeout \/ WaitSettleByList \/ WaitSettleByWatch \/ WaitResync
    BY <1>4 DEF WaitTimeout, WaitSettleByList, WaitSettleByWatch, WaitResync, timeout
  <1>5. CASE SelectCancelled \/ SelectTimer \/ SelectEvent \/ SelectBookmark
    BY <1>5 DEF SelectCancelled, SelectTimer, SelectEvent, SelectBookmark, cancelled
  <1>6. CASE SelectClosed \/ SelectGone \/ \E e \in ErrKinds \ {"gone"} : SelectError(e)
    BY <1>6 DEF SelectClosed, SelectGone, SelectError, apiError, fatal
  <1>7. CASE SleepTimeout \/ SleepOver \/ SleepingCancelled \/ SleepingTimer
    BY <1>7 DEF SleepTimeout, SleepOver, SleepingCancelled, SleepingTimer, cancelled, timeout
  <1> QED BY <1>1, <1>2, <1>3, <1>4, <1>5, <1>6, <1>7 DEF RunnerStep

LEMMA EarliestBound ==
    ASSUME NEW a \in Nat, NEW b \in Nat
    PROVE  /\ earliest(a, b) \in Nat /\ earliest(a, b) <= a /\ earliest(a, b) <= b
           /\ earliest(a, b) \in {a, b}
  BY DEF earliest

LEMMA EarliestOfThree ==
    ASSUME NEW a \in Nat, NEW b \in Nat, NEW c \in Nat, NEW n \in Nat, n < a, n < b, n < c
    PROVE  LET w == earliest(earliest(a, b), c)
           IN w \in Nat /\ w > n /\ w <= a /\ w <= b /\ w <= c
  BY DEF earliest

(* Once heartbeat has been called, the next one is ahead. *)
LEMMA HeartbeatAhead ==
    ASSUME TypeOK, now < s.Timeout
    PROVE  nextHeartbeat(heartbeat) > now
  <1>1. /\ now \in Nat /\ s.Timeout \in Nat /\ s.ProgressInterval \in Nat
        /\ s.ProgressInterval > 0 /\ progress \in Progress
    BY SpecType DEF TypeOK, EnvType, SeenType
  <1>2. progress.lastEmit \in Nat
    BY <1>1 DEF Progress
  <1>3. CASE progress.emitted /\ now - progress.lastEmit >= s.ProgressInterval
    <2>1. heartbeat.emitted /\ heartbeat.lastEmit = now
      BY <1>3 DEF heartbeat, emit
    <2> QED BY <1>1, <2>1 DEF nextHeartbeat
  <1>4. CASE ~(progress.emitted /\ now - progress.lastEmit >= s.ProgressInterval)
    <2>1. heartbeat = progress
      BY <1>4 DEF heartbeat
    <2> QED BY <1>1, <1>2, <1>4, <2>1 DEF nextHeartbeat
  <1> QED BY <1>3, <1>4

(* The timer of waitPhase's select is ahead, and not after any of the       *)
(* moments it stands for.                                                   *)
LEMMA WaitWakeTimely ==
    ASSUME TypeOK, now < s.Timeout, now < timers.resyncAt, ~settleDue
    PROVE  LET w == waitWake(heartbeat)
           IN /\ w > now /\ w <= s.Timeout /\ w <= timers.resyncAt
              /\ w <= nextHeartbeat(heartbeat)
              /\ HasDeadline(tracker) => w <= Deadline(tracker, s.Settle)
  <1> DEFINE h == nextHeartbeat(heartbeat)
             d == Deadline(tracker, s.Settle)
             next == earliest(earliest(timers.resyncAt, s.Timeout), h)
  <1>1. /\ now \in Nat /\ s.Timeout \in Nat /\ timers.resyncAt \in Nat /\ s.Settle \in Nat
        /\ tracker \in Tracker
    BY SpecType DEF TypeOK, EnvType, ControlType, SeenType, Timers
  <1>2. h \in Nat /\ h > now
    BY HeartbeatAhead, HeartbeatType, NextHeartbeatType DEF TypeOK
  <1>3. d \in Nat
    BY <1>1 DEF Deadline, Tracker
  <1>4. HasDeadline(tracker) => d > now
    BY <1>1, <1>3 DEF settleDue
  <1>5. waitWake(heartbeat) = IF HasDeadline(tracker) /\ d > now THEN earliest(next, d) ELSE next
    BY DEF waitWake
  <1> HIDE DEF h, d
  <1>6. /\ next \in Nat /\ next <= timers.resyncAt /\ next <= s.Timeout /\ next <= h
        /\ next > now
    BY <1>1, <1>2, EarliestOfThree
  <1> HIDE DEF next
  <1>7. HasDeadline(tracker) =>
          earliest(next, d) <= next /\ earliest(next, d) <= d /\ earliest(next, d) > now
    BY <1>1, <1>3, <1>4, <1>6, EarliestBound
  <1>8. earliest(next, d) \in Nat
    BY <1>3, <1>6, EarliestBound
  <1>9. CASE HasDeadline(tracker)
    <2>1. waitWake(heartbeat) = earliest(next, d)
      BY <1>4, <1>5, <1>9
    <2> QED BY <1>1, <1>2, <1>3, <1>6, <1>7, <1>8, <1>9, <2>1 DEF h, d
  <1>10. CASE ~HasDeadline(tracker)
    <2>1. waitWake(heartbeat) = next
      BY <1>5, <1>10
    <2> QED BY <1>6, <1>10, <2>1 DEF h
  <1> QED BY <1>9, <1>10

LEMMA SleepWakeTimely ==
    ASSUME TypeOK, now < s.Timeout, now < timers.until
    PROVE  LET w == earliest(earliest(timers.until, s.Timeout), nextHeartbeat(heartbeat))
           IN w > now /\ w <= s.Timeout /\ w <= timers.until /\ w <= nextHeartbeat(heartbeat)
  <1>1. now \in Nat /\ s.Timeout \in Nat /\ timers.until \in Nat
    BY SpecType DEF TypeOK, EnvType, ControlType, Timers
  <1>2. nextHeartbeat(heartbeat) \in Nat /\ nextHeartbeat(heartbeat) > now
    BY HeartbeatAhead, HeartbeatType, NextHeartbeatType DEF TypeOK
  <1> QED BY <1>1, <1>2, EarliestOfThree

(* The runner never blocks on a timer that is already due: no heartbeat,    *)
(* resync or settle deadline can make waitPhase or sleep spin.              *)
THEOREM NeverSpins == Spec => NoBusyWait
  <1> DEFINE P == pc' \in {"select", "sleeping"} /\ pc' # pc => timers'.wake > now
  <1>1. TypeInv /\ [Next]_vars => [P]_vars
    <2> SUFFICES ASSUME TypeInv, [Next]_vars PROVE P \/ UNCHANGED vars
      OBVIOUS
    <2>1. TypeOK /\ timers \in Timers
      BY DEF TypeInv, TypeOK, ControlType
    <2>2. CASE WaitBlock
      <3>1. waitWake(heartbeat) > now /\ timers' = [timers EXCEPT !.wake = waitWake(heartbeat)]
        BY <2>1, <2>2, WaitWakeTimely DEF WaitBlock
      <3> QED BY <2>1, <3>1 DEF Timers
    <2>3. CASE SleepBlock
      <3> DEFINE w == earliest(earliest(timers.until, s.Timeout), nextHeartbeat(heartbeat))
      <3>1. w > now
        BY <2>1, <2>3, SleepWakeTimely DEF SleepBlock
      <3>2. timers' = [timers EXCEPT !.wake = w]
        BY <2>3 DEF SleepBlock
      <3> QED BY <2>1, <3>1, <3>2 DEF Timers
    <2>4. CASE RunnerStep /\ ~WaitBlock /\ ~SleepBlock
      BY <2>4, OnlyBlocksBlock
    <2>5. CASE EnvStep \/ Tick
      BY <2>5, EnvFrame DEF runnerVars
    <2> QED BY <2>2, <2>3, <2>4, <2>5 DEF Next, Terminated
  <1> QED BY <1>1, TypeInvariant, PTL DEF Spec, NoBusyWait

(* A blocked runner wakes up no later than the deadline, the resync or the  *)
(* end of its sleep, the next heartbeat, and the moment its verdict settles.*)
THEOREM WakesInTime == Spec => []WakeIsTimely
  <1>1. Init => WakeIsTimely
    BY DEF Init, WakeIsTimely
  <1>2. TypeInv /\ WakeIsTimely /\ [Next]_vars => WakeIsTimely'
    <2> SUFFICES ASSUME TypeInv, WakeIsTimely, [Next]_vars PROVE WakeIsTimely'
      OBVIOUS
    <2>1. TypeOK /\ timers \in Timers
      BY DEF TypeInv, TypeOK, ControlType
    <2>2. CASE WaitBlock
      <3> DEFINE w == waitWake(heartbeat)
      <3>1. /\ w <= s.Timeout /\ w <= timers.resyncAt /\ w <= nextHeartbeat(heartbeat)
            /\ HasDeadline(tracker) => w <= Deadline(tracker, s.Settle)
        BY <2>1, <2>2, WaitWakeTimely DEF WaitBlock
      <3>2. /\ pc' = "select" /\ UNCHANGED <<s, tracker>> /\ progress' = heartbeat
            /\ timers' = [timers EXCEPT !.wake = w]
        BY <2>2 DEF WaitBlock, seen
      <3> HIDE DEF w
      <3>3. timers'.wake = w /\ timers'.resyncAt = timers.resyncAt
        BY <2>1, <3>2 DEF Timers
      <3>4. progress'.emitted => w <= progress'.lastEmit + s.ProgressInterval
        BY <3>1, <3>2 DEF nextHeartbeat
      <3> QED BY <3>1, <3>2, <3>3, <3>4 DEF WakeIsTimely
    <2>3. CASE SleepBlock
      <3> DEFINE w == earliest(earliest(timers.until, s.Timeout), nextHeartbeat(heartbeat))
      <3>1. w <= s.Timeout /\ w <= timers.until /\ w <= nextHeartbeat(heartbeat)
        BY <2>1, <2>3, SleepWakeTimely DEF SleepBlock
      <3>2. /\ pc' = "sleeping" /\ s' = s /\ progress' = heartbeat
            /\ timers' = [timers EXCEPT !.wake = w]
        BY <2>3 DEF SleepBlock
      <3> HIDE DEF w
      <3>3. timers'.wake = w /\ timers'.until = timers.until
        BY <2>1, <3>2 DEF Timers
      <3>4. progress'.emitted => w <= progress'.lastEmit + s.ProgressInterval
        BY <3>1, <3>2 DEF nextHeartbeat
      <3> QED BY <3>1, <3>2, <3>3, <3>4 DEF WakeIsTimely
    <2>4. CASE RunnerStep /\ ~WaitBlock /\ ~SleepBlock
      BY <2>4, OnlyBlocksBlock DEF WakeIsTimely
    <2>5. CASE EnvStep \/ Tick \/ UNCHANGED vars
      <3>1. UNCHANGED <<s, pc, timers, progress, tracker>>
        BY <2>5, EnvFrame DEF runnerVars, vars
      <3> QED BY <3>1 DEF WakeIsTimely
    <2> QED BY <2>2, <2>3, <2>4, <2>5 DEF Next, Terminated
  <1> QED BY <1>1, <1>2, TypeInvariant, PTL DEF Spec

------------------------------------------------------------------------------
(* Cycles are paced.  The inductive invariant relates the timers to the     *)
(* start of the cycle: a resync is a poll_interval away from it and a sleep *)
(* ends at least a pause after it; the backoff is zero from a list to the   *)
(* next error.                                                              *)

PaceInv ==
    /\ timers.cycleStart <= now
    /\ pc \in {"watch", "wait", "select"} => backoff = 0
    /\ pc \in {"wait", "select"} => timers.resyncAt >= timers.cycleStart + s.PollInterval
    /\ pc \in {"sleep", "sleeping"} => timers.until >= timers.cycleStart + pause

(* What the pacing reads, with its types. *)
Paced ==
    /\ now \in Nat /\ timers \in Timers /\ backoff \in Nat
    /\ s.PollInterval \in Nat /\ s.PollInterval > 0
    /\ MinCycle \in Nat /\ MinBackoff \in Nat /\ MinBackoff > 0

LEMMA PacedTypes == ASSUME TypeOK PROVE Paced
  BY SpecType, ConstantsAssumption DEF TypeOK, EnvType, ControlType, SeenType, Paced

(* Wherever the timers are clear, as they are at the top of loop and at the *)
(* end, the invariant asks nothing.                                         *)
LEMMA PaceClear ==
    ASSUME Paced, now' = now, timers' = NoTimers, pc' \in {"loop", "done"}
    PROVE  PaceInv'
  <1>1. timers'.cycleStart = 0
    BY DEF NoTimers
  <1> QED BY <1>1 DEF Paced, PaceInv

LEMMA PaceSame ==
    ASSUME PaceInv, Paced, now' >= now, now' \in Nat, s' = s, backoff' = backoff,
           timers'.cycleStart = timers.cycleStart, timers'.resyncAt = timers.resyncAt,
           timers'.until = timers.until,
           \/ pc' = pc
           \/ pc = "resolve" /\ pc' = "list"
           \/ pc \in {"wait", "select"} /\ pc' \in {"wait", "select"}
           \/ pc \in {"sleep", "sleeping"} /\ pc' \in {"sleep", "sleeping"}
    PROVE  PaceInv'
  <1>1. pause' = pause
    BY DEF pause, earliest
  <1> QED BY <1>1 DEF Paced, PaceInv, Timers

LEMMA PaceSleep ==
    ASSUME PaceInv, Paced, now' = now, s' = s, NEW d \in Nat, Sleep(d),
           now + d >= timers.cycleStart + pause'
    PROVE  PaceInv'
  <1>1. timers'.cycleStart = timers.cycleStart /\ timers'.until = now + d /\ pc' = "sleep"
    BY DEF Sleep, Paced, Timers
  <1> QED BY <1>1 DEF Paced, PaceInv

LEMMA PaceError ==
    ASSUME PaceInv, Paced, NEW e, apiError(e), now' = now
    PROVE  PaceInv'
  <1>1. CASE fatal
    BY <1>1, PaceClear DEF fatal, End
  <1>2. CASE Loop
    BY <1>2, PaceClear DEF Loop
  <1>3. CASE backoff' = nextBackoff /\ Sleep(nextBackoff)
    <2>1. nextBackoff \in Nat /\ nextBackoff > 0
      BY DEF nextBackoff, Paced
    <2>2. pause' = nextBackoff
      BY <1>3, <2>1 DEF pause
    <2>3. now + nextBackoff >= timers.cycleStart + pause'
      BY <2>1, <2>2 DEF PaceInv, Paced, Timers
    <2> QED BY <1>3, <2>1, <2>3, PaceSleep DEF Sleep
  <1> QED BY <1>1, <1>2, <1>3 DEF apiError

LEMMA PaceEnterWait ==
    ASSUME PaceInv, Paced, now' = now, NEW w, EnterWait(w), backoff' = 0
    PROVE  PaceInv'
  <1>1. /\ timers'.cycleStart = timers.cycleStart /\ timers'.resyncAt = now + s.PollInterval
        /\ s' = s /\ pc' = "wait"
    BY DEF EnterWait, Paced, Timers
  <1> QED BY <1>1 DEF Paced, PaceInv, Timers

LEMMA PaceStep == ASSUME TypeInv, PaceInv, [Next]_vars PROVE PaceInv'
  <1>1. Paced
    BY PacedTypes DEF TypeInv
  <1>2. timers \in Timers
    BY <1>1 DEF Paced
  <1>3. CASE \/ LoopCancelled \/ LoopTimeout \/ WaitTimeout \/ SleepTimeout
             \/ SelectCancelled \/ SleepingCancelled \/ ResolveWrongScope
    BY <1>1, <1>3, PaceClear
       DEF LoopCancelled, LoopTimeout, WaitTimeout, SleepTimeout, SelectCancelled,
           SleepingCancelled, ResolveWrongScope, cancelled, timeout, fatal, End, env
  <1>4. CASE WatchGone \/ SelectGone \/ WaitSettleByList \/ WaitResync \/ SleepOver
    BY <1>1, <1>4, PaceClear
       DEF WatchGone, SelectGone, WaitSettleByList, WaitResync, SleepOver, Loop, env
  <1>5. CASE LoopStart
    <2>1. timers'.cycleStart = now /\ pc' = "resolve" /\ now' = now
      BY <1>5 DEF LoopStart, NoTimers, Ask, env
    <2> QED BY <1>1, <2>1 DEF Paced, PaceInv
  <1>6. CASE ResolveReturns
    <2>1. /\ pc = "resolve" /\ pc' = "list"
          /\ UNCHANGED <<now, s, timers, backoff>>
      BY <1>6 DEF ResolveReturns, Ask, env, retry
    <2> QED BY <1>1, <2>1, PaceSame DEF Paced
  <1>7. CASE ResolveUnserved
    <2>1. now' = now /\ backoff' = 0
      BY <1>7 DEF ResolveUnserved, Refresh, env
    <2>2. CASE EndSettled(Verdict(s, NoObjects))
      BY <1>1, <2>1, <2>2, PaceClear DEF EndSettled, End
    <2>3. CASE EnterWait("none")
      BY <1>1, <2>1, <2>3, PaceEnterWait
    <2> QED BY <1>7, <2>2, <2>3 DEF ResolveUnserved
  <1>8. CASE ListReturns
    <2> DEFINE v == Verdict(s, hist[call.rv].objs)
    <2>1. now' = now /\ backoff' = 0
      BY <1>8 DEF ListReturns, Refresh, env
    <2>2. CASE EndSettled(v)
      BY <1>1, <2>1, <2>2, PaceClear DEF EndSettled, End
    <2>3. CASE EnterWait("none")
      BY <1>1, <2>1, <2>3, PaceEnterWait
    <2>4. CASE pc' = "watch" /\ timers' = timers
      BY <1>1, <2>1, <2>4 DEF Paced, PaceInv
    <2> QED BY <1>8, <2>2, <2>3, <2>4 DEF ListReturns, Ask
  <1>9. CASE WatchReturns
    <2>1. now' = now /\ backoff' = 0 /\ EnterWait("open")
      BY <1>9 DEF WatchReturns, env, retry, PaceInv
    <2> QED BY <1>1, <2>1, PaceEnterWait
  <1>10. CASE CallFails \/ \E e \in ErrKinds \ {"gone"} : SelectError(e)
    <2>1. PICK e : apiError(e)
      BY <1>10 DEF CallFails, SelectError
    <2>2. now' = now
      BY <2>1 DEF apiError, fatal
    <2> QED BY <1>1, <2>1, <2>2, PaceError
  <1>11. CASE WaitSettleByWatch
    BY <1>1, <1>11, PaceClear DEF WaitSettleByWatch, EndSettled, End, env
  <1>12. CASE SelectEvent
    <2>1. CASE EndSettled(Verdict(s, applied))
      BY <1>1, <1>12, <2>1, PaceClear DEF SelectEvent, EndSettled, End, env
    <2>2. CASE Turn
      <3>1. /\ timers'.cycleStart = timers.cycleStart /\ timers'.resyncAt = timers.resyncAt
            /\ timers'.until = timers.until /\ pc = "select" /\ pc' = "wait"
            /\ UNCHANGED <<now, s, backoff>>
        BY <1>2, <1>12, <2>2 DEF SelectEvent, Turn, Timers, env, retry
      <3> QED BY <1>1, <3>1, PaceSame DEF Paced
    <2> QED BY <1>12, <2>1, <2>2 DEF SelectEvent
  <1>13. CASE SelectClosed
    <2>1. pc = "select" /\ backoff' = backoff /\ backoff = 0 /\ now' = now
      BY <1>13 DEF SelectClosed, Drained, PaceInv, retry
    <2>2. CASE Loop
      BY <1>1, <2>1, <2>2, PaceClear DEF Loop
    <2>3. CASE now - timers.cycleStart < MinCycle
               /\ Sleep(MinCycle - (now - timers.cycleStart))
      <3> DEFINE d == MinCycle - (now - timers.cycleStart)
      <3>1. d \in Nat /\ now + d = timers.cycleStart + MinCycle
        BY <1>1, <2>3 DEF Paced, Timers, PaceInv
      <3>2. s' = s
        BY <2>3 DEF Sleep
      <3>3. pause' = earliest(MinCycle, s.PollInterval)
        BY <2>1, <3>2 DEF pause, earliest
      <3>4. earliest(MinCycle, s.PollInterval) <= MinCycle
            /\ earliest(MinCycle, s.PollInterval) \in Nat
        BY <1>1 DEF earliest, Paced
      <3>5. timers.cycleStart \in Nat
        BY <1>2 DEF Timers
      <3>6. now + d >= timers.cycleStart + pause'
        BY <1>1, <3>1, <3>3, <3>4, <3>5 DEF Paced
      <3> HIDE DEF d
      <3>7. Sleep(d)
        BY <2>3 DEF d
      <3> QED BY <1>1, <2>1, <3>1, <3>2, <3>6, <3>7, PaceSleep
    <2> QED BY <1>13, <2>2, <2>3 DEF SelectClosed
  <1>14. CASE WaitBlock \/ SelectTimer \/ SelectBookmark \/ SleepBlock \/ SleepingTimer
    <2>1. /\ timers'.cycleStart = timers.cycleStart /\ timers'.resyncAt = timers.resyncAt
          /\ timers'.until = timers.until
      BY <1>2, <1>14 DEF WaitBlock, SelectTimer, SelectBookmark, SleepBlock, SleepingTimer,
                         Turn, Timers
    <2>2. /\ UNCHANGED <<now, s, backoff>>
          /\ \/ pc \in {"wait", "select"} /\ pc' \in {"wait", "select"}
             \/ pc \in {"sleep", "sleeping"} /\ pc' \in {"sleep", "sleeping"}
      BY <1>14 DEF WaitBlock, SelectTimer, SelectBookmark, SleepBlock, SleepingTimer, Drained,
                   Turn, env, retry
    <2> QED BY <1>1, <2>1, <2>2, PaceSame DEF Paced
  <1>15. CASE EnvStep \/ Tick
    <2>1. UNCHANGED <<s, pc, timers, backoff>>
      BY <1>15, EnvFrame DEF runnerVars
    <2>2. now' = now \/ now' = now + 1
      BY <1>15 DEF EnvStep, Tick, ServerAnswers, ServerFails, RequestExpires, RequestCancelled,
                   Answer, ClusterChange, FlipServed, EventArrives, Cancel, env
    <2>3. now' >= now /\ now' \in Nat
      BY <1>1, <2>2 DEF Paced
    <2> QED BY <1>1, <2>1, <2>3, PaceSame
  <1>16. CASE UNCHANGED vars
    <2>1. UNCHANGED <<now, s, pc, timers, backoff>>
      BY <1>16 DEF vars
    <2> QED BY <1>1, <2>1, PaceSame DEF Paced
  <1> QED BY <1>3, <1>4, <1>5, <1>6, <1>7, <1>8, <1>9, <1>10, <1>11, <1>12, <1>13, <1>14,
             <1>15, <1>16 DEF Next, RunnerStep, Terminated

LEMMA PaceInvariant == Spec => []PaceInv
  <1>1. Init => PaceInv
    BY DEF Init, NoTimers, PaceInv
  <1> QED BY <1>1, PaceStep, TypeInvariant, PTL DEF Spec

(* The steps back to the top of loop. *)
LEMMA BackToLoop ==
    ASSUME RunnerStep, pc # "loop", pc' = "loop", ~Unpaced
    PROVE  \/ SleepOver \/ WaitResync
           \/ SelectClosed /\ ~(now - timers.cycleStart < MinCycle)
  <1>1. ASSUME NEW e, apiError(e) PROVE FALSE
    <2>1. unauthRetried' = unauthRetried
      BY DEF Unpaced
    <2>2. CASE fatal
      BY <2>2 DEF fatal, End
    <2>3. CASE ~unauthRetried /\ unauthRetried' = TRUE
      BY <2>1, <2>3
    <2>4. CASE Sleep(nextBackoff)
      BY <2>4 DEF Sleep
    <2> QED BY <1>1, <2>2, <2>3, <2>4 DEF apiError
  <1>2. ~CallFails /\ ~\E e \in ErrKinds \ {"gone"} : SelectError(e)
    BY <1>1 DEF CallFails, SelectError, Unpaced
  <1> QED BY <1>2
          DEF RunnerStep, Unpaced, LoopCancelled, LoopTimeout, LoopStart, ResolveReturns,
              ResolveWrongScope, ResolveUnserved, ListReturns, WatchReturns, WaitTimeout,
              WaitSettleByWatch, WaitBlock, SelectCancelled, SelectTimer, SelectEvent,
              SelectBookmark, SelectClosed, SleepTimeout, SleepBlock, SleepingCancelled,
              SleepingTimer, cancelled, timeout, fatal, End, EndSettled, EnterWait, Ask, Turn,
              Sleep

(* Between the start of a cycle and the start of the next there is a pause, *)
(* but for an expired resource version, the one retry of a 401 and a polled *)
(* verdict whose window is over: no closing, refusing or failing server     *)
(* makes the runner list in a tight loop.                                   *)
THEOREM ServerNotHammered == Spec => RelistsArePaced
  <1> DEFINE P == pc # "loop" /\ pc' = "loop" /\ ~Unpaced => now >= timers.cycleStart + pause
  <1>1. TypeInv /\ PaceInv /\ [Next]_vars => [P]_vars
    <2> SUFFICES ASSUME TypeInv, PaceInv, [Next]_vars, pc # "loop", pc' = "loop", ~Unpaced
                 PROVE  now >= timers.cycleStart + pause
      BY DEF vars
    <2>1. Paced
      BY PacedTypes DEF TypeInv
    <2>2. RunnerStep
      BY EnvFrame DEF Next, Terminated, vars, runnerVars
    <2>3. pause \in Nat /\ (backoff = 0 => pause <= s.PollInterval /\ pause <= MinCycle)
      BY <2>1 DEF pause, earliest, Paced
    <2>4. CASE SleepOver
      BY <2>1, <2>3, <2>4 DEF SleepOver, PaceInv, Paced, Timers
    <2>5. CASE WaitResync
      BY <2>1, <2>3, <2>5 DEF WaitResync, PaceInv, Paced, Timers
    <2>6. CASE SelectClosed /\ ~(now - timers.cycleStart < MinCycle)
      BY <2>1, <2>3, <2>6 DEF SelectClosed, Drained, PaceInv, Paced, Timers
    <2> QED BY <2>2, <2>4, <2>5, <2>6, BackToLoop
  <1> QED BY <1>1, PaceInvariant, TypeInvariant, PTL DEF Spec, RelistsArePaced

------------------------------------------------------------------------------
(* The watch. *)

WaitPhase == {"wait", "select", "sleep", "sleeping"}

LEMMA WatchFrame ==
    ASSUME RunnerStep
    PROVE  \/ watch' = "none" \/ pc' \in WaitPhase
           \/ watch' = watch /\ pc \notin WaitPhase
  <1> USE DEF End, Loop, Sleep, EnterWait, Turn, Ask, EndSettled, WaitPhase
  <1>1. CASE LoopCancelled \/ LoopTimeout \/ LoopStart
    BY <1>1 DEF LoopCancelled, LoopTimeout, LoopStart, cancelled, timeout
  <1>2. CASE ResolveReturns \/ ResolveWrongScope \/ ResolveUnserved \/ ListReturns
    BY <1>2 DEF ResolveReturns, ResolveWrongScope, ResolveUnserved, ListReturns, fatal
  <1>3. CASE WatchReturns \/ WatchGone \/ CallFails
    BY <1>3 DEF WatchReturns, WatchGone, CallFails, apiError, fatal
  <1>4. CASE WaitTimeout \/ WaitSettleByList \/ WaitSettleByWatch \/ WaitResync \/ WaitBlock
    BY <1>4 DEF WaitTimeout, WaitSettleByList, WaitSettleByWatch, WaitResync, WaitBlock, timeout
  <1>5. CASE SelectCancelled \/ SelectTimer \/ SelectEvent \/ SelectBookmark
    BY <1>5 DEF SelectCancelled, SelectTimer, SelectEvent, SelectBookmark, cancelled
  <1>6. CASE SelectClosed \/ SelectGone \/ \E e \in ErrKinds \ {"gone"} : SelectError(e)
    BY <1>6 DEF SelectClosed, SelectGone, SelectError, apiError, fatal
  <1>7. CASE SleepTimeout \/ SleepOver \/ SleepBlock \/ SleepingCancelled \/ SleepingTimer
    BY <1>7 DEF SleepTimeout, SleepOver, SleepBlock, SleepingCancelled, SleepingTimer,
                cancelled, timeout
  <1> QED BY <1>1, <1>2, <1>3, <1>4, <1>5, <1>6, <1>7 DEF RunnerStep

(* A watch never outlives the wait phase that opened it: every way out of   *)
(* waitPhase and of a sleep in it, and every Result, stops it.              *)
THEOREM WatchNeverLeaks == Spec => []WatchStopped
  <1>1. Init => WatchStopped
    BY DEF Init, WatchStopped
  <1>2. WatchStopped /\ [Next]_vars => WatchStopped'
    <2> SUFFICES ASSUME WatchStopped, [Next]_vars PROVE WatchStopped'
      OBVIOUS
    <2>1. CASE RunnerStep
      BY <2>1, WatchFrame DEF WatchStopped, WaitPhase
    <2>2. CASE EnvStep \/ Tick \/ UNCHANGED vars
      <3>1. UNCHANGED <<watch, pc>>
        BY <2>2, EnvFrame DEF runnerVars, vars
      <3> QED BY <3>1 DEF WatchStopped
    <2> QED BY <2>1, <2>2 DEF Next, Terminated
  <1> QED BY <1>1, <1>2, PTL DEF Spec

------------------------------------------------------------------------------
(* What has been reported.  The first message is the one that fills         *)
(* lastKey, and a wait has a Result only once it is done: both have to be   *)
(* carried along.                                                           *)

KeyKnown == progress.emitted <=> progress.lastKey # << >>

Unended == result.kind # "none" => pc = "done"

ReportInv == KeyKnown /\ Unended /\ LastIsTracked /\ FinalProgressReported

(* emitFinal may skip a message only when it would repeat the last one. *)
LEMMA EmitFinalIsEmit ==
    ASSUME NEW p \in Progress, NEW v, NEW n
    PROVE  emitFinal(p, v, n) = emit(v, n)
  <1>1. CASE p.emitted /\ p.lastKey = <<v, n>> /\ p.lastEmit = now
    <2>1. emitFinal(p, v, n) = p
      BY <1>1 DEF emitFinal
    <2>2. p = [emitted |-> p.emitted, lastKey |-> p.lastKey, lastEmit |-> p.lastEmit]
      BY DEF Progress
    <2>3. p.emitted = TRUE
      BY <1>1, Zenon DEF Progress
    <2> QED BY <1>1, <2>1, <2>2, <2>3 DEF emit
  <1>2. CASE ~(p.emitted /\ p.lastKey = <<v, n>> /\ p.lastEmit = now)
    BY <1>2 DEF emitFinal
  <1> QED BY <1>1, <1>2

LEMMA PairNotEmpty == ASSUME NEW v, NEW n PROVE <<v, n>> # << >>
  OBVIOUS

(* After an observation, the tracker and the last message are about it. *)
LEMMA ObserveReports ==
    ASSUME tracker \in Tracker, NEW p \in Progress, p.lastKey # << >> => p.emitted,
           NEW v, NEW n, observe(p, v, n)
    PROVE  /\ last' = v /\ noteKind' = n
           /\ tracker'.started /\ tracker'.state = v
           /\ progress'.emitted /\ progress'.lastKey = <<v, n>>
           /\ settles(v) => progress' = emit(v, n)
  <1>1. tracker'.started /\ tracker'.state = v
    BY DEF observe, Observe
  <1> DEFINE q == IF <<v, n>> # p.lastKey THEN emit(v, n) ELSE p
  <1>2. q.emitted /\ q.lastKey = <<v, n>>
    BY PairNotEmpty DEF emit
  <1>3. progress' \in {q, emit(v, n)}
    BY DEF observe, emitFinal
  <1>4. settles(v) => progress' = emit(v, n)
    <2>1. settles(v) => progress' = emitFinal(q, v, n)
      BY DEF observe
    <2>2. q = emit(v, n) \/ q = p
      OBVIOUS
    <2>3. emitFinal(emit(v, n), v, n) = emit(v, n)
      BY DEF emitFinal, emit
    <2> QED BY <2>1, <2>2, <2>3, EmitFinalIsEmit
  <1> HIDE DEF q
  <1>5. progress'.emitted /\ progress'.lastKey = <<v, n>>
    BY <1>2, <1>3 DEF emit
  <1> QED BY <1>1, <1>4, <1>5 DEF observe

(* A heartbeat repeats the last message. *)
LEMMA HeartbeatRepeats ==
    ASSUME ReportInv, pc # "done", progress \in Progress
    PROVE  /\ heartbeat.emitted = progress.emitted
           /\ heartbeat.lastKey = progress.lastKey
  <1>1. CASE progress.emitted /\ now - progress.lastEmit >= s.ProgressInterval
    <2>1. heartbeat = emit(last, noteKind) /\ progress.lastKey = <<last, noteKind>>
      BY <1>1 DEF heartbeat, ReportInv, LastIsTracked
    <2>2. progress.emitted = TRUE
      BY <1>1, Zenon DEF Progress
    <2> QED BY <2>1, <2>2 DEF emit
  <1>2. CASE ~(progress.emitted /\ now - progress.lastEmit >= s.ProgressInterval)
    BY <1>2 DEF heartbeat
  <1> QED BY <1>1, <1>2

(* A step that observes, and ends only when the verdict settles. *)
LEMMA ObservingStep ==
    ASSUME ReportInv, pc # "done", tracker \in Tracker, NEW p \in Progress,
           p.lastKey # << >> => p.emitted, NEW v, NEW n, observe(p, v, n), now' = now,
           \/ result' = result
           \/ pc' = "done" /\ settles(v)
    PROVE  ReportInv'
  <1>1. /\ last' = v /\ noteKind' = n /\ tracker'.started /\ tracker'.state = v
        /\ progress'.emitted /\ progress'.lastKey = <<v, n>>
        /\ settles(v) => progress' = emit(v, n)
    BY ObserveReports
  <1>2. KeyKnown' /\ LastIsTracked'
    BY <1>1, PairNotEmpty DEF KeyKnown, LastIsTracked
  <1>3. result.kind = "none"
    BY DEF ReportInv, Unended
  <1>4. Unended'
    BY <1>3 DEF Unended
  <1>5. FinalProgressReported'
    <2>1. CASE result' = result
      BY <1>3, <2>1 DEF FinalProgressReported
    <2>2. CASE settles(v)
      BY <1>1, <2>2 DEF FinalProgressReported, emit
    <2> QED BY <2>1, <2>2
  <1> QED BY <1>2, <1>4, <1>5 DEF ReportInv

(* A step that observes nothing and goes on; it may send a heartbeat. *)
LEMMA QuietStep ==
    ASSUME ReportInv, pc # "done", progress \in Progress, progress' \in {progress, heartbeat},
           UNCHANGED <<seen, result>>
    PROVE  ReportInv'
  <1>1. progress'.emitted = progress.emitted /\ progress'.lastKey = progress.lastKey
    BY HeartbeatRepeats
  <1>2. result.kind = "none"
    BY DEF ReportInv, Unended
  <1> QED BY <1>1, <1>2 DEF ReportInv, KeyKnown, Unended, LastIsTracked, FinalProgressReported,
             seen

(* The ends without an observation. *)
LEMMA EndingStep ==
    ASSUME ReportInv, pc # "done", progress \in Progress, now' = now,
           timeout \/ fatal \/ cancelled
    PROVE  ReportInv'
  <1> DEFINE told == [emitted |-> TRUE, lastKey |-> <<last', noteKind'>>, lastEmit |-> now]
  <1>1. pc' = "done"
    BY DEF timeout, fatal, cancelled, End
  <1>2. CASE timeout \/ fatal
    <2>1. progress' = told
      BY <1>2, EmitFinalIsEmit DEF timeout, fatal, seen, emit
    <2> QED BY <1>1, <2>1, PairNotEmpty
            DEF ReportInv, KeyKnown, Unended, LastIsTracked, FinalProgressReported
  <1>3. CASE cancelled
    BY <1>1, <1>3 DEF cancelled, End, ReportInv, KeyKnown, Unended, LastIsTracked,
                      FinalProgressReported
  <1> QED BY <1>2, <1>3

LEMMA ReportStep == ASSUME TypeInv, ReportInv, [Next]_vars PROVE ReportInv'
  <1>1. progress \in Progress /\ tracker \in Tracker /\ heartbeat \in Progress
    BY HeartbeatType DEF TypeInv, TypeOK, SeenType
  <1>2. progress.lastKey # << >> => progress.emitted
    BY DEF ReportInv, KeyKnown
  <1>3. CASE RunnerStep
    <2>1. now' = now
      BY <1>3, RunnerFrame
    <2>2. CASE \/ LoopCancelled \/ SelectCancelled \/ SleepingCancelled
               \/ LoopTimeout \/ WaitTimeout \/ SleepTimeout \/ ResolveWrongScope
      BY <1>1, <2>1, <2>2, EndingStep
         DEF LoopCancelled, SelectCancelled, SleepingCancelled, LoopTimeout, WaitTimeout,
             SleepTimeout, ResolveWrongScope
    <2>3. CASE \/ LoopStart \/ ResolveReturns \/ WatchReturns \/ WatchGone \/ SelectTimer
               \/ SelectBookmark \/ SelectClosed \/ SelectGone \/ SleepingTimer
               \/ WaitSettleByList \/ WaitResync \/ WaitBlock \/ SleepOver \/ SleepBlock
      <3>1. progress' \in {progress, heartbeat} /\ UNCHANGED <<seen, result>> /\ pc # "done"
        BY <2>3 DEF LoopStart, ResolveReturns, WatchReturns, WatchGone, SelectTimer,
                    SelectBookmark, SelectClosed, SelectGone, SleepingTimer, WaitSettleByList,
                    WaitResync, WaitBlock, SleepOver, SleepBlock, Ask, EnterWait, Loop, Sleep,
                    Turn, Drained
      <3> QED BY <1>1, <3>1, QuietStep
    <2>4. CASE ResolveUnserved
      <3> DEFINE v == Verdict(s, NoObjects)
      <3>1. /\ pc # "done" /\ observe(progress, v, "notServed")
            /\ result' = result \/ (pc' = "done" /\ settles(v))
        BY <2>4 DEF ResolveUnserved, Refresh, EndSettled, End, EnterWait
      <3> HIDE DEF v
      <3> QED BY <1>1, <1>2, <2>1, <3>1, ObservingStep
    <2>5. CASE ListReturns
      <3> DEFINE v == Verdict(s, hist[call.rv].objs)
      <3>1. /\ pc # "done" /\ observe(progress, v, "none")
            /\ result' = result \/ (pc' = "done" /\ settles(v))
        BY <2>5 DEF ListReturns, Refresh, EndSettled, End, EnterWait
      <3> HIDE DEF v
      <3> QED BY <1>1, <1>2, <2>1, <3>1, ObservingStep
    <2>6. CASE SelectEvent
      <3> DEFINE v == Verdict(s, applied)
      <3>1. /\ pc # "done" /\ observe(progress, v, noteKind)
            /\ result' = result \/ (pc' = "done" /\ settles(v))
        BY <2>6 DEF SelectEvent, EndSettled, End, Turn
      <3> HIDE DEF v
      <3> QED BY <1>1, <1>2, <2>1, <3>1, ObservingStep
    <2>7. CASE WaitSettleByWatch
      <3>1. /\ pc # "done" /\ observe(heartbeat, last, noteKind)
            /\ pc' = "done" /\ settles(last)
        BY <2>7 DEF WaitSettleByWatch, EndSettled, End
      <3>2. heartbeat.lastKey # << >> => heartbeat.emitted
        BY <1>1, <1>2, <3>1, HeartbeatRepeats
      <3> QED BY <1>1, <2>1, <3>1, <3>2, ObservingStep
    <2>8. ASSUME NEW e, apiError(e), pc # "done" PROVE ReportInv'
      <3>1. CASE fatal
        BY <1>1, <2>1, <2>8, <3>1, EndingStep
      <3>2. CASE UNCHANGED <<seen, progress, result>>
        BY <1>1, <2>8, <3>2, QuietStep
      <3>3. CASE observe(progress, "pending", "apiError") /\ result' = result
        BY <1>1, <1>2, <2>1, <2>8, <3>3, ObservingStep
      <3> QED BY <2>8, <3>1, <3>2, <3>3 DEF apiError, Loop, Sleep
    <2>9. CASE CallFails
      BY <2>8, <2>9 DEF CallFails, Requesting
    <2>10. CASE \E e \in ErrKinds \ {"gone"} : SelectError(e)
      BY <2>8, <2>10 DEF SelectError, Drained
    <2> QED BY <1>3, <2>2, <2>3, <2>4, <2>5, <2>6, <2>7, <2>9, <2>10 DEF RunnerStep
  <1>4. CASE EnvStep \/ Tick
    <2>1. pc # "done"
      BY <1>4 DEF EnvStep, Tick, ServerAnswers, ServerFails, RequestExpires, RequestCancelled,
                  Answer, ClusterChange, FlipServed, EventArrives, Cancel, Requesting
    <2>2. UNCHANGED <<seen, result, progress>>
      BY <1>4, EnvFrame DEF runnerVars, seen
    <2> QED BY <1>1, <2>1, <2>2, QuietStep
  <1>5. CASE UNCHANGED vars
    BY <1>5 DEF vars, ReportInv, KeyKnown, Unended, LastIsTracked, FinalProgressReported
  <1> QED BY <1>3, <1>4, <1>5 DEF Next, Terminated

LEMMA ReportInvariant == Spec => []ReportInv
  <1>1. Init => ReportInv
    BY DEF Init, NoResult, NewTracker, ReportInv, KeyKnown, Unended, LastIsTracked,
           FinalProgressReported
  <1> QED BY <1>1, ReportStep, TypeInvariant, PTL DEF Spec

(* The verdict the runner holds is the one its settle clock is timing and   *)
(* its last message is about, through errors, retries and re-lists: the     *)
(* settle deadline of waitPhase is never that of another verdict.           *)
THEOREM VerdictTracked == Spec => []LastIsTracked
  <1>1. ReportInv => LastIsTracked
    BY DEF ReportInv
  <1> QED BY <1>1, ReportInvariant, PTL

(* Every Result but a cancellation is preceded, at the same instant, by a   *)
(* message about the final state.                                           *)
THEOREM FinalStateReported == Spec => []FinalProgressReported
  <1>1. ReportInv => FinalProgressReported
    BY DEF ReportInv
  <1> QED BY <1>1, ReportInvariant, PTL
==============================================================================

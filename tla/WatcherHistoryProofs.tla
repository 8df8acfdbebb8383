------------------------- MODULE WatcherHistoryProofs -------------------------
(***************************************************************************)
(* Proofs of what WatcherHistory says of the past of a wait, for every set *)
(* of keys, objects and configurations and every value of the durations    *)
(* and bounds; the last three theorems, about how long things take, for a  *)
(* prompt runner and immediate answers.                                    *)
(***************************************************************************)
EXTENDS WatcherHistory, WatcherReportProofs

(* The history variable hides nothing and adds nothing: what Watcher keeps, *)
(* it keeps with h beside it.                                               *)
LEMMA HistoryIsWatcher == HSpec => Spec
  <1>1. HInit => Init
    BY DEF HInit
  <1>2. [HNext]_hvars => [Next]_vars
    BY DEF HNext, hvars
  <1> QED BY <1>1, <1>2, PTL DEF HSpec, Spec

LEMMA HistoryKeeps == HSpec => [](CoreInv /\ ReportInv)
  BY HistoryIsWatcher, CoreInvariant, ReportInvariant, PTL

Pausing == {"sleep", "sleeping"}

(* What the runner does not do, it does not notice. *)
LEMMA OutsideMoves ==
    ASSUME TypeOK, EnvStep \/ Tick \/ Terminated
    PROVE  /\ UNCHANGED <<watch, runnerVars>>
           /\ now' \in Nat /\ now' >= now /\ (~Tick => now' = now)
  <1>1. UNCHANGED <<watch, runnerVars>>
    BY EnvFrame DEF Terminated, vars, runnerVars
  <1>2. CASE EnvStep \/ Terminated
    <2>1. now' = now
      BY <1>2, Zenon
         DEF EnvStep, Terminated, vars, ServerAnswers, ServerFails, RequestExpires,
             RequestCancelled, Answer, ClusterChange, FlipServed, EventArrives, Cancel, env
    <2> QED BY <1>1, <2>1 DEF TypeOK, EnvType
  <1>3. CASE Tick
    BY <1>1, <1>3 DEF Tick, TypeOK, EnvType
  <1> QED BY <1>1, <1>2, <1>3

(* What an error of a request or of a watch does.                           *)
LEMMA ErrorMoves ==
    ASSUME TypeOK, NEW e \in ErrKinds, apiError(e)
    PROVE  \/ /\ pc' = "done" /\ result'.kind = "fatal"
              /\ e = "forbidden" \/ (e = "unauthorized" /\ unauthRetried)
              /\ UNCHANGED <<tracker, retry>>
           \/ /\ pc' = "loop" /\ unauthRetried' = TRUE /\ e = "unauthorized" /\ ~unauthRetried
              /\ UNCHANGED <<seen, backoff, result>>
           \/ /\ pc' = "sleep" /\ e \in {"gone", "other"}
              /\ tracker' = Observe(tracker, now, "pending")
              /\ backoff' \in 1 .. s.PollInterval /\ timers'.until = now + backoff'
              /\ timers'.cycleStart = timers.cycleStart
              /\ UNCHANGED <<unauthRetried, result>>
  <1>1. nextBackoff \in 1 .. s.PollInterval
    BY SpecType, ConstantsAssumption DEF nextBackoff, TypeOK, SeenType
  <1>2. timers \in Timers
    BY DEF TypeOK, ControlType
  <1>3. CASE fatal /\ (e = "forbidden" \/ (e = "unauthorized" /\ unauthRetried))
    BY <1>3 DEF fatal, End
  <1>4. CASE ~unauthRetried /\ unauthRetried' = TRUE /\ Loop /\ e = "unauthorized"
             /\ UNCHANGED <<seen, backoff>>
    BY <1>4 DEF Loop
  <1>5. CASE e \in {"gone", "other"} /\ observe(progress, "pending", "apiError")
             /\ backoff' = nextBackoff /\ Sleep(nextBackoff) /\ unauthRetried' = unauthRetried
    <2>1. /\ timers'.until = now + backoff' /\ timers'.cycleStart = timers.cycleStart
          /\ pc' = "sleep" /\ result' = result
      BY <1>2, <1>5 DEF Sleep, Timers
    <2> QED BY <1>1, <1>5, <2>1 DEF observe
  <1> QED BY <1>3, <1>4, <1>5 DEF apiError

LEMMA ObserveKeeps ==
    ASSUME NEW t \in Tracker, NEW n \in Nat, NEW v \in Verdicts
    PROVE  LET u == Observe(t, n, v)
           IN /\ u.started /\ u.state = v
              /\ u = t \/ u.since = n
  BY DEF Observe, Tracker

(* What a look at a new snapshot, or at the old one again, does.            *)
Looks == ResolveUnserved \/ ListReturns \/ SelectEvent \/ WaitSettleByWatch

LEMMA LookMoves ==
    ASSUME TypeInv, Looks
    PROVE  /\ pc \in {"resolve", "list", "select", "wait"} /\ pc' \in {"watch", "wait", "done"}
           /\ \E v \in Verdicts : tracker' = Observe(tracker, now, v)
           /\ backoff' = 0 \/ (pc \in Judging /\ backoff' = backoff)
  <1>1. \A objs : Verdict(s, objs) \in Verdicts
    BY VerdictType DEF TypeInv, TypeOK
  <1>2. last \in Verdicts
    BY DEF TypeInv, TypeOK, SeenType
  <1>3. CASE ResolveUnserved
    BY <1>1, <1>3 DEF ResolveUnserved, Refresh, observe, EndSettled, End, EnterWait
  <1>4. CASE ListReturns
    BY <1>1, <1>4 DEF ListReturns, Refresh, observe, EndSettled, End, EnterWait, Ask
  <1>5. CASE SelectEvent
    BY <1>1, <1>5 DEF SelectEvent, observe, EndSettled, End, Turn, retry, Judging
  <1>6. CASE WaitSettleByWatch
    BY <1>2, <1>6 DEF WaitSettleByWatch, observe, EndSettled, End, retry, Judging
  <1> QED BY <1>3, <1>4, <1>5, <1>6 DEF Looks

(* The steps of the runner that neither look, nor sleep, nor meet an error. *)
Others == \/ LoopCancelled \/ LoopTimeout \/ LoopStart \/ ResolveReturns \/ ResolveWrongScope
          \/ WatchReturns \/ WatchGone \/ WaitTimeout \/ WaitSettleByList \/ WaitResync \/ WaitBlock
          \/ SelectCancelled \/ SelectTimer \/ SelectBookmark \/ SelectGone
          \/ SleepTimeout \/ SleepOver \/ SleepingCancelled

LEMMA OtherMoves ==
    ASSUME Others
    PROVE  /\ UNCHANGED <<tracker, retry>>
           /\ pc' \in {"loop", "resolve", "list", "wait", "select", "done"}
           /\ pc' \in Judging => pc \in Judging
           /\ pc \in Pausing /\ pc' # "done" => now >= timers.until
           /\ pc = "done" => pc' = "done"
  <1> USE DEF seen, retry, Judging, Pausing, Loop, End
  <1>1. CASE LoopCancelled \/ SelectCancelled \/ SleepingCancelled
             \/ LoopTimeout \/ WaitTimeout \/ SleepTimeout \/ ResolveWrongScope
    BY <1>1 DEF LoopCancelled, SelectCancelled, SleepingCancelled, LoopTimeout, WaitTimeout,
                SleepTimeout, ResolveWrongScope, cancelled, timeout, fatal
  <1>2. CASE LoopStart \/ ResolveReturns \/ WatchReturns
    BY <1>2 DEF LoopStart, ResolveReturns, WatchReturns, Ask, EnterWait
  <1>3. CASE WatchGone \/ WaitSettleByList \/ WaitResync \/ SelectGone \/ SleepOver
    BY <1>3 DEF WatchGone, WaitSettleByList, WaitResync, SelectGone, SleepOver, Drained
  <1>4. CASE WaitBlock \/ SelectTimer \/ SelectBookmark
    BY <1>4 DEF WaitBlock, SelectTimer, SelectBookmark, Turn, Drained
  <1> QED BY <1>1, <1>2, <1>3, <1>4 DEF Others

LEMMA OtherOutcomes ==
    ASSUME Others
    PROVE  /\ pc' = "list" => pc = "resolve" /\ call.st = "ok" /\ call.served
           /\ \/ pc' = "done" /\ result'.kind \in {"timeout", "fatal", "cancelled"}
              \/ pc' # "done" /\ UNCHANGED <<result, noteKind>>
  <1> USE DEF seen
  <1>1. CASE cancelled \/ timeout \/ fatal
    <2>1. pc' = "done" /\ result'.kind \in {"timeout", "fatal", "cancelled"}
      BY <1>1 DEF cancelled, timeout, fatal, End
    <2> QED BY <2>1
  <1>2. CASE LoopStart \/ ResolveReturns \/ WatchReturns
    BY <1>2 DEF LoopStart, ResolveReturns, WatchReturns, Ask, EnterWait
  <1>3. CASE WatchGone \/ WaitSettleByList \/ WaitResync \/ SelectGone \/ SleepOver
    BY <1>3 DEF WatchGone, WaitSettleByList, WaitResync, SelectGone, SleepOver, Loop
  <1>4. CASE WaitBlock \/ SelectTimer \/ SelectBookmark
    BY <1>4 DEF WaitBlock, SelectTimer, SelectBookmark, Turn
  <1> QED BY <1>1, <1>2, <1>3, <1>4
          DEF Others, LoopCancelled, SelectCancelled, SleepingCancelled, LoopTimeout, WaitTimeout,
              SleepTimeout, ResolveWrongScope

(* The steps within or into a sleep that is not for an error.               *)
LEMMA RestMoves ==
    ASSUME TypeOK, SelectClosed \/ SleepBlock \/ SleepingTimer
    PROVE  /\ UNCHANGED <<tracker, retry, result>>
           /\ \/ pc \in Pausing /\ pc' \in Pausing /\ timers'.until = timers.until
              \/ /\ pc = "select" /\ pc' = "sleep" /\ now - timers.cycleStart < MinCycle
                 /\ timers'.until = timers.cycleStart + MinCycle
              \/ pc = "select" /\ pc' = "loop" /\ now - timers.cycleStart >= MinCycle
           /\ timers'.cycleStart = timers.cycleStart \/ pc' = "loop"
  <1>1. timers \in Timers /\ now \in Nat /\ MinCycle \in Nat
    BY ConstantsAssumption DEF TypeOK, EnvType, ControlType
  <1>2. CASE SleepBlock
    BY <1>1, <1>2 DEF SleepBlock, Timers, Pausing, seen, retry
  <1>3. CASE SleepingTimer
    BY <1>1, <1>3 DEF SleepingTimer, Timers, Pausing, seen, retry
  <1>4. CASE SelectClosed
    <2>1. UNCHANGED <<tracker, retry, result>> /\ pc = "select"
      BY <1>4 DEF SelectClosed, Drained, seen, retry, Sleep, Loop
    <2>2. CASE now - timers.cycleStart < MinCycle
      <3>1. /\ pc' = "sleep"
            /\ timers' = [timers EXCEPT !.until = now + (MinCycle - (now - timers.cycleStart)),
                                        !.wake = 0]
        BY <1>4, <2>2 DEF SelectClosed, Sleep
      <3> QED BY <1>1, <2>1, <2>2, <3>1 DEF Timers
    <2>3. CASE ~(now - timers.cycleStart < MinCycle)
      BY <1>1, <1>4, <2>1, <2>3 DEF SelectClosed, Loop, Timers
    <2> QED BY <2>2, <2>3
  <1> QED BY <1>2, <1>3, <1>4

(* An error, of the request in flight or of the watch. *)
Errs(e) ==
    /\ \/ /\ pc \in Requesting /\ call.st = "failed" /\ e = call.err
          /\ pc = "watch" => e # "gone"
       \/ pc = "select" /\ faults' # faults
    /\ apiError(e)

LEMMA RunnerKinds ==
    ASSUME TypeInv, RunnerStep
    PROVE  Looks \/ Others \/ SelectClosed \/ SleepBlock \/ SleepingTimer
           \/ \E e \in ErrKinds : Errs(e)
  <1>1. CASE CallFails
    <2>1. call.err \in ErrKinds
      BY <1>1 DEF CallFails, TypeInv, CallOK
    <2>2. Errs(call.err)
      BY <1>1 DEF CallFails, Errs
    <2> QED BY <2>1, <2>2
  <1>2. ASSUME NEW e \in ErrKinds \ {"gone"}, SelectError(e) PROVE Errs(e)
    <2>1. faults \in Nat
      BY DEF TypeInv, TypeOK, EnvType
    <2> QED BY <1>2, <2>1 DEF SelectError, Drained, Errs
  <1> QED BY <1>1, <1>2 DEF RunnerStep, Looks, Others

LEMMA ErrorEnds ==
    ASSUME TypeOK, NEW e \in ErrKinds, apiError(e)
    PROVE  /\ pc' \in {"done", "loop", "sleep"}
           /\ (pc' = "done" /\ result'.kind = "fatal") \/ (pc' # "done" /\ result' = result)
           /\ e \in {"gone", "other"} => pc' = "sleep" /\ backoff' > 0
  <1>1. s.PollInterval \in Nat
    BY SpecType DEF TypeOK
  <1>2. CASE pc' = "done"
    <2>1. result'.kind = "fatal" /\ e \notin {"gone", "other"}
      BY <1>2, ErrorMoves
    <2> QED BY <1>2, <2>1
  <1>3. CASE pc' = "loop"
    <2>1. result' = result /\ e \notin {"gone", "other"}
      BY <1>3, ErrorMoves
    <2> QED BY <1>3, <2>1
  <1>4. CASE pc' = "sleep"
    <2>1. result' = result /\ backoff' \in 1 .. s.PollInterval
      BY <1>4, ErrorMoves
    <2> QED BY <1>1, <1>4, <2>1
  <1>5. pc' \in {"done", "loop", "sleep"}
    BY ErrorMoves
  <1> QED BY <1>2, <1>3, <1>4, <1>5

(* A failed answer is handled as an error, or starts a cycle over.          *)
LEMMA FailedMoves == ASSUME RunnerStep, Failed PROVE CallFails \/ WatchGone
  <1> USE DEF Failed, Requesting
  <1>1. CASE LoopCancelled \/ LoopTimeout \/ LoopStart \/ ResolveReturns
             \/ ResolveWrongScope \/ ResolveUnserved \/ ListReturns \/ WatchReturns
    BY <1>1 DEF LoopCancelled, LoopTimeout, LoopStart, ResolveReturns, ResolveWrongScope,
                ResolveUnserved, ListReturns, WatchReturns
  <1>2. CASE WaitTimeout \/ WaitSettleByList \/ WaitSettleByWatch \/ WaitResync \/ WaitBlock
    BY <1>2 DEF WaitTimeout, WaitSettleByList, WaitSettleByWatch, WaitResync, WaitBlock
  <1>3. CASE SelectCancelled \/ SelectTimer \/ SelectEvent \/ SelectBookmark \/ SelectClosed
             \/ SelectGone \/ \E e \in ErrKinds \ {"gone"} : SelectError(e)
    BY <1>3 DEF SelectCancelled, SelectTimer, SelectEvent, SelectBookmark, SelectClosed,
                SelectGone, SelectError, Drained
  <1>4. CASE SleepTimeout \/ SleepOver \/ SleepBlock \/ SleepingCancelled \/ SleepingTimer
    BY <1>4 DEF SleepTimeout, SleepOver, SleepBlock, SleepingCancelled, SleepingTimer
  <1> QED BY <1>1, <1>2, <1>3, <1>4 DEF RunnerStep

(* Meeting an error of the watch is a move of the runner. *)
LEMMA SelectErrorMoves ==
    ASSUME TypeOK, NEW e \in ErrKinds, SelectError(e)
    PROVE  /\ pc = "select" /\ pc' \in {"done", "loop", "sleep"}
           /\ (pc' = "done" /\ result'.kind = "fatal") \/ result' = result
           /\ e = "other" => pc' = "sleep" /\ backoff' > 0
  <1>1. pc = "select" /\ apiError(e)
    BY DEF SelectError, Drained
  <1> QED BY <1>1, ErrorEnds

(* An error that is retried with backoff sends the runner to sleep. *)
LEMMA MeetsErrorMoves ==
    ASSUME TypeInv, MeetsError
    PROVE  /\ pc \in Requesting \cup {"select"} /\ pc' # pc
           /\ RunnerStep => pc' = "sleep" /\ backoff' > 0
  <1> USE DEF Requesting
  <1>1. TypeOK /\ s.PollInterval \in Nat /\ "other" \in ErrKinds
    BY SpecType DEF TypeInv, TypeOK, ErrKinds
  <1>2. CASE pc = "select" /\ SelectError("other")
    BY <1>1, <1>2, SelectErrorMoves
  <1>3. ASSUME Failed, call.err = "other" \/ (call.err = "gone" /\ pc # "watch")
        PROVE  /\ pc \in Requesting /\ pc' # pc
               /\ RunnerStep => pc' = "sleep" /\ backoff' > 0
    <2>1. pc \in Requesting /\ pc' # pc /\ call.st = "failed"
      BY <1>3 DEF Failed
    <2>2. ASSUME RunnerStep PROVE pc' = "sleep" /\ backoff' > 0
      <3>1. ~WatchGone
        BY <1>3 DEF WatchGone
      <3>2. apiError(call.err) /\ call.err \in ErrKinds
        BY <1>3, <2>1, <2>2, <3>1, FailedMoves DEF CallFails, TypeInv, CallOK
      <3> QED BY <1>1, <1>3, <3>2, ErrorEnds
    <2> QED BY <2>1, <2>2
  <1> QED BY <1>2, <1>3 DEF MeetsError

------------------------------------------------------------------------------
(* Errors and the settle clock.  After an error the runner is asleep until  *)
(* a later moment, and a phase that follows a list has no backoff, so that  *)
(* only an error, never a closed watch, counts as one in h.                 *)
ErrorInv ==
    /\ h.erredAt \in Int /\ h.erredAt <= now
    /\ pc \notin Pausing \cup {"done"} => h.erredAt < now
    /\ pc \in Pausing => h.erredAt < timers.until
    /\ pc \in Judging => backoff = 0
    /\ ErrorResetsSettle

LEMMA ErrorInvStep == ASSUME TypeInv, ErrorInv, [HNext]_hvars PROVE ErrorInv'
  <1>1. /\ TypeOK /\ now \in Nat /\ tracker \in Tracker /\ timers \in Timers /\ pc \in PCs
        /\ backoff \in Nat
    BY DEF TypeInv, TypeOK, EnvType, ControlType, SeenType
  <1> USE <1>1 DEF ErrorInv, ErrorResetsSettle, HasDeadline, Judging, Pausing
  <1>2. CASE UNCHANGED hvars
    BY <1>2 DEF hvars, vars
  <1> SUFFICES ASSUME HNext PROVE ErrorInv'
    BY <1>2
  <1>3. h'.erredAt = IF MeetsError THEN now ELSE h.erredAt
    BY DEF HNext
  <1>4. CASE EnvStep \/ Tick \/ Terminated
    <2>1. UNCHANGED <<pc, backoff, timers, tracker>> /\ now' \in Nat /\ now' >= now
      BY <1>4, OutsideMoves DEF runnerVars
    <2>2. h'.erredAt = h.erredAt
      BY <1>3, <2>1, MeetsErrorMoves
    <2> QED BY <2>1, <2>2
  <1>5. CASE RunnerStep
    <2>0. now' = now
      BY <1>5, RunnerFrame
    <2>1. CASE Looks
      <3>1. PICK v \in Verdicts : tracker' = Observe(tracker, now, v)
        BY <2>1, LookMoves
      <3>2. /\ pc \in {"resolve", "list", "select", "wait"} /\ pc' \in {"watch", "wait", "done"}
            /\ backoff' = 0 \/ (pc \in Judging /\ backoff' = backoff)
        BY <2>1, LookMoves
      <3>3. h'.erredAt = h.erredAt /\ h.erredAt < now
        BY <1>3, <1>5, <3>2, MeetsErrorMoves
      <3>4. tracker'.started /\ (tracker' = tracker \/ tracker'.since = now)
        BY <3>1, ObserveKeeps
      <3> QED BY <2>0, <3>2, <3>3, <3>4
    <2>2. CASE Others
      <3>1. h'.erredAt = h.erredAt
        BY <1>3, <1>5, <2>2, OtherMoves, MeetsErrorMoves
      <3>2. UNCHANGED <<tracker, backoff>>
        BY <2>2, OtherMoves DEF retry
      <3>3. timers.until \in Nat
        BY DEF Timers
      <3> QED BY <2>0, <2>2, <3>1, <3>2, <3>3, OtherMoves
    <2>3. CASE SelectClosed \/ SleepBlock \/ SleepingTimer
      <3>1. UNCHANGED <<tracker, backoff>>
        BY <2>3, RestMoves DEF retry
      <3>2. h'.erredAt = h.erredAt
        BY <1>3, <1>5, <2>3, <3>1, RestMoves, MeetsErrorMoves DEF Requesting
      <3>3. MinCycle \in Nat /\ timers.cycleStart \in Nat
        BY ConstantsAssumption DEF Timers
      <3> QED BY <2>0, <2>3, <3>1, <3>2, <3>3, RestMoves
    <2>4. ASSUME NEW e \in ErrKinds, Errs(e) PROVE ErrorInv'
      <3>1. pc \in Requesting \cup {"select"} /\ apiError(e) /\ h.erredAt < now
        BY <2>4 DEF Errs, Requesting
      <3>2. h'.erredAt = h.erredAt \/ h'.erredAt = now
        BY <1>3
      <3>3. CASE pc' \in {"done", "loop"}
        <4>1. UNCHANGED <<tracker, backoff>> /\ h'.erredAt = h.erredAt
          BY <1>3, <1>5, <3>1, <3>3, ErrorMoves, MeetsErrorMoves DEF seen, retry
        <4> QED BY <2>0, <3>1, <3>3, <4>1
      <3>4. CASE pc' = "sleep"
        <4>1. /\ tracker' = Observe(tracker, now, "pending")
              /\ backoff' \in 1 .. s.PollInterval /\ timers'.until = now + backoff'
          BY <3>1, <3>4, ErrorMoves
        <4>2. tracker'.state = "pending"
          BY <4>1, ObserveKeeps DEF Verdicts
        <4>3. s.PollInterval \in Nat
          BY SpecType DEF TypeInv, TypeOK
        <4> QED BY <2>0, <3>1, <3>2, <3>4, <4>1, <4>2, <4>3
      <3> QED BY <3>1, <3>3, <3>4, ErrorMoves
    <2> QED BY <1>5, <2>1, <2>2, <2>3, <2>4, RunnerKinds
  <1> QED BY <1>4, <1>5 DEF HNext, Next

(* The settle clock never spans an error that is retried with backoff. *)
THEOREM SettleStartsAfterErrors == HSpec => []ErrorResetsSettle
  <1>1. HInit => ErrorInv
    BY DEF HInit, Init, NewTracker, HasDeadline, ErrorInv, ErrorResetsSettle, Judging, Pausing
  <1>2. CoreInv => TypeInv
    BY DEF CoreInv
  <1>3. ErrorInv => ErrorResetsSettle
    BY DEF ErrorInv
  <1> QED BY <1>1, <1>2, <1>3, ErrorInvStep, HistoryKeeps, PTL DEF HSpec

------------------------------------------------------------------------------
(* Errors of any kind, ends of the watch, and sight of the selection.  The  *)
(* phases that may settle a verdict begin with a snapshot, and are left at  *)
(* every error and every end of the watch.                                  *)
SightInv ==
    /\ pc \in Judging => ~h.unseen
    /\ SettlesOnSight

LEMMA InterruptedMoves ==
    ASSUME TypeInv, Interrupted
    PROVE  /\ pc' # pc
           /\ RunnerStep => /\ pc \in Requesting \cup {"select"}
                            /\ pc' \in {"done", "loop", "sleep"}
                            /\ (pc' = "done" /\ result'.kind = "fatal") \/ result' = result
  <1> USE DEF Requesting
  <1>1. TypeOK /\ pc \in PCs
    BY DEF TypeInv, TypeOK, ControlType
  <1>2. CASE SelectClosed
    <2>1. /\ pc = "select" /\ pc' \in {"loop", "sleep"} /\ result' = result
      BY <1>2 DEF SelectClosed, Drained, Sleep, Loop
    <2> QED BY <2>1
  <1>3. CASE SelectGone
    BY <1>3 DEF SelectGone, Drained, Loop
  <1>4. ASSUME NEW e \in ErrKinds \ {"gone"}, SelectError(e)
        PROVE  /\ pc = "select" /\ pc' \in {"done", "loop", "sleep"}
               /\ (pc' = "done" /\ result'.kind = "fatal") \/ result' = result
    BY <1>1, <1>4, SelectErrorMoves
  <1>5. CASE Failed
    <2>1. pc' # pc /\ pc \in Requesting
      BY <1>5 DEF Failed
    <2>2. CASE RunnerStep /\ WatchGone
      BY <2>2 DEF WatchGone, Loop
    <2>3. CASE RunnerStep /\ CallFails
      <3>1. apiError(call.err) /\ call.err \in ErrKinds
        BY <2>3 DEF CallFails, TypeInv, CallOK
      <3> QED BY <1>1, <1>5, <2>1, <3>1, ErrorEnds
    <2> QED BY <1>5, <2>1, <2>2, <2>3, FailedMoves
  <1> QED BY <1>2, <1>3, <1>4, <1>5 DEF Interrupted

LEMMA SightLooks ==
    ASSUME TypeInv, SightInv, Looks, RunnerStep,
           h'.unseen = (Interrupted \/ (h.unseen /\ ~SeesSnapshot))
    PROVE  ~h'.unseen
  <1>1. ~Failed
    BY DEF Looks, Failed, Requesting, ResolveUnserved, ListReturns, SelectEvent, WaitSettleByWatch
  <1>2. ~Interrupted
    <2>1. pos \in Nat /\ arrived \in Nat
      BY DEF TypeInv, TypeOK, SeenType
    <2> QED BY <1>1, <2>1
            DEF Interrupted, SelectClosed, SelectGone, SelectError, Drained, Looks,
                ResolveUnserved, ListReturns, SelectEvent, WaitSettleByWatch
  <1>3. CASE ResolveUnserved \/ ListReturns
    <2>1. pc' \in {"watch", "wait", "done"}
      BY LookMoves
    <2>2. SeesSnapshot
      BY <1>3, <2>1 DEF SeesSnapshot, ResolveUnserved, ListReturns
    <2> QED BY <1>2, <2>2
  <1>4. CASE SelectEvent \/ WaitSettleByWatch
    BY <1>2, <1>4 DEF SightInv, SelectEvent, WaitSettleByWatch, Judging
  <1> QED BY <1>3, <1>4 DEF Looks

LEMMA SightInvStep == ASSUME TypeInv, ResultAtEnd, SightInv, [HNext]_hvars PROVE SightInv'
  <1>1. TypeOK /\ pc \in PCs
    BY DEF TypeInv, TypeOK, ControlType
  <1> USE DEF SightInv, SettlesOnSight, Judging, Pausing
  <1>2. CASE UNCHANGED hvars
    BY <1>2 DEF hvars, vars
  <1> SUFFICES ASSUME HNext PROVE SightInv'
    BY <1>2
  <1>3. h'.unseen = (Interrupted \/ (h.unseen /\ ~SeesSnapshot))
    BY DEF HNext
  <1>4. CASE EnvStep \/ Tick \/ Terminated
    <2>1. UNCHANGED <<pc, result>>
      BY <1>1, <1>4, OutsideMoves DEF runnerVars
    <2>2. h'.unseen = h.unseen \/ ~h'.unseen
      BY <1>3, <2>1, InterruptedMoves
    <2> QED BY <2>1, <2>2
  <1>5. CASE RunnerStep
    <2>1. CASE Looks
      BY <1>3, <1>5, <2>1, SightLooks
    <2>2. CASE Interrupted
      BY <1>5, <2>2, InterruptedMoves DEF ResultAtEnd, Requesting
    <2>3. ASSUME ~Looks, ~Interrupted PROVE SightInv'
      <3>1. ~h.unseen => ~h'.unseen
        BY <1>3, <2>3
      <3>2. CASE Others
        <4>1. pc' \in Judging => pc \in Judging
          BY <3>2, OtherMoves
        <4>2. \/ pc' = "done" /\ result'.kind # "settled"
              \/ pc' # "done" /\ result' = result
          BY <3>2, OtherOutcomes
        <4> QED BY <3>1, <4>1, <4>2
      <3>3. CASE SleepBlock \/ SleepingTimer
        <4>1. pc' \notin Judging /\ result' = result
          BY <3>3 DEF SleepBlock, SleepingTimer
        <4> QED BY <3>1, <4>1
      <3>4. ~SelectClosed /\ ~Failed /\ \A e \in ErrKinds \ {"gone"} : ~SelectError(e)
        BY <2>3 DEF Interrupted
      <3>5. ~CallFails
        <4>1. SUFFICES ASSUME CallFails PROVE FALSE
          OBVIOUS
        <4>2. apiError(call.err) /\ call.err \in ErrKinds /\ pc \in Requesting
          BY <4>1 DEF CallFails, TypeInv, CallOK
        <4>3. pc' \in {"done", "loop", "sleep"}
          BY <1>1, <4>2, ErrorMoves
        <4> QED BY <3>4, <4>1, <4>2, <4>3 DEF CallFails, Failed, Requesting
      <3> QED BY <1>5, <2>3, <3>2, <3>3, <3>4, <3>5 DEF RunnerStep, Looks, Others
    <2> QED BY <2>1, <2>2, <2>3
  <1> QED BY <1>4, <1>5 DEF HNext, Next

(* No verdict settles that was not seen since the last error or the last    *)
(* end of a watch.                                                          *)
THEOREM SettledAtSight == HSpec => []SettlesOnSight
  <1>1. HInit => SightInv
    BY DEF HInit, Init, NoResult, SightInv, SettlesOnSight, Judging
  <1>2. CoreInv => TypeInv /\ ResultAtEnd
    BY DEF CoreInv
  <1>3. SightInv => SettlesOnSight
    BY DEF SightInv
  <1> QED BY <1>1, <1>2, <1>3, SightInvStep, HistoryKeeps, PTL DEF HSpec

------------------------------------------------------------------------------
(* The warning of a vacuous success.  From the list to the end of the wait  *)
(* phase the note says what the last resolve said of the kind.              *)
WarnInv ==
    /\ h.served \in BOOLEAN
    /\ pc = "list" => h.served
    /\ pc \in Judging => (noteKind = "notServed" <=> ~h.served)
    /\ VacuousSuccessWarned

LEMMA WarnLooks ==
    ASSUME TypeInv, ResultAtEnd, WarnInv, Looks,
           h'.served = IF pc = "resolve" /\ call.st = "ok" /\ pc' # pc THEN call.served ELSE h.served
    PROVE  WarnInv'
  <1> USE DEF WarnInv, VacuousSuccessWarned, Judging
  <1>0. call.served \in BOOLEAN
    BY DEF TypeInv, TypeOK, ControlType, Calls
  <1>1. pc # "done" /\ result.kind = "none"
    BY LookMoves DEF ResultAtEnd
  <1>2. ASSUME NEW v, EndSettled(v), h'.served \in BOOLEAN, noteKind' = "notServed" <=> ~h'.served
        PROVE  WarnInv'
    <2>1. pc' = "done" /\ result'.verdict = v
          /\ result'.warn = (v = "success" /\ noteKind' = "notServed")
      BY <1>2 DEF EndSettled, End
    <2> QED BY <1>2, <2>1
  <1>3. CASE ResolveUnserved
    <2>1. h'.served = FALSE /\ noteKind' = "notServed"
      BY <1>0, <1>3, LookMoves DEF ResolveUnserved, Refresh, observe, Looks
    <2>2. EndSettled(Verdict(s, NoObjects)) \/ (result' = result /\ pc' = "wait")
      BY <1>3 DEF ResolveUnserved, EnterWait
    <2> QED BY <1>1, <1>2, <2>1, <2>2
  <1>4. CASE ListReturns
    <2> DEFINE v == Verdict(s, hist[call.rv].objs)
    <2>1. pc = "list" /\ h.served /\ h'.served = h.served /\ noteKind' = "none"
      BY <1>4 DEF ListReturns, Refresh, observe
    <2>2. EndSettled(v) \/ (result' = result /\ pc' # "list")
      BY <1>4 DEF ListReturns, Ask, EnterWait
    <2> QED BY <1>1, <1>2, <2>1, <2>2
  <1>5. CASE SelectEvent \/ WaitSettleByWatch
    <2>1. pc \in Judging /\ h'.served = h.served /\ noteKind' = noteKind
      BY <1>5 DEF SelectEvent, WaitSettleByWatch, observe
    <2>2. (\E v : EndSettled(v)) \/ (result' = result /\ pc' # "list")
      BY <1>5 DEF SelectEvent, WaitSettleByWatch, Turn
    <2> QED BY <1>1, <1>2, <2>1, <2>2
  <1> QED BY <1>3, <1>4, <1>5 DEF Looks

LEMMA WarnInvStep == ASSUME TypeInv, ResultAtEnd, WarnInv, [HNext]_hvars PROVE WarnInv'
  <1>1. TypeOK /\ pc \in PCs
    BY DEF TypeInv, TypeOK, ControlType
  <1> USE DEF WarnInv, VacuousSuccessWarned, Judging, Pausing
  <1>2. CASE UNCHANGED hvars
    BY <1>2 DEF hvars, vars
  <1> SUFFICES ASSUME HNext PROVE WarnInv'
    BY <1>2
  <1>3. h'.served = IF pc = "resolve" /\ call.st = "ok" /\ pc' # pc THEN call.served ELSE h.served
    BY DEF HNext
  <1>4. CASE EnvStep \/ Tick \/ Terminated
    <2>1. UNCHANGED <<pc, result, noteKind>>
      BY <1>1, <1>4, OutsideMoves DEF runnerVars
    <2> QED BY <1>3, <2>1
  <1>5. CASE RunnerStep
    <2>1. CASE Looks
      BY <1>3, <2>1, WarnLooks
    <2>2. call.served \in BOOLEAN /\ h'.served \in BOOLEAN
      BY <1>3 DEF TypeInv, TypeOK, ControlType, Calls
    <2>3. CASE Others
      <3>1. /\ pc' = "list" => pc = "resolve" /\ call.st = "ok" /\ call.served
            /\ \/ pc' = "done" /\ result'.kind # "settled"
               \/ pc' # "done" /\ UNCHANGED <<result, noteKind>>
            /\ pc' \in Judging => pc \in Judging
        BY <2>3, OtherMoves, OtherOutcomes
      <3> QED BY <1>3, <2>2, <3>1 DEF ResultAtEnd
    <2>4. CASE SelectClosed \/ SleepBlock \/ SleepingTimer
      <3>1. pc' \in Pausing \cup {"loop"} /\ result' = result /\ pc # "done" /\ h'.served = h.served
        BY <1>1, <1>3, <2>4, RestMoves
      <3> QED BY <3>1 DEF ResultAtEnd
    <2>5. ASSUME NEW e \in ErrKinds, Errs(e) PROVE WarnInv'
      <3>1. /\ pc' \in {"done", "loop", "sleep"}
            /\ (pc' = "done" /\ result'.kind = "fatal") \/ result' = result
        BY <1>1, <2>5, ErrorMoves DEF Errs
      <3>2. pc # "done"
        BY <2>5 DEF Errs, Requesting
      <3> QED BY <2>2, <3>1, <3>2 DEF ResultAtEnd
    <2> QED BY <1>5, <2>1, <2>3, <2>4, <2>5, RunnerKinds
  <1> QED BY <1>4, <1>5 DEF HNext, Next

(* A success carries the warning exactly when the kind was not served.      *)
THEOREM SuccessWarnedRightly == HSpec => []VacuousSuccessWarned
  <1>1. HInit => WarnInv
    BY DEF HInit, Init, NoResult, WarnInv, VacuousSuccessWarned, Judging
  <1>2. CoreInv => TypeInv /\ ResultAtEnd
    BY DEF CoreInv
  <1>3. WarnInv => VacuousSuccessWarned
    BY DEF WarnInv
  <1> QED BY <1>1, <1>2, <1>3, WarnInvStep, HistoryKeeps, PTL DEF HSpec

------------------------------------------------------------------------------
(* Rejected credentials.  A 401 that was not the second in a row is         *)
(* remembered as soon as it is handled, and forgotten only with a list.     *)
Owed ==
    \/ h.unauth = 0
    \/ h.unauth = 1 /\ unauthRetried

OwedByFailure ==
    \/ h.unauth = 0
    \/ h.unauth = 1 /\ (unauthRetried \/ call.err = "unauthorized")
    \/ h.unauth = 2 /\ unauthRetried /\ call.err = "unauthorized"

RetryInv ==
    /\ call.st # "none" => pc \in Requesting
    /\ pc \in Judging => h.unauth = 0
    /\ call.st = "ok" /\ (pc = "list" \/ (pc = "resolve" /\ ~call.served)) => h.unauth = 0
    /\ call.st # "failed" /\ pc # "done" => Owed
    /\ call.st = "failed" => OwedByFailure
    /\ OneUnauthorizedRetry

LEMMA RetryAnswers ==
    ASSUME TypeInv, RetryInv, EnvStep, UNCHANGED <<pc, unauthRetried, result>>,
           h'.unauth = InARow(h.unauth, {"resolve", "list"}, Listed)
    PROVE  RetryInv'
  <1> USE DEF RetryInv, Owed, OwedByFailure, OneUnauthorizedRetry, Judging, Requesting
  <1>1. call \in Calls
    BY DEF TypeInv, TypeOK, ControlType
  <1>2. CASE call' = call
    <2>1. h'.unauth = h.unauth
      BY <1>2 DEF InARow, Answered, Listed
    <2> QED BY <1>2, <2>1
  <1>3. ASSUME pc \in Requesting, call.st = "waiting", call'.st = "ok", call'.err = call.err
        PROVE  RetryInv'
    <2>1. h'.unauth = IF pc = "list" \/ (pc = "resolve" /\ ~call'.served) THEN 0 ELSE h.unauth
      BY <1>3 DEF InARow, Answered, Listed
    <2> QED BY <1>3, <2>1
  <1>4. ASSUME pc \in Requesting, call.st = "waiting", call'.st = "failed" PROVE RetryInv'
    <2>1. h'.unauth = IF pc \in {"resolve", "list"} /\ call'.err = "unauthorized"
                      THEN h.unauth + 1 ELSE h.unauth
      BY <1>4 DEF InARow, Answered, Listed
    <2> QED BY <1>4, <2>1
  <1>5. CASE ServerAnswers
    BY <1>1, <1>3, <1>4, <1>5 DEF ServerAnswers, Answer, Calls
  <1>6. ASSUME NEW e \in ErrKinds, ServerFails(e) PROVE RetryInv'
    BY <1>1, <1>4, <1>6 DEF ServerFails, Answer, Calls
  <1>7. CASE RequestExpires \/ RequestCancelled
    BY <1>1, <1>4, <1>7 DEF RequestExpires, RequestCancelled, Answer, Calls
  <1>8. ASSUME NEW k \in Keys, NEW o \in Objects \cup {NoObject}, ClusterChange(k, o)
        PROVE  call' = call
    BY <1>8 DEF ClusterChange
  <1>9. CASE FlipServed \/ EventArrives \/ Cancel
    BY <1>2, <1>9 DEF FlipServed, EventArrives, Cancel
  <1> QED BY <1>2, <1>5, <1>6, <1>7, <1>8, <1>9 DEF EnvStep

LEMMA FreshCall == [NoCall EXCEPT !.st = "waiting", !.at = now].st = "waiting" /\ NoCall.st = "none"
  BY DEF NoCall

LEMMA RetryRuns ==
    ASSUME TypeInv, ResultAtEnd, RetryInv, RunnerStep, h'.unauth = h.unauth
    PROVE  RetryInv'
  <1> USE DEF RetryInv, Owed, OwedByFailure, OneUnauthorizedRetry, Judging, Requesting
  <1>1. call'.st \in {"none", "waiting"} \/ call' = call
    BY RunnerFrame, FreshCall
  <1>2. CASE Looks
    <2>1. h.unauth = 0 /\ pc' \in {"watch", "wait", "done"}
      BY <1>2, LookMoves DEF Looks, ResolveUnserved, ListReturns, SelectEvent, WaitSettleByWatch
    <2>2. call'.st = "none" \/ (call'.st = "waiting" /\ pc' = "watch")
      BY <1>2, FreshCall DEF Looks, ResolveUnserved, ListReturns, SelectEvent, WaitSettleByWatch,
         EndSettled, End, EnterWait, Ask, Turn
    <2> QED BY <2>1, <2>2
  <1>3. CASE Others
    <2>1. unauthRetried' = unauthRetried /\ (pc' \in Judging => pc \in Judging)
      BY <1>3, OtherMoves DEF retry
    <2>2. /\ call'.st = "none" \/ (call'.st = "waiting" /\ pc' \in Requesting)
          /\ call.st # "failed" \/ (pc = "watch" /\ pc' = "loop")
      BY <1>3, FreshCall
         DEF Others, LoopCancelled, SelectCancelled, SleepingCancelled, LoopTimeout, WaitTimeout,
             SleepTimeout, ResolveWrongScope, cancelled, timeout, fatal, End, LoopStart,
             ResolveReturns, WatchReturns, Ask, EnterWait, WatchGone, WaitSettleByList, WaitResync,
             SelectGone, SleepOver, Loop, WaitBlock, SelectTimer, SelectBookmark, Turn, Drained
    <2>3. pc # "done"
      BY <1>3 DEF Others, LoopCancelled, SelectCancelled, SleepingCancelled, LoopTimeout,
             WaitTimeout, SleepTimeout, ResolveWrongScope, LoopStart, ResolveReturns, WatchReturns,
             WatchGone, WaitSettleByList, WaitResync, SelectGone, SleepOver, WaitBlock, SelectTimer,
             SelectBookmark, Drained
    <2> QED BY <2>1, <2>2, <2>3
  <1>4. CASE SelectClosed \/ SleepBlock \/ SleepingTimer
    <2>1. pc' \in {"sleep", "sleeping", "loop"} /\ pc \in {"sleep", "sleeping", "select"}
          /\ unauthRetried' = unauthRetried
      BY <1>4, RestMoves DEF Pausing, retry, TypeInv
    <2>2. call.st = "none" /\ call'.st = "none"
      BY <1>4, <2>1, FreshCall DEF SelectClosed, SleepBlock, SleepingTimer, Sleep, Loop
    <2> QED BY <2>1, <2>2
  <1>5. ASSUME NEW e \in ErrKinds, Errs(e) PROVE RetryInv'
    <2>1. TypeOK /\ apiError(e) /\ pc \in Requesting \cup {"select"}
      BY <1>5 DEF Errs, TypeInv
    <2>2. call'.st = "none"
      BY <2>1, FreshCall DEF apiError, fatal, End, Loop, Sleep
    <2>3. \/ h.unauth = 0
          \/ h.unauth = 1 /\ (unauthRetried \/ e = "unauthorized")
          \/ h.unauth = 2 /\ unauthRetried /\ e = "unauthorized"
      BY <1>5 DEF Errs
    <2>4. \/ pc' = "done" /\ result'.kind = "fatal"
          \/ pc' = "loop" /\ unauthRetried' = TRUE /\ ~unauthRetried
          \/ pc' = "sleep" /\ e # "unauthorized" /\ unauthRetried' = unauthRetried
      BY <2>1, ErrorMoves
    <2> QED BY <2>2, <2>3, <2>4
  <1> QED BY <1>2, <1>3, <1>4, <1>5, RunnerKinds

LEMMA RetryInvStep == ASSUME TypeInv, ResultAtEnd, RetryInv, [HNext]_hvars PROVE RetryInv'
  <1> USE DEF RetryInv, Owed, OwedByFailure, OneUnauthorizedRetry
  <1>1. CASE UNCHANGED hvars
    BY <1>1 DEF hvars, vars
  <1> SUFFICES ASSUME HNext PROVE RetryInv'
    BY <1>1
  <1>2. h'.unauth = InARow(h.unauth, {"resolve", "list"}, Listed)
    BY DEF HNext
  <1>3. CASE EnvStep
    BY <1>2, <1>3, EnvFrame, RetryAnswers DEF runnerVars
  <1>4. CASE Tick \/ Terminated
    <2>1. UNCHANGED <<pc, call, unauthRetried, result>>
      BY <1>4 DEF Tick, Terminated, vars, runnerVars
    <2> QED BY <1>2, <2>1 DEF InARow, Answered, Listed
  <1>5. CASE RunnerStep
    <2>1. call.st = "waiting" => call'.st \in {"none", "waiting"}
      BY <1>5, RunnerFrame, FreshCall
    <2>2. h'.unauth = h.unauth
      BY <1>2, <2>1 DEF InARow, Answered, Listed
    <2> QED BY <1>5, <2>2, RetryRuns
  <1> QED BY <1>3, <1>4, <1>5 DEF HNext, Next

(* Credentials the server keeps rejecting get one immediate retry. *)
THEOREM UnauthorizedRetriedOnce == HSpec => []OneUnauthorizedRetry
  <1>1. HInit => RetryInv
    BY DEF HInit, Init, NoCall, RetryInv, Owed, OneUnauthorizedRetry, Judging
  <1>2. CoreInv => TypeInv /\ ResultAtEnd
    BY DEF CoreInv
  <1>3. RetryInv => OneUnauthorizedRetry
    BY DEF RetryInv
  <1> QED BY <1>1, <1>2, <1>3, RetryInvStep, HistoryKeeps, PTL DEF HSpec

------------------------------------------------------------------------------
(* A prompt runner whose requests are answered at once.  Time passes only   *)
(* in its two selects, up to the moment their timer fires.                  *)
AtOnce == Prompt /\ Latency = 0

LEMMA HistoryPaced == HSpec => [](PaceInv /\ WakeIsTimely) /\ NoBusyWait
  BY HistoryIsWatcher, PaceInvariant, WakesInTime, NeverSpins, PTL

(* No request is ever waited for; what is left of a window at the end of a  *)
(* wait phase is less than the pause that may follow it.                    *)
PromptInv ==
    /\ pc \in Requesting => call.at = now
    /\ pc \in {"select", "sleeping"} => now <= timers.wake
    /\ pc \in {"wait", "select"} => now <= timers.resyncAt
    /\ pc \in Pausing => now <= timers.until
    /\ HasDeadline(tracker) =>
          LET end == Deadline(tracker, s.Settle)
          IN /\ pc = "watch" => now < end
             /\ pc \in {"wait", "select"} => now <= end
             /\ pc \in Judging => timers.cycleStart < end
             /\ pc \in Pausing => timers.until < end + MinCycle
    /\ SettlesOnTime

LEMMA TickWaits ==
    ASSUME AtOnce, TypeInv, PromptInv, Tick
    PROVE  /\ pc \in {"select", "sleeping"} /\ now' = now + 1 /\ now' <= timers.wake
           /\ ~ctxDone /\ UNCHANGED <<ctxDone, served, hist, faults, call, watch, arrived, runnerVars>>
  <1>1. now \in Nat /\ timers.wake \in Nat
    BY DEF TypeInv, TypeOK, EnvType, ControlType, Timers
  <1>2. Blocked /\ now' = now + 1
    BY DEF Tick, AtOnce
  <1>3. ~(pc \in Requesting /\ now < call.at + Latency)
    BY <1>1 DEF PromptInv, AtOnce
  <1>4. UNCHANGED <<ctxDone, served, hist, faults, call, watch, arrived, runnerVars>>
    BY DEF Tick
  <1> QED BY <1>1, <1>2, <1>3, <1>4 DEF Blocked

(* The answer to a request is about the instant it was asked at.            *)
LEMMA AnswersKeepTime ==
    ASSUME TypeInv, EnvStep
    PROVE  call'.at = call.at
  BY DEF EnvStep, ServerAnswers, ServerFails, RequestExpires, RequestCancelled, Answer,
         ClusterChange, FlipServed, EventArrives, Cancel, env, TypeInv, TypeOK, ControlType, Calls

(* A look that does not end the wait has not settled.                       *)
LEMMA LookEnds ==
    ASSUME TypeInv, Looks, pc' # "done"
    PROVE  /\ ~Settled(tracker', s.Settle, now)
           /\ timers'.cycleStart = timers.cycleStart
           /\ pc' = "watch" => call'.at = now
           /\ pc' = "wait" /\ pc # "select" => timers'.resyncAt = now + s.PollInterval
           /\ pc' = "wait" /\ pc = "select" => timers'.resyncAt = timers.resyncAt
  <1>1. timers \in Timers
    BY DEF TypeInv, TypeOK, ControlType
  <1>2. ASSUME NEW w, EnterWait(w)
        PROVE  /\ timers'.cycleStart = timers.cycleStart /\ pc' = "wait"
               /\ timers'.resyncAt = now + s.PollInterval
    BY <1>1, <1>2 DEF EnterWait, Timers
  <1>3. CASE ResolveUnserved
    <2>1. EnterWait("none") /\ ~settles(Verdict(s, NoObjects)) /\ pc = "resolve"
          /\ tracker' = Observe(tracker, now, Verdict(s, NoObjects))
      BY <1>3 DEF ResolveUnserved, Refresh, observe, EndSettled, End
    <2> QED BY <1>2, <2>1 DEF settles
  <1>4. CASE ListReturns
    <2> DEFINE v == Verdict(s, hist[call.rv].objs)
    <2>1. /\ EnterWait("none") \/ (Ask("watch") /\ timers' = timers)
          /\ ~settles(v) /\ pc = "list" /\ tracker' = Observe(tracker, now, v)
      BY <1>4 DEF ListReturns, Refresh, observe, EndSettled, End
    <2>2. ASSUME Ask("watch") PROVE call'.at = now /\ pc' = "watch"
      BY <2>2 DEF Ask, NoCall
    <2> HIDE DEF v
    <2> QED BY <1>2, <2>1, <2>2 DEF settles
  <1>5. CASE SelectEvent
    <2>1. Turn /\ ~settles(Verdict(s, applied)) /\ pc = "select"
          /\ tracker' = Observe(tracker, now, Verdict(s, applied))
      BY <1>5 DEF SelectEvent, observe, EndSettled, End
    <2>2. /\ timers'.cycleStart = timers.cycleStart /\ timers'.resyncAt = timers.resyncAt
          /\ pc' = "wait"
      BY <1>1, <2>1 DEF Turn, Timers
    <2> QED BY <2>1, <2>2 DEF settles
  <1>6. CASE WaitSettleByWatch
    BY <1>6 DEF WaitSettleByWatch, EndSettled, End
  <1> QED BY <1>3, <1>4, <1>5, <1>6 DEF Looks

(* The other steps keep the timers they do not clear.                       *)
LEMMA OtherTimers ==
    ASSUME TypeInv, Others
    PROVE  /\ pc' \in {"resolve", "list"} => call'.at = now
           /\ pc' = "wait" /\ pc = "watch" =>
                 timers'.cycleStart = timers.cycleStart /\ timers'.resyncAt = now + s.PollInterval
           /\ pc' = "wait" /\ pc # "watch" =>
                 /\ timers'.cycleStart = timers.cycleStart /\ timers'.resyncAt = timers.resyncAt
                 /\ pc = "select"
           /\ pc' = "select" =>
                 /\ timers'.cycleStart = timers.cycleStart /\ timers'.resyncAt = timers.resyncAt
                 /\ pc = "wait"
  <1>1. timers \in Timers
    BY DEF TypeInv, TypeOK, ControlType
  <1>2. CASE cancelled \/ timeout \/ fatal \/ Loop
    <2>1. pc' \in {"done", "loop"}
      BY <1>2 DEF cancelled, timeout, fatal, End, Loop
    <2> QED BY <2>1
  <1>3. CASE LoopStart \/ ResolveReturns
    <2>1. pc' \in {"resolve", "list"} /\ call' = [NoCall EXCEPT !.st = "waiting", !.at = now]
      BY <1>3 DEF LoopStart, ResolveReturns, Ask
    <2>2. call'.at = now
      BY <2>1 DEF NoCall
    <2> QED BY <2>1, <2>2
  <1>4. CASE WatchReturns
    BY <1>1, <1>4 DEF WatchReturns, EnterWait, Timers
  <1>5. CASE WaitBlock
    BY <1>1, <1>5 DEF WaitBlock, Timers
  <1>6. CASE SelectTimer \/ SelectBookmark
    BY <1>1, <1>6 DEF SelectTimer, SelectBookmark, Drained, Turn, Timers
  <1> QED BY <1>2, <1>3, <1>4, <1>5, <1>6
          DEF Others, LoopCancelled, SelectCancelled, SleepingCancelled, LoopTimeout, WaitTimeout,
              SleepTimeout, ResolveWrongScope, WatchGone, WaitSettleByList, WaitResync, SelectGone,
              SleepOver

LEMMA Later == ASSUME NEW n \in Nat, NEW d \in Nat PROVE n <= n + d
  OBVIOUS

LEMMA PromptInvStep ==
    ASSUME AtOnce, TypeInv, PaceInv, WakeIsTimely, PromptInv, [HNext]_hvars,
           pc' \in {"select", "sleeping"} /\ pc' # pc => timers'.wake > now
    PROVE  PromptInv'
  <1> DEFINE end(t) == Deadline(t, s.Settle)
  <1>1. /\ TypeOK /\ now \in Nat /\ tracker \in Tracker /\ timers \in Timers /\ pc \in PCs
        /\ s.Settle \in Nat /\ MinCycle \in Nat \ {0}
    BY SpecType, ConstantsAssumption DEF TypeInv, TypeOK, EnvType, ControlType, SeenType
  <1>2. /\ timers.cycleStart \in Nat /\ timers.cycleStart <= now /\ tracker.since \in Nat
        /\ timers.until \in Nat /\ timers.resyncAt \in Nat /\ timers.wake \in Nat
    BY <1>1 DEF PaceInv, Timers, Tracker
  <1> USE DEF PromptInv, SettlesOnTime, Judging, Pausing, Requesting
  <1>3. CASE UNCHANGED hvars
    BY <1>3 DEF hvars, vars
  <1>4. CASE Tick
    <2>1. /\ pc \in {"select", "sleeping"} /\ now' = now + 1 /\ now' <= timers.wake
          /\ UNCHANGED <<pc, timers, tracker, s>>
      BY <1>4, TickWaits DEF runnerVars
    <2>2. CASE pc = "sleeping"
      <3>1. now' <= timers.until
        BY <1>1, <1>2, <2>1, <2>2 DEF WakeIsTimely
      <3> QED BY <1>1, <1>2, <2>1, <2>2, <3>1 DEF Deadline
    <2>3. CASE pc = "select"
      <3>1. /\ now' <= timers.resyncAt
            /\ HasDeadline(tracker) => now' <= end(tracker)
        BY <1>1, <1>2, <2>1, <2>3 DEF WakeIsTimely, Deadline
      <3> QED BY <1>1, <1>2, <2>1, <2>3, <3>1 DEF Deadline
    <2> QED BY <2>1, <2>2, <2>3
  <1>5. CASE (EnvStep \/ Terminated) /\ ~Tick
    <2>1. UNCHANGED <<pc, timers, tracker, s>> /\ now' = now
      BY <1>1, <1>5, OutsideMoves DEF runnerVars
    <2>2. call'.at = call.at
      BY <1>5, AnswersKeepTime DEF Terminated, vars
    <2> QED BY <2>1, <2>2
  <1>6. CASE RunnerStep
    <2>0. now' = now /\ s' = s
      BY <1>6, RunnerFrame
    <2>1. CASE Looks
      <3>1. CASE pc' = "done"
        BY <3>1
      <3>2. CASE pc' # "done"
        <4>1. PICK v \in Verdicts : tracker' = Observe(tracker, now, v)
          BY <2>1, LookMoves
        <4>2. tracker' \in Tracker
          BY <1>1, <4>1, ObserveTracker
        <4>3. pc' \in {"watch", "wait"} /\ ~Settled(tracker', s.Settle, now)
              /\ timers'.cycleStart = timers.cycleStart
              /\ (pc' = "watch" => call'.at = now)
          BY <2>1, <3>2, LookMoves, LookEnds
        <4>4. HasDeadline(tracker') => now < end(tracker')
          BY <1>1, <4>2, <4>3 DEF Settled, HasDeadline, Deadline, Tracker
        <4>5. pc' = "wait" => now <= timers'.resyncAt
          <5>1. s.PollInterval \in Nat
            BY <1>1, SpecType DEF TypeOK
          <5> QED BY <1>1, <1>2, <2>1, <3>2, <5>1, LookEnds
        <4>6. end(tracker') \in Nat
          BY <1>1, <4>2 DEF Deadline, Tracker
        <4> HIDE DEF end
        <4> QED BY <1>1, <1>2, <2>0, <4>3, <4>4, <4>5, <4>6 DEF end
      <3> QED BY <3>1, <3>2
    <2>2. CASE Others
      <3>1. /\ (tracker' = tracker /\ pc # "done") \/ pc' = "done"
            /\ pc' \in {"loop", "resolve", "list", "wait", "select", "done"}
            /\ pc' \in Judging => pc \in Judging
        BY <2>2, OtherMoves
      <3>2. CASE pc' \in {"resolve", "list"}
        <4>1. call'.at = now
          BY <2>2, <3>2, OtherTimers
        <4> QED BY <2>0, <3>1, <3>2, <4>1
      <3>3. CASE pc' = "wait"
        <4>1. s.PollInterval \in Nat
          BY <1>1, SpecType DEF TypeOK
        <4>2. /\ timers'.cycleStart = timers.cycleStart
              /\ timers'.resyncAt = now + s.PollInterval \/ (pc = "select" /\ timers'.resyncAt = timers.resyncAt)
          BY <2>2, <3>3, OtherTimers
        <4>3. now <= timers'.resyncAt
          BY <1>1, <1>2, <4>1, <4>2
        <4>4. end(tracker) \in Nat
          BY <1>1, <1>2 DEF Deadline
        <4> HIDE DEF end
        <4> QED BY <1>1, <1>2, <2>0, <3>1, <3>3, <4>2, <4>3, <4>4 DEF end
      <3>4. CASE pc' = "select"
        <4>1. /\ timers'.cycleStart = timers.cycleStart /\ timers'.resyncAt = timers.resyncAt
              /\ pc = "wait" /\ timers'.wake > now
          BY <2>2, <3>4, OtherTimers
        <4>2. timers'.wake \in Nat
          BY <1>6, TypeStep, TypeInv DEF TypeOK, ControlType, Timers, Next
        <4> QED BY <1>1, <1>2, <2>0, <3>1, <3>4, <4>1, <4>2
      <3>5. CASE pc' \in {"loop", "done"}
        BY <2>0, <3>1, <3>5
      <3> QED BY <3>1, <3>2, <3>3, <3>4, <3>5
    <2>3. CASE SelectClosed \/ SleepBlock \/ SleepingTimer
      <3>1. /\ tracker' = tracker /\ pc # "done"
            /\ \/ pc \in Pausing /\ pc' \in Pausing /\ timers'.until = timers.until
               \/ /\ pc = "select" /\ pc' = "sleep" /\ now - timers.cycleStart < MinCycle
                  /\ timers'.until = timers.cycleStart + MinCycle
               \/ pc = "select" /\ pc' = "loop"
        BY <1>1, <2>3, RestMoves
      <3>2. pc' = "sleeping" => now <= timers'.wake
        <4>1. timers' \in Timers
          BY <1>6, TypeStep DEF TypeInv, TypeOK, ControlType, Next
        <4>2. pc' = "sleeping" => pc # "sleeping"
          BY <2>3 DEF SelectClosed, Drained, SleepBlock, SleepingTimer, Loop, Sleep
        <4> QED BY <1>1, <4>1, <4>2 DEF Timers
      <3>3. end(tracker) \in Nat
        BY <1>1, <1>2 DEF Deadline
      <3> HIDE DEF end
      <3> QED BY <1>1, <1>2, <2>0, <3>1, <3>2, <3>3 DEF end
    <2>4. ASSUME NEW e \in ErrKinds, Errs(e) PROVE PromptInv'
      <3>1. apiError(e) /\ pc # "done"
        BY <2>4 DEF Errs
      <3>2. CASE pc' \in {"done", "loop"}
        <4>1. tracker' = tracker
          BY <1>1, <3>1, <3>2, ErrorMoves DEF seen
        <4> QED BY <2>0, <3>1, <3>2, <4>1
      <3>3. CASE pc' = "sleep"
        <4>1. /\ tracker' = Observe(tracker, now, "pending")
              /\ backoff' \in 1 .. s.PollInterval /\ timers'.until = now + backoff'
          BY <1>1, <3>1, <3>3, ErrorMoves
        <4>2. ~HasDeadline(tracker')
          BY <1>1, <4>1, ObserveKeeps DEF Verdicts, HasDeadline
        <4>3. s.PollInterval \in Nat
          BY <1>1, SpecType DEF TypeOK
        <4>4. now' <= timers'.until
          <5>1. backoff' \in Nat
            BY <4>1, <4>3
          <5>2. now <= now + backoff'
            BY <1>1, <5>1, Later, Zenon
          <5> QED BY <2>0, <4>1, <5>2
        <4> QED BY <3>3, <4>2, <4>4
      <3> QED BY <1>1, <3>1, <3>2, <3>3, ErrorMoves
    <2> QED BY <1>6, <2>1, <2>2, <2>3, <2>4, RunnerKinds
  <1> QED BY <1>3, <1>4, <1>5, <1>6 DEF HNext, Next

LEMMA PromptInvariant == ASSUME AtOnce PROVE HSpec => []PromptInv
  <1>1. HInit => PromptInv
    BY DEF HInit, Init, NewTracker, HasDeadline, PromptInv, SettlesOnTime, Requesting, Pausing,
           Judging
  <1>2. /\ CoreInv /\ PaceInv /\ WakeIsTimely /\ PromptInv /\ [HNext]_hvars
        /\ [pc' \in {"select", "sleeping"} /\ pc' # pc => timers'.wake > now]_vars
        => PromptInv'
    <2> SUFFICES ASSUME CoreInv, PaceInv, WakeIsTimely, PromptInv, [HNext]_hvars,
                        [pc' \in {"select", "sleeping"} /\ pc' # pc => timers'.wake > now]_vars
                 PROVE  PromptInv'
      OBVIOUS
    <2>1. TypeInv /\ (pc' \in {"select", "sleeping"} /\ pc' # pc => timers'.wake > now)
      BY DEF CoreInv, vars
    <2> QED BY <2>1, PromptInvStep
  <1> QED BY <1>1, <1>2, HistoryKeeps, HistoryPaced, PTL DEF HSpec, NoBusyWait

(* With a prompt runner and immediate answers a verdict settles when its    *)
(* window ends, or less than minCycle later.                                *)
THEOREM SettledInTime == ASSUME AtOnce PROVE HSpec => []SettlesOnTime
  <1>1. PromptInv => SettlesOnTime
    BY DEF PromptInv
  <1> QED BY <1>1, PromptInvariant, PTL

------------------------------------------------------------------------------
(* Silences.  Whatever the runner does, a message that it sends is sent now. *)
SaidNow == progress' = progress \/ progress'.lastEmit = now

LEMMA FinalSaysNow ==
    ASSUME NEW p, p = progress \/ p.lastEmit = now, NEW v, NEW n, progress' = emitFinal(p, v, n)
    PROVE  SaidNow
  BY DEF SaidNow, emitFinal, emit

LEMMA ObserveSaysNow ==
    ASSUME NEW p, p = progress \/ p.lastEmit = now, NEW v, NEW n, observe(p, v, n)
    PROVE  SaidNow
  <1>1. emit(v, n).lastEmit = now
    BY DEF emit
  <1>2. PICK q : (q = p \/ q.lastEmit = now) /\ (progress' = emitFinal(q, v, n) \/ progress' = q)
    BY <1>1 DEF observe
  <1> QED BY <1>2, FinalSaysNow DEF SaidNow

LEMMA ErrorSaysNow ==
    ASSUME NEW e, apiError(e)
    PROVE  SaidNow
  <1>1. fatal \/ observe(progress, "pending", "apiError") \/ progress' = progress
    BY DEF apiError
  <1>2. CASE fatal
    BY <1>2, FinalSaysNow DEF fatal
  <1> QED BY <1>1, <1>2, ObserveSaysNow DEF SaidNow

LEMMA SaysNow ==
    ASSUME TypeInv, RunnerStep
    PROVE  SaidNow
  <1>1. heartbeat = progress \/ heartbeat.lastEmit = now
    BY DEF heartbeat, emit
  <1>2. CASE Looks
    BY <1>1, <1>2, ObserveSaysNow
       DEF Looks, ResolveUnserved, ListReturns, SelectEvent, WaitSettleByWatch, Refresh
  <1>3. CASE Others
    <2>1. CASE LoopTimeout \/ WaitTimeout \/ SleepTimeout
      BY <2>1, FinalSaysNow DEF LoopTimeout, WaitTimeout, SleepTimeout, timeout
    <2>2. CASE ResolveWrongScope
      BY <2>2, FinalSaysNow DEF ResolveWrongScope, fatal
    <2>3. CASE WaitSettleByList \/ WaitResync \/ WaitBlock \/ SleepOver
      BY <1>1, <2>3 DEF SaidNow, WaitSettleByList, WaitResync, WaitBlock, SleepOver
    <2>4. CASE \/ LoopCancelled \/ LoopStart \/ ResolveReturns \/ WatchReturns \/ WatchGone
               \/ SelectCancelled \/ SelectTimer \/ SelectBookmark \/ SelectGone
               \/ SleepingCancelled
      BY <2>4 DEF SaidNow, LoopCancelled, LoopStart, ResolveReturns, WatchReturns, WatchGone,
                  SelectCancelled, SelectTimer, SelectBookmark, SelectGone, SleepingCancelled,
                  cancelled
    <2> QED BY <1>3, <2>1, <2>2, <2>3, <2>4 DEF Others
  <1>4. CASE SelectClosed \/ SleepBlock \/ SleepingTimer
    BY <1>1, <1>4 DEF SaidNow, SelectClosed, SleepBlock, SleepingTimer
  <1> QED BY <1>2, <1>3, <1>4, RunnerKinds, ErrorSaysNow DEF Errs

LEMMA RunnerAlive == ASSUME TypeInv, RunnerStep PROVE pc # "done"
  <1>1. CASE Looks
    BY <1>1, LookMoves
  <1>2. CASE Others
    BY <1>2
       DEF Others, LoopCancelled, LoopTimeout, LoopStart, ResolveReturns, ResolveWrongScope,
           WatchReturns, WatchGone, WaitTimeout, WaitSettleByList, WaitResync, WaitBlock,
           SelectCancelled, SelectTimer, SelectBookmark, SelectGone, SleepTimeout, SleepOver,
           SleepingCancelled, Drained
  <1>3. CASE SelectClosed \/ SleepBlock \/ SleepingTimer
    BY <1>3 DEF SelectClosed, SleepBlock, SleepingTimer, Drained
  <1> QED BY <1>1, <1>2, <1>3, RunnerKinds DEF Errs, Requesting

(* Time passes only in the selects, whose timers end no later than the next *)
(* heartbeat (WakeIsTimely).                                                *)
LEMMA SilenceStep ==
    ASSUME AtOnce, TypeInv, WakeIsTimely, PromptInv, NeverSilent, [HNext]_hvars
    PROVE  NeverSilent'
  <1>1. /\ now \in Nat /\ progress.lastEmit \in Nat /\ s.ProgressInterval \in Nat
        /\ timers.wake \in Nat
    BY SpecType DEF TypeInv, TypeOK, EnvType, ControlType, SeenType, Progress, Timers
  <1>2. CASE UNCHANGED hvars
    BY <1>2 DEF hvars, vars, NeverSilent
  <1>3. CASE Tick
    <2>1. /\ pc \in {"select", "sleeping"} /\ now' <= timers.wake
          /\ progress' = progress /\ s' = s /\ now' \in Nat
      BY <1>1, <1>3, TickWaits DEF runnerVars
    <2>2. progress.emitted => timers.wake <= progress.lastEmit + s.ProgressInterval
      BY <2>1 DEF WakeIsTimely
    <2> QED BY <1>1, <2>1, <2>2 DEF NeverSilent
  <1>4. CASE (EnvStep \/ Terminated) /\ ~Tick
    <2>1. UNCHANGED <<pc, progress, s>> /\ now' = now
      BY <1>4, OutsideMoves DEF runnerVars, TypeInv
    <2> QED BY <2>1 DEF NeverSilent
  <1>5. CASE RunnerStep
    <2>1. now' = now /\ s' = s
      BY <1>5, RunnerFrame
    <2>2. CASE progress' = progress /\ pc # "done"
      BY <2>1, <2>2 DEF NeverSilent
    <2>3. CASE progress'.lastEmit = now
      <3>1. now <= now + s.ProgressInterval
        BY <1>1, Later
      <3> QED BY <2>1, <2>3, <3>1 DEF NeverSilent
    <2>4. pc # "done"
      BY <1>5, RunnerAlive
    <2> QED BY <1>5, <2>2, <2>3, <2>4, SaysNow DEF SaidNow
  <1> QED BY <1>2, <1>3, <1>4, <1>5 DEF HNext, Next

(* With a prompt runner and immediate answers a wait that has begun to      *)
(* report is never silent for longer than progress_interval, whatever pause *)
(* or backoff it is in (README: "every progress_interval").                 *)
THEOREM HeartbeatsKept == ASSUME AtOnce PROVE HSpec => []NeverSilent
  <1>1. HInit => NeverSilent
    BY DEF HInit, Init, NeverSilent
  <1>2. CoreInv => TypeInv
    BY DEF CoreInv
  <1> QED BY <1>1, <1>2, SilenceStep, PromptInvariant, HistoryPaced, HistoryKeeps, PTL DEF HSpec

------------------------------------------------------------------------------
(* Once the cluster and the server are quiet.  Whatever a prompt runner has *)
(* still to digest of a disturbance, it digests at that instant.            *)
Quiet == h.quietSince = now

QuietInv ==
    /\ h.quietSince \in Nat /\ h.quietSince <= now
    /\ ctxDone /\ pc # "done" => Quiet
    /\ pc \in Requesting /\ call.st = "failed" => Quiet
    /\ pc \in {"list", "watch"} /\ ~served => Quiet
    /\ pc \in Requesting /\ call.st = "ok" /\ call.rv < Len(hist) => Quiet
    /\ pc = "resolve" /\ call.st = "ok" /\ (call.served <=> ~served) => Quiet
    /\ pc = "watch" /\ pos < Len(hist) => Quiet

(* What an answer may be when nothing is disturbed. *)
LEMMA QuietAnswers ==
    ASSUME AtOnce, TypeInv, PromptInv, QuietInv, EnvStep, ~Disturbed
    PROVE  /\ UNCHANGED <<now, ctxDone, served, hist, pos>>
           /\ \/ call' = call
              \/ call'.st = "failed" /\ Quiet
              \/ call'.st = "ok" /\ call'.rv = Len(hist) /\ call'.served = served
  <1>1. UNCHANGED <<ctxDone, served, hist, faults>>
    BY DEF Disturbed
  <1>2. now' = now
    BY OutsideMoves, Zenon DEF EnvStep, ServerAnswers, ServerFails, RequestExpires,
       RequestCancelled, Answer, ClusterChange, FlipServed, EventArrives, Cancel, env
  <1>3. pos' = pos
    BY EnvFrame DEF runnerVars
  <1>4. call \in Calls /\ now \in Nat /\ RequestTimeout \in Nat \ {0}
    BY ConstantsAssumption DEF TypeInv, TypeOK, ControlType, EnvType
  <1>5. CASE ServerAnswers
    <2>1. CASE pc = "resolve" \/ served
      <3>1. call' = [call EXCEPT !.st = "ok", !.served = served, !.rv = Len(hist)]
        BY <1>5, <2>1 DEF ServerAnswers, Answer
      <3> QED BY <1>1, <1>2, <1>3, <1>4, <3>1 DEF Calls
    <2>2. CASE ~(pc = "resolve" \/ served)
      <3>1. call' = [call EXCEPT !.st = "failed", !.err = "other"] /\ pc \in Requesting
        BY <1>5, <2>2 DEF ServerAnswers, Answer
      <3>2. call'.st = "failed"
        BY <1>4, <3>1 DEF Calls
      <3> QED BY <1>1, <1>2, <1>3, <2>2, <3>1, <3>2 DEF QuietInv, Requesting
    <2> QED BY <1>1, <1>2, <1>3, <2>1, <2>2
  <1>6. ASSUME NEW e \in ErrKinds, ServerFails(e) PROVE FALSE
    BY <1>1, <1>6 DEF ServerFails, TypeInv, TypeOK, EnvType
  <1>7. CASE RequestExpires
    BY <1>4, <1>7 DEF RequestExpires, PromptInv, Requesting
  <1>8. CASE RequestCancelled
    BY <1>1, <1>2, <1>3, <1>4, <1>8 DEF RequestCancelled, Answer, Calls, QuietInv, Requesting
  <1>9. ASSUME NEW k \in Keys, NEW o \in Objects \cup {NoObject}, ClusterChange(k, o)
        PROVE  call' = call
    BY <1>9 DEF ClusterChange
  <1>10. CASE FlipServed \/ EventArrives \/ Cancel
    BY <1>1, <1>2, <1>3, <1>10 DEF FlipServed, EventArrives, Cancel
  <1> QED BY <1>1, <1>2, <1>3, <1>5, <1>6, <1>7, <1>8, <1>9, <1>10 DEF EnvStep

(* Where the runner goes with what it has been answered.                    *)
LEMMA RunnerAsks ==
    ASSUME RunnerStep
    PROVE  /\ pc # "done"
           /\ pc' \in Requesting => call'.st = "waiting"
           /\ pc' = "list" => pc = "resolve" /\ call.st = "ok" /\ call.served
           /\ pc' = "watch" => pc = "list" /\ call.st = "ok" /\ pos' = call.rv
  <1> USE DEF End, Loop, Sleep, EnterWait, Turn, EndSettled, Requesting
  <1>1. CASE LoopCancelled \/ LoopTimeout \/ SelectCancelled \/ SleepingCancelled \/ WaitTimeout
             \/ SleepTimeout \/ ResolveWrongScope
    BY <1>1 DEF LoopCancelled, LoopTimeout, SelectCancelled, SleepingCancelled, WaitTimeout,
                SleepTimeout, ResolveWrongScope, cancelled, timeout, fatal
  <1>2. CASE LoopStart \/ ResolveReturns
    BY <1>2, FreshCall DEF LoopStart, ResolveReturns, Ask
  <1>3. CASE ResolveUnserved
    BY <1>3 DEF ResolveUnserved
  <1>4. CASE ListReturns
    BY <1>4, FreshCall DEF ListReturns, Ask, Refresh
  <1>5. CASE WatchReturns \/ WatchGone \/ WaitSettleByList \/ WaitSettleByWatch \/ WaitResync
             \/ WaitBlock
    BY <1>5 DEF WatchReturns, WatchGone, WaitSettleByList, WaitSettleByWatch, WaitResync, WaitBlock
  <1>6. CASE SelectTimer \/ SelectEvent \/ SelectBookmark \/ SelectClosed \/ SelectGone
    BY <1>6 DEF SelectTimer, SelectEvent, SelectBookmark, SelectClosed, SelectGone, Drained
  <1>7. CASE CallFails \/ \E e \in ErrKinds \ {"gone"} : SelectError(e)
    BY <1>7 DEF CallFails, SelectError, Drained, apiError, fatal
  <1>8. CASE SleepOver \/ SleepBlock \/ SleepingTimer
    BY <1>8 DEF SleepOver, SleepBlock, SleepingTimer
  <1> QED BY <1>1, <1>2, <1>3, <1>4, <1>5, <1>6, <1>7, <1>8 DEF RunnerStep

LEMMA QuietInvStep ==
    ASSUME AtOnce, TypeInv, PromptInv, QuietInv, [HNext]_hvars
    PROVE  QuietInv'
  <1> USE DEF QuietInv, Quiet, Requesting
  <1>1. now \in Nat /\ Len(hist) \in Nat /\ served \in BOOLEAN
    BY DEF TypeInv, TypeOK, EnvType
  <1>2. CASE UNCHANGED hvars
    BY <1>2 DEF hvars, vars
  <1> SUFFICES ASSUME HNext PROVE QuietInv'
    BY <1>2
  <1>3. h'.quietSince = IF Disturbed THEN now ELSE h.quietSince
    BY DEF HNext, AtOnce
  <1>4. CASE Tick
    <2>1. /\ pc \in {"select", "sleeping"} /\ now' = now + 1 /\ ~ctxDone
          /\ UNCHANGED <<ctxDone, served, hist, faults, pc>>
      BY <1>4, TickWaits DEF runnerVars
    <2> QED BY <1>1, <1>3, <2>1 DEF Disturbed
  <1>5. CASE ~Tick
    <2>0. now' = now
      BY <1>5, OutsideMoves, RunnerFrame DEF HNext, Next, TypeInv
    <2>1. CASE Disturbed
      BY <1>1, <1>3, <2>0, <2>1
    <2>2. CASE ~Disturbed
      <3>1. UNCHANGED <<ctxDone, served, hist>> /\ h'.quietSince = h.quietSince
        BY <1>3, <2>2 DEF Disturbed
      <3>2. CASE EnvStep
        <4>1. pc' = pc
          BY <3>2, EnvFrame DEF runnerVars
        <4> QED BY <1>1, <2>0, <2>2, <3>1, <3>2, <4>1, QuietAnswers
      <3>3. CASE Terminated
        BY <2>0, <3>1, <3>3 DEF Terminated, vars
      <3>4. CASE RunnerStep
        BY <1>1, <2>0, <3>1, <3>4, RunnerAsks
      <3> QED BY <1>5, <3>2, <3>3, <3>4 DEF HNext, Next
    <2> QED BY <2>1, <2>2
  <1> QED BY <1>4, <1>5

LEMMA QuietInvariant == ASSUME AtOnce PROVE HSpec => []QuietInv
  <1>1. HInit => QuietInv
    BY DEF HInit, Init, QuietInv, Quiet, Requesting
  <1>2. CoreInv => TypeInv
    BY DEF CoreInv
  <1> QED BY <1>1, <1>2, QuietInvStep, PromptInvariant, HistoryKeeps, PTL DEF HSpec

(* By this moment a disturbance has had its resync, or its pause. *)
Limit == h.quietSince + Max2(s.PollInterval, MinCycle)

Current == Verdict(s, hist[Len(hist)].objs)

(* The tracker follows the verdict that is there to be seen, in time.       *)
Follows ==
    /\ tracker.started /\ tracker.state = Current /\ tracker.since <= Limit
    /\ HasDeadline(tracker) => now <= Deadline(tracker, s.Settle)

MissedInv ==
    /\ tracker.since <= now
    /\ pc \in Judging => tracker.started
    /\ pc \in {"wait", "select"} => timers.resyncAt <= now + s.PollInterval
    /\ pc \in Pausing => timers.until <= Limit
    /\ pc \in {"loop", "resolve", "list"} => now <= Limit \/ Follows
    /\ pc \in Judging /\ pos = Len(hist) => tracker.since <= Limit
    /\ pc \in {"wait", "select"} /\ pos < Len(hist) => timers.resyncAt <= Limit
    /\ NoMissedVerdict

(* A disturbance, or an instant that is not quiet yet, moves the limit on. *)
LEMMA LimitMoves ==
    ASSUME AtOnce, TypeInv, QuietInv, HNext, s' = s
    PROVE  /\ Limit \in Nat
           /\ \E l \in Nat :
                 /\ Limit' = l /\ l >= Limit
                 /\ Disturbed \/ Quiet => l >= now + s.PollInterval /\ l >= now + MinCycle
                 /\ ~Disturbed => l = Limit
  <1>1. now \in Nat /\ s.PollInterval \in Nat /\ MinCycle \in Nat
    BY SpecType, ConstantsAssumption DEF TypeInv, TypeOK, EnvType
  <1>2. h.quietSince \in Nat /\ h.quietSince <= now
    BY DEF QuietInv
  <1> DEFINE m == Max2(s.PollInterval, MinCycle)
  <1>3. m \in Nat /\ m >= s.PollInterval /\ m >= MinCycle
    BY <1>1 DEF Max2
  <1>4. Limit = h.quietSince + m
    BY DEF Limit
  <1> DEFINE l == (IF Disturbed THEN now ELSE h.quietSince) + m
  <1>5. Limit' = l
    BY DEF Limit, HNext, AtOnce
  <1> HIDE DEF m
  <1>6. /\ l \in Nat /\ h.quietSince + m \in Nat /\ l >= h.quietSince + m
        /\ Disturbed \/ Quiet => l >= now + s.PollInterval /\ l >= now + MinCycle
        /\ ~Disturbed => l = h.quietSince + m
    BY <1>1, <1>2, <1>3 DEF Quiet
  <1> HIDE DEF l
  <1> QED BY <1>4, <1>5, <1>6

(* What the runner tracks while it judges is the verdict of its snapshot.   *)
LEMMA TracksSnapshot ==
    ASSUME CoreInv, ReportInv, pc \in Judging, tracker.started
    PROVE  /\ tracker.state = Verdict(s, hist[pos].objs)
           /\ pos \in Nat /\ pos <= Len(hist) /\ Len(hist) \in Nat
  BY DEF CoreInv, ReportInv, Judged, Judging, CacheIsSnapshot, LastIsTracked, TypeInv, TypeOK,
         SeenType, EnvType

(* How a wait phase may end: in time, whatever the snapshot.                *)
LEMMA PhaseInTime ==
    ASSUME CoreInv, ReportInv, PromptInv, MissedInv, pc = "wait", Limit \in Nat
    PROVE  now <= Limit \/ Follows
  <1>1. /\ now \in Nat /\ timers.resyncAt \in Nat
        /\ pos \in Nat /\ pos <= Len(hist) /\ Len(hist) \in Nat
    BY DEF CoreInv, TypeInv, TypeOK, EnvType, ControlType, SeenType, Timers
  <1>2. CASE pos < Len(hist)
    BY <1>1, <1>2 DEF MissedInv, PromptInv
  <1>3. CASE pos = Len(hist)
    BY <1>3, TracksSnapshot DEF MissedInv, PromptInv, Follows, Current, Judging
  <1> QED BY <1>1, <1>2, <1>3

(* The ends that are timeouts. *)
LEMMA OnlyTimeoutsTimeOut ==
    ASSUME Others, pc' = "done", result'.kind = "timeout"
    PROVE  now >= s.Timeout /\ pc \in {"loop", "wait", "sleep"}
  <1>1. ASSUME NEW kind, NEW v, NEW w, End(kind, v, w), kind # "timeout" PROVE FALSE
    BY <1>1 DEF End
  <1>2. ~cancelled /\ ~fatal
    BY <1>1 DEF cancelled, fatal
  <1>3. ~Loop
    BY DEF Loop
  <1> QED BY <1>2, <1>3
          DEF Others, LoopCancelled, LoopTimeout, LoopStart, ResolveReturns, ResolveWrongScope,
              WatchReturns, WatchGone, WaitTimeout, WaitSettleByList, WaitResync, WaitBlock,
              SelectCancelled, SelectTimer, SelectBookmark, SelectGone, SleepTimeout, SleepOver,
              SleepingCancelled, Ask, EnterWait, Turn, Drained

LEMMA OtherWays ==
    ASSUME TypeInv, Others
    PROVE  /\ pc' = "loop" => \/ pc = "watch" /\ call.st = "failed"
                              \/ pc = "select" /\ faults' # faults
                              \/ pc \in {"wait", "sleep"}
           /\ pc' = "resolve" => pc = "loop"
           /\ pc' = "list" => pc = "resolve"
           /\ pos' = pos
  <1>1. faults \in Nat
    BY DEF TypeInv, TypeOK, EnvType
  <1>2. CASE cancelled \/ timeout \/ fatal
    BY <1>2 DEF cancelled, timeout, fatal, End
  <1>3. CASE LoopStart \/ ResolveReturns \/ WatchReturns \/ WaitBlock
    BY <1>3 DEF LoopStart, ResolveReturns, WatchReturns, WaitBlock, Ask, EnterWait
  <1>4. CASE WatchGone \/ WaitSettleByList \/ WaitResync \/ SelectGone \/ SleepOver
    BY <1>1, <1>4 DEF WatchGone, WaitSettleByList, WaitResync, SelectGone, SleepOver, Loop, Drained
  <1>5. CASE SelectTimer \/ SelectBookmark
    BY <1>5 DEF SelectTimer, SelectBookmark, Turn
  <1> QED BY <1>2, <1>3, <1>4, <1>5
          DEF Others, LoopCancelled, SelectCancelled, SleepingCancelled, LoopTimeout, WaitTimeout,
              SleepTimeout, ResolveWrongScope

LEMMA LookPlaces ==
    ASSUME Looks
    PROVE  /\ pc' = "done" => result'.kind = "settled"
           /\ pc \in {"resolve", "list"} => call.st = "ok" /\ pos' = call.rv
           /\ pc = "select" => pos < arrived
           /\ pc = "wait" => pc' = "done"
           /\ pc' = "watch" => pc = "list"
  <1>1. ASSUME NEW v, EndSettled(v) PROVE pc' = "done" /\ result'.kind = "settled"
    BY <1>1 DEF EndSettled, End
  <1>2. CASE ResolveUnserved
    BY <1>1, <1>2 DEF ResolveUnserved, Refresh, EnterWait
  <1>3. CASE ListReturns
    BY <1>1, <1>3 DEF ListReturns, Refresh, EnterWait, Ask
  <1>4. CASE SelectEvent
    BY <1>1, <1>4 DEF SelectEvent, Turn
  <1>5. CASE WaitSettleByWatch
    BY <1>1, <1>5 DEF WaitSettleByWatch
  <1> QED BY <1>2, <1>3, <1>4, <1>5 DEF Looks

(* The steps of the runner, each kind of them.  Everything that holds of    *)
(* the state holds of the next one, but for MissedInv.                      *)
Before == CoreInv /\ ReportInv /\ PaceInv /\ PromptInv /\ QuietInv

LEMMA MissedLooks ==
    ASSUME AtOnce, Before, MissedInv, HNext, RunnerStep, CoreInv', ReportInv', Looks
    PROVE  MissedInv'
  <1>1. TypeInv /\ TypeOK
    BY DEF Before, CoreInv, TypeInv
  <1>2. /\ now \in Nat /\ tracker \in Tracker /\ timers \in Timers
        /\ s.PollInterval \in Nat /\ tracker.since \in Nat /\ timers.resyncAt \in Nat
        /\ pos \in Nat /\ arrived \in Nat /\ arrived <= Len(hist) /\ Len(hist) \in Nat
    BY <1>1, SpecType DEF TypeOK, EnvType, ControlType, SeenType, Tracker, Timers
  <1>3. now' = now /\ s' = s /\ hist' = hist
    BY RunnerFrame
  <1>4. PICK l \in Nat : /\ Limit' = l /\ l >= Limit
                         /\ Disturbed \/ Quiet => l >= now + s.PollInterval
    BY <1>1, <1>3, LimitMoves DEF Before
  <1>5. Limit \in Nat
    BY <1>1, <1>3, LimitMoves DEF Before
  <1>6. PICK v \in Verdicts : tracker' = Observe(tracker, now, v)
    BY <1>1, LookMoves
  <1>7. PICK t \in Tracker : /\ t = tracker' /\ t.started /\ t.state = v
                             /\ t.since = tracker.since \/ t.since = now
    <2>1. Observe(tracker, now, v) \in Tracker
      BY <1>2, ObserveTracker
    <2>2. LET u == Observe(tracker, now, v)
          IN u.started /\ u.state = v /\ (u.since = tracker.since \/ u.since = now)
      BY <1>2 DEF Observe, Tracker
    <2> QED BY <1>6, <2>1, <2>2
  <1>8. t.since \in Nat /\ t.since <= now
    BY <1>2, <1>7 DEF MissedInv, Tracker
  <1>9. CASE pc' = "done"
    BY <1>3, <1>7, <1>8, <1>9, LookPlaces DEF MissedInv, NoMissedVerdict, Judging, Pausing
  <1>10. CASE pc' # "done"
    <2>1. pc' \in {"watch", "wait"} /\ pc \in {"resolve", "list", "select"}
      BY <1>1, <1>10, LookMoves, LookPlaces
    <2>2. NoMissedVerdict'
      BY <1>10 DEF CoreInv, ResultAtEnd, NoMissedVerdict
    <2>3. v = Verdict(s, hist[pos'].objs)
      <3>1. tracker'.state = Verdict(s', hist'[pos'].objs)
        BY <1>7, <2>1, TracksSnapshot DEF CoreInv, ReportInv, Judged, Judging, CacheIsSnapshot,
           LastIsTracked
      <3> QED BY <1>3, <1>7, <3>1
    <2>4. pc = "select" => now <= Limit
      BY <1>2, <1>5, LookPlaces DEF MissedInv, Before, PromptInv
    <2>5. ASSUME pos' = Len(hist) PROVE t.since <= Limit
      <3>1. CASE now <= Limit
        BY <1>2, <1>5, <1>8, <3>1
      <3>2. CASE Follows
        <4>1. tracker.started /\ tracker.state = v /\ tracker.since <= Limit
          BY <2>3, <2>5, <3>2 DEF Follows, Current
        <4>2. tracker' = tracker
          BY <1>6, <4>1 DEF Observe
        <4> QED BY <1>7, <4>1, <4>2
      <3> QED BY <2>1, <2>4, <3>1, <3>2 DEF MissedInv
    <2>6. ASSUME pc' = "wait"
          PROVE  /\ timers'.resyncAt <= now + s.PollInterval
                 /\ pos' < Len(hist) => timers'.resyncAt <= l
      <3>1. CASE pc = "select"
        <4>1. timers'.resyncAt = timers.resyncAt
          BY <1>1, <1>10, <2>6, <3>1, LookEnds
        <4> QED BY <1>2, <1>4, <1>5, <3>1, <4>1, LookPlaces DEF MissedInv
      <3>2. CASE pc \in {"resolve", "list"}
        <4>1. timers'.resyncAt = now + s.PollInterval
          BY <1>1, <1>10, <2>6, <3>2, LookEnds
        <4>2. pos' < Len(hist) => Quiet
          BY <3>2, LookPlaces DEF Before, QuietInv, Requesting
        <4> QED BY <1>2, <1>4, <4>1, <4>2
      <3> QED BY <2>1, <3>1, <3>2
    <2>7. pos' = Len(hist) => t.since <= l
      BY <1>4, <1>5, <1>8, <2>5
    <2> QED BY <1>3, <1>4, <1>7, <1>8, <2>1, <2>2, <2>6, <2>7 DEF MissedInv, Judging, Pausing
  <1> QED BY <1>9, <1>10

LEMMA MissedOthers ==
    ASSUME AtOnce, Before, MissedInv, HNext, RunnerStep, CoreInv', Others
    PROVE  MissedInv'
  <1>1. TypeInv /\ TypeOK
    BY DEF Before, CoreInv, TypeInv
  <1>2. /\ now \in Nat /\ tracker \in Tracker /\ timers \in Timers /\ s.Settle \in Nat
        /\ s.PollInterval \in Nat /\ tracker.since \in Nat /\ timers.resyncAt \in Nat
        /\ timers.until \in Nat /\ s.Timeout \in Nat
        /\ pos \in Nat /\ pos <= Len(hist) /\ Len(hist) \in Nat
    BY <1>1, SpecType DEF TypeOK, EnvType, ControlType, SeenType, Tracker, Timers
  <1>3. now' = now /\ s' = s /\ hist' = hist
    BY RunnerFrame
  <1>4. PICK l \in Nat : /\ Limit' = l /\ l >= Limit
                         /\ Disturbed \/ Quiet => l >= now + s.PollInterval
    BY <1>1, <1>3, LimitMoves DEF Before
  <1>5. Limit \in Nat
    BY <1>1, <1>3, LimitMoves DEF Before
  <1>6. tracker' = tracker /\ pos' = pos
    BY <1>1, OtherMoves, OtherWays
  <1>7. pc \in {"loop", "resolve", "list", "wait"} => now <= Limit \/ Follows
    BY <1>5, PhaseInTime DEF MissedInv, Before
  <1>8. pc = "sleep" => now <= Limit
    BY <1>2, <1>5 DEF MissedInv, Before, PromptInv, Pausing
  <1>9. Follows => Follows'
    BY <1>2, <1>3, <1>4, <1>5, <1>6 DEF Follows, Current
  <1>10. pc' # "done" => NoMissedVerdict'
    BY DEF CoreInv, ResultAtEnd, NoMissedVerdict
  <1>11. CASE pc' = "done"
    <2>1. ASSUME result'.kind = "timeout", Current # "pending"
          PROVE  s.Timeout <= l + s.Settle
      <3>1. now >= s.Timeout /\ pc \in {"loop", "wait", "sleep"}
        BY <1>11, <2>1, OnlyTimeoutsTimeOut
      <3>2. CASE now <= Limit
        BY <1>2, <1>4, <1>5, <3>1, <3>2
      <3>3. CASE Follows
        <4>1. tracker.since <= Limit /\ now <= tracker.since + s.Settle
          BY <2>1, <3>3 DEF Follows, HasDeadline, Deadline
        <4> QED BY <1>2, <1>4, <1>5, <3>1, <4>1
      <3> QED BY <1>7, <1>8, <3>1, <3>2, <3>3
    <2>2. Current' = Current /\ Limit' = l
      BY <1>3, <1>4 DEF Current
    <2>3. NoMissedVerdict'
      BY <1>3, <2>1, <2>2 DEF NoMissedVerdict, Current, Limit
    <2> QED BY <1>3, <1>6, <1>11, <2>3 DEF MissedInv, Judging, Pausing
  <1>12. CASE pc' \in {"loop", "resolve", "list"}
    <2>1. now <= l \/ Follows
      <3>1. CASE pc = "watch" /\ call.st = "failed"
        BY <1>2, <1>4, <3>1 DEF Before, QuietInv, Requesting
      <3>2. CASE pc = "select" /\ faults' # faults
        BY <1>2, <1>4, <3>2 DEF Disturbed
      <3>3. CASE pc \in {"loop", "resolve", "wait", "sleep"}
        BY <1>2, <1>4, <1>5, <1>7, <1>8, <3>3
      <3> QED BY <1>1, <1>12, <3>1, <3>2, <3>3, OtherWays
    <2> QED BY <1>3, <1>4, <1>6, <1>9, <1>10, <1>12, <2>1 DEF MissedInv, Judging, Pausing
  <1>13. CASE pc' \in {"wait", "select"}
    <2>1. pc \in Judging
      BY <1>13, OtherMoves DEF Judging
    <2>2. tracker.started /\ (pos = Len(hist) => tracker.since <= l)
      BY <1>2, <1>4, <1>5, <2>1 DEF MissedInv
    <2>3. /\ timers'.resyncAt <= now + s.PollInterval
          /\ pos < Len(hist) => timers'.resyncAt <= l
      <3>1. CASE pc = "watch"
        <4>1. timers'.resyncAt = now + s.PollInterval
          BY <1>1, <1>13, <3>1, OtherTimers
        <4>2. pos < Len(hist) => Quiet
          BY <3>1 DEF Before, QuietInv
        <4> QED BY <1>2, <1>4, <4>1, <4>2
      <3>2. CASE pc # "watch"
        <4>1. timers'.resyncAt = timers.resyncAt /\ pc \in {"wait", "select"}
          BY <1>1, <1>13, <3>2, OtherTimers
        <4> QED BY <1>2, <1>4, <1>5, <4>1 DEF MissedInv
      <3> QED BY <3>1, <3>2
    <2> QED BY <1>3, <1>4, <1>6, <1>10, <1>13, <2>2, <2>3 DEF MissedInv, Judging, Pausing
  <1> QED BY <1>11, <1>12, <1>13, OtherMoves

LEMMA MissedPauses ==
    ASSUME AtOnce, Before, MissedInv, HNext, RunnerStep, CoreInv',
           \/ SelectClosed \/ SleepBlock \/ SleepingTimer
           \/ \E e \in ErrKinds : Errs(e)
    PROVE  MissedInv'
  <1>1. TypeInv /\ TypeOK /\ faults \in Nat
    BY DEF Before, CoreInv, TypeInv, TypeOK, EnvType
  <1>2. /\ now \in Nat /\ tracker \in Tracker /\ timers \in Timers
        /\ s.PollInterval \in Nat /\ tracker.since \in Nat /\ timers.cycleStart \in Nat
        /\ timers.until \in Nat /\ timers.cycleStart <= now /\ MinCycle \in Nat
    BY <1>1, SpecType, ConstantsAssumption
       DEF TypeOK, EnvType, ControlType, SeenType, Tracker, Timers, Before, PaceInv
  <1>3. now' = now /\ s' = s
    BY RunnerFrame
  <1>4. PICK l \in Nat :
           /\ Limit' = l /\ l >= Limit
           /\ Disturbed \/ Quiet => l >= now + s.PollInterval /\ l >= now + MinCycle
    BY <1>1, <1>3, LimitMoves DEF Before
  <1>5. Limit \in Nat
    BY <1>1, <1>3, LimitMoves DEF Before
  <1>6. pc' # "done" => NoMissedVerdict'
    BY DEF CoreInv, ResultAtEnd, NoMissedVerdict
  <1> USE DEF MissedInv, Judging, Pausing
  <1>7. CASE SleepBlock \/ SleepingTimer
    <2>1. /\ tracker' = tracker /\ pc \in Pausing /\ pc' \in Pausing
          /\ timers'.until = timers.until
      <3>1. pc \in Pausing
        BY <1>7 DEF SleepBlock, SleepingTimer
      <3> QED BY <1>1, <1>7, <3>1, RestMoves
    <2> QED BY <1>2, <1>3, <1>4, <1>5, <1>6, <2>1
  <1>8. CASE SelectClosed
    <2>1. /\ tracker' = tracker
          /\ \/ pc' = "sleep" /\ timers'.until = timers.cycleStart + MinCycle
             \/ pc' = "loop"
      BY <1>1, <1>8, RestMoves DEF SelectClosed, Drained
    <2>2. Disturbed \/ Quiet
      BY <1>1, <1>8 DEF SelectClosed, Drained, Disturbed, Before, QuietInv
    <2> QED BY <1>2, <1>3, <1>4, <1>6, <2>1, <2>2
  <1>9. ASSUME NEW e \in ErrKinds, Errs(e) PROVE MissedInv'
    <2>1. Disturbed \/ Quiet
      BY <1>9 DEF Errs, Disturbed, Before, QuietInv
    <2>2. apiError(e)
      BY <1>9 DEF Errs
    <2>3. CASE pc' \in {"done", "loop"}
      <3>1. /\ tracker' = tracker
            /\ pc' = "done" => result'.kind = "fatal"
        BY <1>1, <2>2, <2>3, ErrorMoves DEF seen
      <3>2. NoMissedVerdict'
        BY <1>6, <3>1 DEF NoMissedVerdict
      <3> QED BY <1>2, <1>3, <1>4, <2>1, <2>3, <3>1, <3>2
    <2>4. CASE pc' = "sleep"
      <3>1. /\ tracker' = Observe(tracker, now, "pending")
            /\ backoff' \in 1 .. s.PollInterval /\ timers'.until = now + backoff'
        BY <1>1, <2>2, <2>4, ErrorMoves
      <3>2. PICK b \in 1 .. s.PollInterval : timers'.until = now + b
        BY <3>1
      <3>3. tracker'.since = tracker.since \/ tracker'.since = now
        BY <1>2, <3>1 DEF Observe
      <3>4. timers'.until <= l
        BY <1>2, <1>4, <2>1, <3>2
      <3> QED BY <1>2, <1>3, <1>4, <1>6, <2>4, <3>3, <3>4
    <2> QED BY <1>1, <2>2, <2>3, <2>4, ErrorMoves
  <1> QED BY <1>7, <1>8, <1>9

LEMMA MissedOutside ==
    ASSUME AtOnce, Before, MissedInv, HNext, EnvStep \/ Tick \/ Terminated, CoreInv'
    PROVE  MissedInv'
  <1>1. TypeInv /\ TypeOK
    BY DEF Before, CoreInv, TypeInv
  <1>2. /\ now \in Nat /\ tracker \in Tracker /\ timers \in Timers
        /\ s.PollInterval \in Nat /\ tracker.since \in Nat /\ timers.resyncAt \in Nat
        /\ timers.until \in Nat
    BY <1>1, SpecType DEF TypeOK, EnvType, ControlType, SeenType, Tracker, Timers
  <1>3. UNCHANGED <<s, pc, timers, tracker, result, pos>>
    BY <1>1, OutsideMoves DEF runnerVars
  <1>4. PICK l \in Nat : /\ Limit' = l /\ l >= Limit
                         /\ Disturbed => l >= now + s.PollInterval
                         /\ ~Disturbed => l = Limit
    BY <1>1, <1>3, LimitMoves DEF Before
  <1>5. Limit \in Nat
    BY <1>1, <1>3, LimitMoves DEF Before
  <1>6. pc # "done" => NoMissedVerdict'
    BY <1>3 DEF CoreInv, ResultAtEnd, NoMissedVerdict
  <1> USE DEF MissedInv, Judging, Pausing
  <1>7. CASE Tick
    <2>1. /\ pc \in {"select", "sleeping"} /\ now' = now + 1
          /\ UNCHANGED <<ctxDone, served, hist, faults>>
      BY <1>1, <1>7, TickWaits DEF Before
    <2>2. l = Limit
      BY <1>4, <2>1 DEF Disturbed
    <2> QED BY <1>2, <1>3, <1>4, <1>5, <1>6, <2>1, <2>2
  <1>8. CASE ~Tick
    <2>0. now' = now
      BY <1>1, <1>8, OutsideMoves
    <2>1. CASE Disturbed
      <3>1. pc # "done"
        BY <1>8, <2>1 DEF EnvStep, Terminated, vars, ServerAnswers, ServerFails, RequestExpires,
           RequestCancelled, Answer, ClusterChange, FlipServed, EventArrives, Cancel, env,
           Requesting, Disturbed
      <3> QED BY <1>2, <1>3, <1>4, <1>5, <1>6, <2>0, <2>1, <3>1
    <2>2. CASE ~Disturbed
      <3>1. hist' = hist /\ l = Limit
        BY <1>4, <2>2 DEF Disturbed
      <3>2. Follows' <=> Follows
        BY <1>3, <1>4, <2>0, <3>1 DEF Follows, Current
      <3>3. NoMissedVerdict'
        BY <1>3, <1>4, <3>1 DEF NoMissedVerdict, Limit
      <3> QED BY <1>3, <1>4, <2>0, <3>1, <3>2, <3>3
    <2> QED BY <2>1, <2>2
  <1> QED BY <1>7, <1>8

LEMMA MissedInvStep ==
    ASSUME AtOnce, Before, MissedInv, [HNext]_hvars, CoreInv', ReportInv'
    PROVE  MissedInv'
  <1>1. CASE UNCHANGED hvars
    BY <1>1 DEF hvars, vars, MissedInv, NoMissedVerdict, Follows, Current, Limit
  <1>2. CASE HNext /\ RunnerStep
    BY <1>2, RunnerKinds, MissedLooks, MissedOthers, MissedPauses DEF Before, CoreInv
  <1>3. CASE HNext /\ (EnvStep \/ Tick \/ Terminated)
    BY <1>3, MissedOutside
  <1> QED BY <1>1, <1>2, <1>3 DEF HNext, Next

(* With a prompt runner and immediate answers a wait times out only when    *)
(* its verdict was not there to be seen in time.                            *)
THEOREM VerdictsNotMissed == ASSUME AtOnce PROVE HSpec => []NoMissedVerdict
  <1>1. HInit /\ CoreInv /\ QuietInv => MissedInv
    <2> SUFFICES ASSUME HInit, CoreInv, QuietInv PROVE MissedInv
      OBVIOUS
    <2>1. now = 0 /\ pc = "loop" /\ tracker.since = 0 /\ result.kind = "none"
      BY DEF HInit, Init, NewTracker, NoResult
    <2>2. 0 <= Limit
      <3>1. s.PollInterval \in Nat /\ MinCycle \in Nat /\ h.quietSince \in Nat
        BY SpecType, ConstantsAssumption DEF CoreInv, TypeInv, TypeOK, QuietInv
      <3> QED BY <3>1 DEF Limit, Max2
    <2> QED BY <2>1, <2>2 DEF MissedInv, Judging, Pausing, NoMissedVerdict
  <1>2. MissedInv => NoMissedVerdict
    BY DEF MissedInv
  <1>3. CoreInv /\ ReportInv /\ PaceInv /\ PromptInv /\ QuietInv <=> Before
    BY DEF Before
  <1> QED BY <1>1, <1>2, <1>3, MissedInvStep, HistoryKeeps, HistoryPaced, PromptInvariant,
             QuietInvariant, PTL DEF HSpec
==============================================================================

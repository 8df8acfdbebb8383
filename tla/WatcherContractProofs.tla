------------------------ MODULE WatcherContractProofs ------------------------
(***************************************************************************)
(* The runner implements the contract of a wait, for every set of keys,    *)
(* objects and configurations and every value of the durations and bounds: *)
(* its initial states map to initial states of WaitContract, and each of   *)
(* its steps to a step of it or to a stutter.                              *)
(*                                                                         *)
(* Two facts are needed beyond those of the safety proofs: an answer is    *)
(* never older than what the cache reflects, and a wait that goes on has   *)
(* no result (OpenInv).                                                    *)
(***************************************************************************)
EXTENDS WatcherContract, WatcherReportProofs, SequenceTheorems

AnswerFresh == call.st = "ok" => pc \in Requesting /\ pos <= call.rv

NoResultYet == pc # "done" => result = NoResult

OpenInv == AnswerFresh /\ NoResultYet

------------------------------------------------------------------------------
(* The two additional facts. *)

LEMMA AskFresh == ASSUME NEW p, Ask(p) PROVE call'.st = "waiting" /\ pc' = p
  <1>1. call' = [[NoCall EXCEPT !.st = "waiting"] EXCEPT !.at = now] /\ pc' = p
    BY DEF Ask
  <1> QED BY <1>1 DEF NoCall

LEMMA OpenRunner == ASSUME OpenInv, RunnerStep PROVE OpenInv'
  <1> USE DEF OpenInv, AnswerFresh, NoResultYet, Requesting, NoCall
  <1>1. CASE LoopCancelled \/ LoopTimeout \/ LoopStart
    BY <1>1, AskFresh DEF LoopCancelled, LoopTimeout, LoopStart, cancelled, timeout, End
  <1>2. CASE ResolveReturns \/ ResolveWrongScope
    BY <1>2, AskFresh DEF ResolveReturns, ResolveWrongScope, fatal, End
  <1>3. CASE ResolveUnserved \/ ListReturns
    BY <1>3, AskFresh DEF ResolveUnserved, ListReturns, EndSettled, End, EnterWait
  <1>4. CASE WatchReturns \/ WatchGone
    BY <1>4 DEF WatchReturns, WatchGone, EnterWait, Loop
  <1>5. CASE CallFails
    BY <1>5 DEF CallFails, apiError, fatal, End, Loop, Sleep
  <1>6. CASE WaitTimeout \/ WaitSettleByList \/ WaitSettleByWatch \/ WaitResync \/ WaitBlock
    BY <1>6 DEF WaitTimeout, WaitSettleByList, WaitSettleByWatch, WaitResync, WaitBlock, timeout,
                EndSettled, End, Loop
  <1>7. CASE SelectCancelled \/ SelectTimer \/ SelectEvent \/ SelectBookmark
    BY <1>7 DEF SelectCancelled, SelectTimer, SelectEvent, SelectBookmark, Drained, cancelled,
                EndSettled, End, Turn
  <1>8. CASE SelectClosed \/ SelectGone
    BY <1>8 DEF SelectClosed, SelectGone, Drained, Loop, Sleep
  <1>9. CASE \E e \in ErrKinds \ {"gone"} : SelectError(e)
    BY <1>9 DEF SelectError, Drained, apiError, fatal, End, Loop, Sleep
  <1>10. CASE SleepTimeout \/ SleepOver \/ SleepBlock \/ SleepingCancelled \/ SleepingTimer
    BY <1>10 DEF SleepTimeout, SleepOver, SleepBlock, SleepingCancelled, SleepingTimer,
                 cancelled, timeout, End, Loop
  <1> QED BY <1>1, <1>2, <1>3, <1>4, <1>5, <1>6, <1>7, <1>8, <1>9, <1>10 DEF RunnerStep

LEMMA OpenEnv == ASSUME TypeInv, OpenInv, EnvStep \/ Tick PROVE OpenInv'
  <1>1. UNCHANGED <<pc, pos, result>>
    BY EnvFrame DEF runnerVars
  <1>2. pos <= Len(hist)
    BY DEF TypeInv, TypeOK, EnvType, SeenType
  <1>3. call' = call \/ call'.st = "failed"
        \/ (pc \in Requesting /\ call'.st = "ok" /\ call'.rv = Len(hist))
    BY DEF EnvStep, Tick, ServerAnswers, ServerFails, RequestExpires, RequestCancelled, Answer,
           ClusterChange, FlipServed, EventArrives, Cancel, TypeInv, TypeOK, ControlType, Calls
  <1> QED BY <1>1, <1>2, <1>3 DEF OpenInv, AnswerFresh, NoResultYet

LEMMA OpenInvariant == Spec => []OpenInv
  <1>1. Init => OpenInv
    BY DEF Init, NoCall, OpenInv, AnswerFresh, NoResultYet
  <1>2. TypeInv /\ OpenInv /\ [Next]_vars => OpenInv'
    <2> SUFFICES ASSUME TypeInv, OpenInv, [Next]_vars PROVE OpenInv'
      OBVIOUS
    <2>1. CASE UNCHANGED vars
      BY <2>1 DEF vars, OpenInv, AnswerFresh, NoResultYet
    <2> QED BY <2>1, OpenRunner, OpenEnv DEF Next, Terminated
  <1> QED BY <1>1, <1>2, TypeInvariant, PTL DEF Spec

------------------------------------------------------------------------------
(* What the contract sees of a step. *)

LEMMA WorldSame ==
    ASSUME UNCHANGED <<now, ctxDone, hist, s>>
    PROVE  UNCHANGED Contract!world
  <1>1. verdictOf' = verdictOf
    BY DEF verdictOf
  <1> QED BY <1>1 DEF Contract!world

LEMMA Stutter ==
    ASSUME UNCHANGED <<now, ctxDone, hist, s, pos, tracker, result>>
    PROVE  UNCHANGED <<Contract!world, Contract!wait>>
  <1>1. heldVerdict' = heldVerdict
    BY DEF heldVerdict, HasDeadline
  <1> QED BY <1>1, WorldSame DEF Contract!wait

LEMMA OutcomeOpen ==
    ASSUME OpenInv, pc # "done"
    PROVE  [kind |-> result.kind, verdict |-> result.verdict] = Contract!Unended
  <1>1. result.kind = "none" /\ result.verdict = "pending"
    BY DEF OpenInv, NoResultYet, NoResult
  <1> QED BY <1>1 DEF Contract!Unended

(* The settle clock is the contract's hold on a verdict. *)
LEMMA ObserveHolds ==
    ASSUME TypeOK, NEW v \in Verdicts, tracker' = Observe(tracker, now, v), now' = now
    PROVE  /\ heldVerdict' = Contract!holding(v)
           /\ settles(v) <=> heldVerdict'.verdict # "pending"
                             /\ now - heldVerdict'.since >= s.Settle
           /\ settles(v) => heldVerdict'.verdict = v
  <1>1. tracker \in [started : BOOLEAN, state : Verdicts, since : Nat]
    BY DEF TypeOK, SeenType, Tracker
  <1>2. CASE v = "pending"
    <2>1. tracker'.state = "pending"
      BY <1>1, <1>2 DEF Observe
    <2>2. heldVerdict' = [verdict |-> "pending", since |-> 0]
      BY <2>1 DEF heldVerdict, HasDeadline
    <2>3. ~settles(v)
      BY <2>1 DEF settles, Settled
    <2> QED BY <1>2, <2>2, <2>3 DEF Contract!holding, Contract!Nothing
  <1>3. CASE v # "pending" /\ tracker.started /\ tracker.state = v
    <2>1. tracker' = tracker
      BY <1>3 DEF Observe
    <2>2. heldVerdict' = heldVerdict /\ heldVerdict = [verdict |-> v, since |-> tracker.since]
      BY <1>3, <2>1 DEF heldVerdict, HasDeadline
    <2>3. settles(v) <=> now - tracker.since >= s.Settle
      BY <1>3, <2>1 DEF settles, Settled
    <2> QED BY <1>3, <2>2, <2>3 DEF Contract!holding
  <1>4. CASE v # "pending" /\ ~(tracker.started /\ tracker.state = v)
    <2>1. tracker' = [started |-> TRUE, state |-> v, since |-> now]
      BY <1>4 DEF Observe
    <2>2. heldVerdict' = [verdict |-> v, since |-> now]
      BY <1>4, <2>1 DEF heldVerdict, HasDeadline
    <2>3. heldVerdict.verdict # v
      BY <1>4 DEF heldVerdict, HasDeadline
    <2>4. settles(v) <=> now - now >= s.Settle
      BY <1>4, <2>1 DEF settles, Settled
    <2> QED BY <1>4, <2>2, <2>3, <2>4 DEF Contract!holding
  <1> QED BY <1>2, <1>3, <1>4

(* The verdict of a snapshot becomes the result when it settles. *)
Concludes(v) ==
    IF settles(v) THEN result'.kind = "settled" /\ result'.verdict = v ELSE result' = result

LEMMA LookStep ==
    ASSUME TypeInv, OpenInv, pc # "done", UNCHANGED <<now, ctxDone, hist, s>>,
           NEW i \in 1 .. Len(hist), pos <= i, pos' = i,
           tracker' = Observe(tracker, now, Verdict(s, hist[i].objs)),
           Concludes(Verdict(s, hist[i].objs))
    PROVE  Contract!Next
  <1> DEFINE v == Verdict(s, hist[i].objs)
  <1>1. TypeOK /\ v \in Verdicts
    BY VerdictType DEF TypeInv, TypeOK
  <1>2. verdictOf[i] = v /\ Len(verdictOf) = Len(hist) /\ i \in 1 .. Len(verdictOf)
    BY DEF verdictOf, TypeInv, TypeOK, EnvType
  <1> HIDE DEF v
  <1>3. tracker' = Observe(tracker, now, v) /\ Concludes(v)
    BY DEF v
  <1>4. /\ heldVerdict' = Contract!holding(v)
        /\ settles(v) <=> heldVerdict'.verdict # "pending"
                          /\ now - heldVerdict'.since >= s.Settle
        /\ settles(v) => heldVerdict'.verdict = v
    BY <1>1, <1>3, ObserveHolds
  <1>5. [kind |-> result'.kind, verdict |-> result'.verdict]
          = IF heldVerdict'.verdict # "pending" /\ now - heldVerdict'.since >= s.Settle
            THEN [kind |-> "settled", verdict |-> heldVerdict'.verdict]
            ELSE Contract!Unended
    BY <1>3, <1>4, OutcomeOpen DEF Concludes
  <1>6. Contract!Look(i)
    BY <1>2, <1>4, <1>5, OutcomeOpen, WorldSame DEF Contract!Look, Contract!ended
  <1> QED BY <1>2, <1>6 DEF Contract!Next

LEMMA EndsAs ==
    ASSUME OpenInv, pc # "done", UNCHANGED <<now, ctxDone, hist, s, pos, tracker>>,
           NEW kind, result'.kind = kind, result'.verdict = "failure"
    PROVE  Contract!End(kind)
  <1>1. heldVerdict' = heldVerdict
    BY DEF heldVerdict, HasDeadline
  <1> QED BY <1>1, OutcomeOpen, WorldSame DEF Contract!End, Contract!Failed

LEMMA EndingSimulates ==
    ASSUME OpenInv, pc # "done",
           \/ now >= s.Timeout /\ timeout
           \/ fatal
           \/ ctxDone /\ cancelled
    PROVE  Contract!Next
  <1>1. CASE now >= s.Timeout /\ timeout
    <2>1. Contract!End("timeout")
      BY <1>1, EndsAs DEF timeout, End, env, seen
    <2> QED BY <1>1, <2>1 DEF Contract!Next
  <1>2. CASE fatal
    <2>1. Contract!End("fatal")
      BY <1>2, EndsAs DEF fatal, End
    <2> QED BY <2>1 DEF Contract!Next
  <1>3. CASE ctxDone /\ cancelled
    <2>1. Contract!End("cancelled")
      BY <1>3, EndsAs DEF cancelled, End, env, seen
    <2> QED BY <1>3, <2>1 DEF Contract!Next
  <1> QED BY <1>1, <1>2, <1>3

(* A retried error lets go of the verdict, a 401 retried at once does not.  *)
LEMMA ErrorSimulates ==
    ASSUME TypeInv, OpenInv, pc # "done", UNCHANGED <<now, ctxDone, hist, s>>,
           NEW e, apiError(e)
    PROVE  Contract!Next \/ UNCHANGED <<Contract!world, Contract!wait>>
  <1>1. CASE fatal
    BY <1>1, EndingSimulates
  <1>2. CASE UNCHANGED <<pos, tracker, result>>
    BY <1>2, Stutter
  <1>3. CASE observe(progress, "pending", "apiError") /\ UNCHANGED <<pos, result>>
    <2>1. tracker' = Observe(tracker, now, "pending") /\ TypeOK /\ "pending" \in Verdicts
      BY <1>3 DEF observe, TypeInv, Verdicts
    <2>2. heldVerdict' = Contract!Nothing
      BY <2>1, ObserveHolds DEF Contract!holding
    <2>3. Contract!LetGo
      BY <1>3, <2>2, OutcomeOpen, WorldSame DEF Contract!LetGo
    <2> QED BY <2>3 DEF Contract!Next
  <1> QED BY <1>1, <1>2, <1>3 DEF apiError, Loop, Sleep, seen

(* The settle deadline of the wait phase. *)
LEMMA SettleSimulates ==
    ASSUME TypeInv, OpenInv, LastIsTracked, WaitSettleByWatch
    PROVE  Contract!Next
  <1>1. /\ pc # "done" /\ settles(last) /\ HasDeadline(tracker)
        /\ tracker' = Observe(tracker, now, last)
        /\ result'.kind = "settled" /\ result'.verdict = last
        /\ UNCHANGED <<now, ctxDone, hist, s, pos>>
    BY DEF WaitSettleByWatch, settleDue, observe, EndSettled, End, env
  <1>2. last = tracker.state /\ tracker' = tracker
    BY <1>1 DEF LastIsTracked, HasDeadline, Observe
  <1>3. TypeOK /\ last \in Verdicts
    BY DEF TypeInv, TypeOK, SeenType
  <1>4. heldVerdict' = heldVerdict
    BY <1>2 DEF heldVerdict, HasDeadline
  <1>5. /\ heldVerdict.verdict # "pending" /\ heldVerdict.verdict = last
        /\ now - heldVerdict.since >= s.Settle
    BY <1>1, <1>3, <1>4, ObserveHolds
  <1>6. Contract!ended(heldVerdict) = [kind |-> "settled", verdict |-> last]
    BY <1>5 DEF Contract!ended
  <1>7. Contract!ended(heldVerdict) # Contract!Unended
    BY <1>6 DEF Contract!Unended
  <1>8. Contract!Settle
    BY <1>1, <1>4, <1>6, <1>7, OutcomeOpen, WorldSame DEF Contract!Settle
  <1> QED BY <1>8 DEF Contract!Next

(* A list, an unserved kind and a watch event are looks at a version.       *)
LEMMA LookSimulates ==
    ASSUME TypeInv, ServerInv, RunnerInv, OpenInv, UNCHANGED <<now, ctxDone, hist, s>>,
           ResolveUnserved \/ ListReturns \/ SelectEvent
    PROVE  Contract!Next
  <1>1. CASE ResolveUnserved
    <2>1. /\ pc # "done" /\ call.st = "ok" /\ pos' = call.rv
          /\ hist[call.rv].objs = NoObjects
          /\ tracker' = Observe(tracker, now, Verdict(s, NoObjects))
          /\ Concludes(Verdict(s, NoObjects))
      BY <1>1 DEF ResolveUnserved, Refresh, observe, RunnerInv, AnswerUnserved, EndSettled, End,
                  EnterWait, Concludes
    <2>2. call.rv \in 1 .. Len(hist) /\ pos <= call.rv
      BY <2>1 DEF TypeInv, TypeOK, EnvType, ControlType, Calls, CallOK, AnswerOK, OpenInv,
                  AnswerFresh
    <2> QED BY <2>1, <2>2, LookStep
  <1>2. CASE ListReturns
    <2>1. /\ pc # "done" /\ call.st = "ok" /\ pos' = call.rv
          /\ tracker' = Observe(tracker, now, Verdict(s, hist[call.rv].objs))
          /\ Concludes(Verdict(s, hist[call.rv].objs))
      BY <1>2 DEF ListReturns, Refresh, observe, EndSettled, End, EnterWait, Ask, Concludes
    <2>2. call.rv \in 1 .. Len(hist) /\ pos <= call.rv
      BY <2>1 DEF TypeInv, TypeOK, EnvType, ControlType, Calls, CallOK, AnswerOK, OpenInv,
                  AnswerFresh
    <2> QED BY <2>1, <2>2, LookStep
  <1>3. CASE SelectEvent
    <2>1. /\ pc = "select" /\ pos < arrived /\ pos' = pos + 1
          /\ tracker' = Observe(tracker, now, Verdict(s, applied))
          /\ Concludes(Verdict(s, applied))
      BY <1>3 DEF SelectEvent, observe, EndSettled, End, Turn, Concludes
    <2>2. pos > 0 /\ cache = hist[pos].objs
      BY <2>1 DEF RunnerInv, Judged, Judging, CacheIsSnapshot
    <2>3. pos \in 1 .. Len(hist) - 1 /\ pos + 1 \in 1 .. Len(hist) /\ pos <= pos + 1
      BY <2>1, <2>2 DEF TypeInv, TypeOK, EnvType, SeenType
    <2>4. hist[pos + 1].key # NoKey
      BY <2>1 DEF TypeInv, TypeOK, SeenType, RunnerInv, Streamed
    <2>5. applied = hist[pos + 1].objs
      BY <2>2, <2>3, <2>4 DEF ServerInv, HistChanges, applied
    <2> QED BY <2>1, <2>3, <2>5, LookStep
  <1> QED BY <1>1, <1>2, <1>3

LEMMA RunnerSimulates ==
    ASSUME CoreInv, LastIsTracked, OpenInv, RunnerStep
    PROVE  Contract!Next \/ UNCHANGED <<Contract!world, Contract!wait>>
  <1>1. TypeInv /\ ServerInv /\ RunnerInv /\ UNCHANGED <<now, ctxDone, hist, s>>
    BY RunnerFrame DEF CoreInv, RunnerInv
  <1>2. CASE \/ LoopCancelled \/ SelectCancelled \/ SleepingCancelled
             \/ LoopTimeout \/ WaitTimeout \/ SleepTimeout \/ ResolveWrongScope
    BY <1>2, EndingSimulates
       DEF LoopCancelled, SelectCancelled, SleepingCancelled, LoopTimeout, WaitTimeout,
           SleepTimeout, ResolveWrongScope
  <1>3. CASE \/ LoopStart \/ ResolveReturns \/ WatchReturns \/ WatchGone \/ SelectTimer
             \/ SelectBookmark \/ SelectClosed \/ SelectGone \/ SleepingTimer
             \/ WaitSettleByList \/ WaitResync \/ WaitBlock \/ SleepOver \/ SleepBlock
    <2>1. UNCHANGED <<pos, tracker, result>>
      BY <1>3 DEF LoopStart, ResolveReturns, WatchReturns, WatchGone, SelectTimer,
                  SelectBookmark, SelectClosed, SelectGone, SleepingTimer, WaitSettleByList,
                  WaitResync, WaitBlock, SleepOver, SleepBlock, EnterWait, Loop, Sleep, Turn,
                  seen
    <2> QED BY <1>1, <2>1, Stutter
  <1>4. CASE ResolveUnserved \/ ListReturns \/ SelectEvent
    BY <1>1, <1>4, LookSimulates
  <1>5. CASE WaitSettleByWatch
    BY <1>1, <1>5, SettleSimulates
  <1>6. CASE CallFails
    BY <1>1, <1>6, ErrorSimulates DEF CallFails, Requesting
  <1>7. CASE \E e \in ErrKinds \ {"gone"} : SelectError(e)
    BY <1>1, <1>7, ErrorSimulates DEF SelectError, Drained
  <1> QED BY <1>2, <1>3, <1>4, <1>5, <1>6, <1>7 DEF RunnerStep

(* A version of the selection appends its verdict.                          *)
LEMMA ChangeSimulates ==
    ASSUME TypeInv, NEW new \in Version, hist' = Append(hist, new),
           UNCHANGED <<now, ctxDone, s, pos, tracker, result>>
    PROVE  Contract!SelectionChanges
  <1> DEFINE n == Len(hist)
             v == Verdict(s, new.objs)
  <1>1. hist \in Seq(Version) /\ n \in Nat
    BY DEF TypeInv, TypeOK, EnvType
  <1>2. hist' = Append(hist, new) /\ UNCHANGED <<now, ctxDone, s, pos, tracker, result>>
    OBVIOUS
  <1>3. v \in Verdicts
    BY VerdictType DEF TypeInv, TypeOK
  <1>4. verdictOf \in Seq(Verdicts) /\ Len(verdictOf) = n
    <2>1. \A i \in 1 .. n : Verdict(s, hist[i].objs) \in Verdicts
      BY VerdictType DEF TypeInv, TypeOK
    <2> QED BY <1>1, <2>1 DEF verdictOf
  <1>5. Len(hist') = n + 1 /\ hist'[n + 1] = new /\ \A i \in 1 .. n : hist'[i] = hist[i]
    BY <1>1, <1>2
  <1>6. verdictOf' = [i \in 1 .. n + 1 |-> Verdict(s, hist'[i].objs)]
    BY <1>2, <1>5 DEF verdictOf
  <1>7. \A i \in 1 .. n : verdictOf'[i] = verdictOf[i]
    BY <1>1, <1>5, <1>6 DEF verdictOf
  <1>8. verdictOf'[n + 1] = v
    BY <1>1, <1>5, <1>6
  <1> HIDE DEF n, v
  <1>9. verdictOf' = Append(verdictOf, v)
    <2> DEFINE a == Append(verdictOf, v)
    <2>1. /\ a \in Seq(Verdicts) /\ Len(a) = n + 1 /\ a[n + 1] = v
          /\ \A i \in 1 .. n : a[i] = verdictOf[i]
      BY <1>3, <1>4, AppendProperties
    <2> HIDE DEF a
    <2>2. a = [i \in 1 .. n + 1 |-> a[i]]
      BY <1>1, <2>1
    <2>3. verdictOf' = [i \in 1 .. n + 1 |-> verdictOf'[i]]
      BY <1>6
    <2>4. \A i \in 1 .. n + 1 : verdictOf'[i] = a[i]
      BY <1>1, <1>7, <1>8, <2>1
    <2>5. verdictOf' = a
      BY <2>2, <2>3, <2>4
    <2> QED BY <2>5 DEF a
  <1>10. heldVerdict' = heldVerdict
    BY <1>2 DEF heldVerdict, HasDeadline
  <1> QED BY <1>2, <1>3, <1>9, <1>10
          DEF Contract!SelectionChanges, Contract!wait, Contract!Verdicts, Verdicts

LEMMA EnvSimulates ==
    ASSUME TypeInv, EnvStep \/ Tick
    PROVE  Contract!Next \/ UNCHANGED <<Contract!world, Contract!wait>>
  <1>1. UNCHANGED <<s, pos, tracker, result>> /\ heldVerdict' = heldVerdict
    BY EnvFrame DEF runnerVars, heldVerdict, HasDeadline
  <1>2. ASSUME NEW k \in Keys, NEW o \in Objects \cup {NoObject}, ClusterChange(k, o)
        PROVE  Contract!Next
    <2> DEFINE v == [objs |-> [hist[Len(hist)].objs EXCEPT ![k] = o], key |-> k]
    <2>1. v \in Version /\ hist' = Append(hist, v) /\ UNCHANGED <<now, ctxDone>>
      BY <1>2, ClusterChangeVersion DEF TypeInv, ClusterChange
    <2> HIDE DEF v
    <2> QED BY <1>1, <2>1, ChangeSimulates DEF Contract!Next
  <1>3. CASE Cancel
    <2>1. verdictOf' = verdictOf /\ ctxDone' = TRUE /\ now' = now
      BY <1>1, <1>3 DEF Cancel, verdictOf
    <2>2. Contract!CallerLeaves
      BY <1>1, <2>1 DEF Contract!CallerLeaves, Contract!wait
    <2> QED BY <2>2 DEF Contract!Next
  <1>4. CASE Tick
    <2>1. verdictOf' = verdictOf /\ ctxDone' = ctxDone /\ now' = now + 1
      BY <1>1, <1>4 DEF Tick, verdictOf
    <2>2. Contract!TimePasses
      BY <1>1, <2>1 DEF Contract!TimePasses, Contract!wait
    <2> QED BY <2>2 DEF Contract!Next
  <1>5. CASE UNCHANGED <<now, ctxDone, hist>>
    BY <1>1, <1>5, Stutter
  <1>6. CASE FlipServed
    <2>1. UNCHANGED <<now, ctxDone>>
      BY <1>6 DEF FlipServed
    <2>2. ASSUME NEW objs \in Snapshots, hist' = Append(hist, [objs |-> objs, key |-> NoKey])
          PROVE  Contract!Next
      <3>1. [objs |-> objs, key |-> NoKey] \in Version
        BY DEF Version
      <3> QED BY <1>1, <2>1, <2>2, <3>1, ChangeSimulates DEF Contract!Next
    <2> QED BY <1>5, <1>6, <2>1, <2>2, FlipServedCases
  <1>7. \/ \E k \in Keys, o \in Objects \cup {NoObject} : ClusterChange(k, o)
        \/ FlipServed \/ Cancel \/ Tick \/ UNCHANGED <<now, ctxDone, hist>>
    BY DEF EnvStep, ServerAnswers, ServerFails, RequestExpires, RequestCancelled, Answer,
           EventArrives, env
  <1> QED BY <1>2, <1>3, <1>4, <1>5, <1>6, <1>7

LEMMA InitSimulates == Init => Contract!Init
  <1> SUFFICES ASSUME Init PROVE Contract!Init
    OBVIOUS
  <1>1. TypeOK /\ s.Settle \in Nat /\ s.Timeout \in Nat
    BY TypeInit, SpecType DEF TypeInv, TypeOK
  <1>2. Len(hist) = 1
    BY DEF Init
  <1>3. Verdict(s, hist[1].objs) \in Verdicts
    BY <1>1, VerdictType DEF TypeOK
  <1>4. verdictOf = <<Verdict(s, hist[1].objs)>>
    BY <1>2 DEF verdictOf
  <1>5. heldVerdict = [verdict |-> "pending", since |-> 0]
    BY DEF Init, NewTracker, heldVerdict, HasDeadline
  <1>6. [kind |-> result.kind, verdict |-> result.verdict] = [kind |-> "none", verdict |-> "pending"]
    BY DEF Init, NoResult
  <1> QED BY <1>1, <1>3, <1>4, <1>5, <1>6
          DEF Init, Contract!Init, Contract!Nothing, Contract!Unended, Contract!Verdicts, Verdicts

(* The runner implements the contract of a wait.                            *)
THEOREM RunnerImplementsContract == Spec => ImplementsContract
  <1>1. CoreInv /\ ReportInv /\ OpenInv /\ [Next]_vars
          => [Contract!Next]_<<Contract!world, Contract!wait>>
    <2> SUFFICES ASSUME CoreInv, ReportInv, OpenInv, [Next]_vars
                 PROVE  Contract!Next \/ UNCHANGED <<Contract!world, Contract!wait>>
      OBVIOUS
    <2>1. TypeInv /\ LastIsTracked
      BY DEF CoreInv, ReportInv
    <2>2. CASE UNCHANGED vars
      BY <2>2, Stutter DEF vars
    <2> QED BY <2>1, <2>2, RunnerSimulates, EnvSimulates DEF Next, Terminated
  <1> QED BY <1>1, InitSimulates, CoreInvariant, ReportInvariant, OpenInvariant, PTL
          DEF Spec, ImplementsContract, Contract!Spec
==============================================================================

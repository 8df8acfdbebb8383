------------------------------- MODULE Watcher -------------------------------
(***************************************************************************)
(* One wait: the runner of internal/watcher/runner.go against an API       *)
(* server.  The runner resolves the kind, lists the selected objects,      *)
(* watches them until the next resync, and feeds every snapshot to the     *)
(* evaluator and its verdict to the settle clock, until a verdict settles, *)
(* the timeout expires, an error is final or the caller cancels.           *)
(*                                                                         *)
(* The server side is external: it answers each request at some instant    *)
(* between the call and its return, keeps the history of the selection     *)
(* (its resource versions are the indices of hist), streams it in order to *)
(* an open watch, and may fail any request or close any watch.  Time is    *)
(* counted from the start of the wait, so the deadline is s.Timeout.       *)
(***************************************************************************)
EXTENDS Evaluate, SettleClock

CONSTANTS Keys,             \* the references the selection may hold
          NoKey,            \* in the place of a reference: none
          Objects,          \* what an object may look like
          Specs,            \* the configurations a wait may start with
          Namespaced,       \* the scope of the kind, per discovery
          MinBackoff, MinCycle, RequestTimeout,  \* the constants of runner.go
          Prompt,           \* TRUE: the runner computes in no time and its
                            \* timers fire on time; FALSE: it may be delayed
          Latency,          \* when Prompt: the longest an answer may take
          MaxChanges,       \* bound: versions of the selection after the first
          MaxFaults,        \* bound: errors, closed watches, flips of served
          Horizon           \* bound: the last instant of the model

ErrKinds == {"forbidden", "unauthorized", "gone", "other"}
Notes == {"none", "apiError", "notServed"}
Snapshots == [Keys -> Objects \cup {NoObject}]
NoObjects == [k \in Keys |-> NoObject]

(* A version of the selection, and the key whose change made it (NoKey: the *)
(* first version, and those made by the kind being served or not).          *)
Version == [objs : Snapshots, key : Keys \cup {NoKey}]

(* What Parse guarantees of a Spec it returns: RunsOnlyValidSpecs of        *)
(* ConditionAction.                                                         *)
ASSUME SpecsAssumption == \A sp \in Specs : RunnerRules(sp)

ASSUME ConstantsAssumption ==
    /\ NoObject \notin Objects /\ NoKey \notin Keys
    /\ Namespaced \in BOOLEAN /\ Prompt \in BOOLEAN
    /\ MinBackoff \in Nat \ {0} /\ MinCycle \in Nat \ {0} /\ RequestTimeout \in Nat \ {0}
    /\ Latency \in Nat /\ MaxChanges \in Nat /\ MaxFaults \in Nat /\ Horizon \in Nat

VARIABLES
    now, ctxDone,           \* the clock, and whether ctx is cancelled
    served, hist, faults,   \* the server: is the kind served, the selection's
                            \* history, the faults spent
    call,                   \* the request in flight and its answer
    watch, arrived,         \* the watch, and how much of hist it has delivered
    s, pc, timers, result,  \* the runner: its Spec, control point, local
                            \* times, and the Result it returned
    cache, pos,             \* run.cache, and the index of hist it reflects
    last, noteKind, tracker, progress,   \* the fields of run
    unauthRetried, backoff

env == <<now, ctxDone, served, hist, faults>>
retry == <<unauthRetried, backoff>>
seen == <<last, noteKind, tracker>>
vars == <<now, ctxDone, served, hist, faults, call, watch, arrived, s, pc, timers, result,
          cache, pos, last, noteKind, tracker, progress, unauthRetried, backoff>>

Requesting == {"resolve", "list", "watch"}
PCs == Requesting \cup {"loop", "wait", "select", "sleep", "sleeping", "done"}

NoCall == [st |-> "none", err |-> "none", served |-> FALSE, rv |-> 0, at |-> 0]
NoTimers == [cycleStart |-> 0, resyncAt |-> 0, until |-> 0, wake |-> 0]
NoResult == [kind |-> "none", verdict |-> "pending", warn |-> FALSE]

Calls == [st : {"none", "waiting", "ok", "failed"}, err : ErrKinds \cup {"none"},
          served : BOOLEAN, rv : Nat, at : Nat]
Timers == [cycleStart : Nat, resyncAt : Nat, until : Nat, wake : Nat]
Outcomes == [kind : {"none", "settled", "timeout", "fatal", "cancelled"},
             verdict : Verdicts, warn : BOOLEAN]
Progress == [emitted : BOOLEAN, lastKey : {<< >>} \cup (Verdicts \X Notes), lastEmit : Nat]

(* The types, in three groups: what the environment owns, what the runner   *)
(* controls, what it has seen.                                              *)
EnvType ==
    /\ now \in Nat /\ ctxDone \in BOOLEAN /\ served \in BOOLEAN /\ faults \in Nat
    /\ hist \in Seq(Version) /\ Len(hist) >= 1

ControlType ==
    /\ call \in Calls /\ call.rv <= Len(hist)
    /\ watch \in {"none", "open"}
    /\ s \in Specs /\ pc \in PCs /\ timers \in Timers /\ result \in Outcomes

SeenType ==
    /\ pos \in Nat /\ arrived \in Nat /\ pos <= arrived /\ arrived <= Len(hist)
    /\ cache \in Snapshots
    /\ last \in Verdicts /\ noteKind \in Notes /\ tracker \in Tracker /\ progress \in Progress
    /\ unauthRetried \in BOOLEAN /\ backoff \in Nat

(* Every variable keeps its type, and the positions stay within the history *)
(* the server has and the watch has delivered.                              *)
TypeOK == EnvType /\ ControlType /\ SeenType

Init ==
    /\ now = 0 /\ ctxDone = FALSE /\ faults = 0
    /\ served \in BOOLEAN
    /\ \E objs \in Snapshots :
          /\ ~served => objs = NoObjects
          /\ hist = <<[objs |-> objs, key |-> NoKey]>>
    /\ call = NoCall /\ watch = "none" /\ arrived = 0
    /\ s \in Specs /\ pc = "loop" /\ timers = NoTimers /\ result = NoResult
    /\ cache = NoObjects /\ pos = 0
    /\ last = "pending" /\ noteKind = "none" /\ tracker = NewTracker
    /\ progress = [emitted |-> FALSE, lastKey |-> << >>, lastEmit |-> 0]
    /\ unauthRetried = FALSE /\ backoff = 0

------------------------------------------------------------------------------
(* Progress, the observation of a verdict, and the ways a wait ends.        *)

emit(v, n) == [emitted |-> TRUE, lastKey |-> <<v, n>>, lastEmit |-> now]

emitFinal(p, v, n) ==
    IF p.emitted /\ p.lastKey = <<v, n>> /\ p.lastEmit = now THEN p ELSE emit(v, n)

(* Mutant: a heartbeat that is due exactly now has to wait. *)
heartbeatStrict ==
    IF progress.emitted /\ now - progress.lastEmit > s.ProgressInterval
    THEN emit(last, noteKind) ELSE progress

heartbeat ==
    IF progress.emitted /\ now - progress.lastEmit >= s.ProgressInterval
    THEN emit(last, noteKind) ELSE progress

nextHeartbeat(p) == IF p.emitted THEN p.lastEmit + s.ProgressInterval ELSE s.Timeout

(* The wait ends: whoever returns also stops the watch it holds. *)
End(kind, v, warn) ==
    /\ pc' = "done"
    /\ result' = [kind |-> kind, verdict |-> v, warn |-> warn]
    /\ watch' = "none" /\ call' = NoCall /\ timers' = NoTimers
    /\ UNCHANGED s

(* Mutant: the next cycle begins with the watch still open. *)
LoopKeepsWatch ==
    /\ pc' = "loop"
    /\ call' = NoCall /\ timers' = NoTimers
    /\ UNCHANGED <<s, result, watch>>

(* Back to the top of loop: the watch, if any, has been stopped. *)
Loop ==
    /\ pc' = "loop"
    /\ watch' = "none" /\ call' = NoCall /\ timers' = NoTimers
    /\ UNCHANGED <<s, result>>

(* Mutant: a timeout ends without its closing message. *)
timeoutSilent ==
    /\ End("timeout", "failure", FALSE)
    /\ UNCHANGED <<env, arrived, cache, pos, seen, progress, retry>>

timeout ==
    /\ progress' = emitFinal(progress, last, noteKind)
    /\ End("timeout", "failure", FALSE)
    /\ UNCHANGED <<env, arrived, cache, pos, seen, retry>>

fatal ==
    /\ last' = "failure" /\ noteKind' = "none"
    /\ progress' = emitFinal(progress, "failure", "none")
    /\ End("fatal", "failure", FALSE)
    /\ UNCHANGED <<now, ctxDone, served, hist, arrived, cache, pos, tracker, retry>>

(* No closing progress here: the caller is gone. *)
cancelled ==
    /\ End("cancelled", "failure", FALSE)
    /\ UNCHANGED <<env, arrived, cache, pos, seen, progress, retry>>

settles(v) == Settled(Observe(tracker, now, v), s.Settle, now)

(* Mutant: a message goes out when the verdict changes, not when the note   *)
(* does.                                                                    *)
observeVerdictOnly(p, v, n) ==
    LET q == IF ~tracker.started \/ v # tracker.state THEN emit(v, n) ELSE p
    IN /\ last' = v /\ noteKind' = n
       /\ tracker' = Observe(tracker, now, v)
       /\ progress' = IF settles(v) THEN emitFinal(q, v, n) ELSE q

(* observe's effect on the fields of run; p is the progress it starts from. *)
observe(p, v, n) ==
    LET q == IF <<v, n>> # p.lastKey THEN emit(v, n) ELSE p
    IN /\ last' = v /\ noteKind' = n
       /\ tracker' = Observe(tracker, now, v)
       /\ progress' = IF settles(v) THEN emitFinal(q, v, n) ELSE q

(* ... and the Result it returns when the verdict is settled. *)
EndSettled(v) == End("settled", v, v = "success" /\ noteKind' = "notServed")

------------------------------------------------------------------------------
(* apiError, for every error of a request and of a watch.  A 401 that is    *)
(* retried leaves the verdict alone; any other retried error counts as a    *)
(* pending observation, which never settles.                                *)

nextBackoff ==
    LET b == IF backoff = 0 THEN MinBackoff ELSE backoff * 2
    IN IF b > s.PollInterval THEN s.PollInterval ELSE b

(* sleep(d) begins; a watch of waitPhase stays open meanwhile. *)
Sleep(d) ==
    /\ pc' = "sleep"
    /\ timers' = [timers EXCEPT !.until = now + d, !.wake = 0]
    /\ call' = NoCall
    /\ UNCHANGED <<s, result, watch>>

(* Mutants: a retried error is not observed; a 401 is retried without being *)
(* remembered.                                                              *)
apiErrorUnobserved(e) ==
    \/ /\ e = "forbidden" \/ (e = "unauthorized" /\ unauthRetried)
       /\ fatal
    \/ /\ e = "unauthorized" /\ ~unauthRetried
       /\ unauthRetried' = TRUE
       /\ Loop
       /\ UNCHANGED <<now, ctxDone, served, hist, arrived, cache, pos, seen, progress, backoff>>
    \/ /\ e \in {"gone", "other"}
       /\ backoff' = nextBackoff
       /\ Sleep(nextBackoff)
       /\ UNCHANGED <<now, ctxDone, served, hist, arrived, cache, pos, seen, progress,
                      unauthRetried>>

apiErrorForgetsRetry(e) ==
    \/ /\ e = "forbidden"
       /\ fatal
    \/ /\ e = "unauthorized"
       /\ Loop
       /\ UNCHANGED <<now, ctxDone, served, hist, arrived, cache, pos, seen, progress, retry>>
    \/ /\ e \in {"gone", "other"}
       /\ observe(progress, "pending", "apiError")
       /\ backoff' = nextBackoff
       /\ Sleep(nextBackoff)
       /\ UNCHANGED <<now, ctxDone, served, hist, arrived, cache, pos, unauthRetried>>

apiError(e) ==
    \/ /\ e = "forbidden" \/ (e = "unauthorized" /\ unauthRetried)
       /\ fatal
    \/ /\ e = "unauthorized" /\ ~unauthRetried
       /\ unauthRetried' = TRUE
       /\ Loop
       /\ UNCHANGED <<now, ctxDone, served, hist, arrived, cache, pos, seen, progress, backoff>>
    \/ /\ e \in {"gone", "other"}
       /\ observe(progress, "pending", "apiError")
       /\ backoff' = nextBackoff
       /\ Sleep(nextBackoff)
       /\ UNCHANGED <<now, ctxDone, served, hist, arrived, cache, pos, unauthRetried>>

------------------------------------------------------------------------------
(* loop: one cycle of resolve, list and watch. *)

Ask(p) ==
    /\ pc' = p
    /\ call' = [NoCall EXCEPT !.st = "waiting", !.at = now]

LoopCancelled == pc = "loop" /\ ctxDone /\ cancelled

LoopTimeout == pc = "loop" /\ ~ctxDone /\ now >= s.Timeout /\ timeout

LoopStart ==
    /\ pc = "loop" /\ ~ctxDone /\ now < s.Timeout
    /\ Ask("resolve")
    /\ timers' = [NoTimers EXCEPT !.cycleStart = now]
    /\ UNCHANGED <<env, watch, arrived, s, result, cache, pos, seen, progress, retry>>

(* A cluster-scoped kind takes no namespace; one object of a namespaced     *)
(* kind needs one.                                                          *)
scopeError ==
    \/ ~Namespaced /\ s.Namespace # ""
    \/ Namespaced /\ Single(s) /\ s.Namespace = ""

ResolveReturns ==
    /\ pc = "resolve" /\ call.st = "ok" /\ call.served /\ ~scopeError
    /\ Ask("list")
    /\ UNCHANGED <<env, watch, arrived, s, timers, result, cache, pos, seen, progress, retry>>

ResolveWrongScope ==
    /\ pc = "resolve" /\ call.st = "ok" /\ call.served /\ scopeError
    /\ fatal
    /\ UNCHANGED faults

(* waitPhase begins; w is the watch it reads, or "none" when polling. *)
EnterWait(w) ==
    /\ pc' = "wait"
    /\ timers' = [timers EXCEPT !.resyncAt = now + s.PollInterval]
    /\ watch' = w /\ call' = NoCall
    /\ UNCHANGED <<s, result>>

(* Mutants: the new watch goes on counting where the old one stopped; the   *)
(* "not served" note outlives the establishment of the kind.                *)
RefreshKeepsArrived(objs, n) ==
    /\ cache' = objs /\ pos' = call.rv
    /\ unauthRetried' = FALSE /\ backoff' = 0
    /\ observe(progress, Verdict(s, objs), n)
    /\ UNCHANGED <<env, arrived>>

RefreshKeepsNote(objs, n) ==
    /\ cache' = objs /\ pos' = call.rv /\ arrived' = call.rv
    /\ unauthRetried' = FALSE /\ backoff' = 0
    /\ observe(progress, Verdict(s, objs), IF noteKind = "notServed" THEN noteKind ELSE n)
    /\ UNCHANGED env

(* A fresh snapshot replaces the cache, clears the retry state and is       *)
(* observed.                                                                *)
Refresh(objs, n) ==
    /\ cache' = objs /\ pos' = call.rv /\ arrived' = call.rv
    /\ unauthRetried' = FALSE /\ backoff' = 0
    /\ observe(progress, Verdict(s, objs), n)
    /\ UNCHANGED env

(* A kind the server does not serve counts as no objects, and is polled. *)
ResolveUnserved ==
    /\ pc = "resolve" /\ call.st = "ok" /\ ~call.served
    /\ Refresh(NoObjects, "notServed")
    /\ IF settles(Verdict(s, NoObjects)) THEN EndSettled(Verdict(s, NoObjects))
       ELSE EnterWait("none")

ListReturns ==
    LET objs == hist[call.rv].objs
    IN /\ pc = "list" /\ call.st = "ok"
       /\ Refresh(objs, "none")
       /\ IF settles(Verdict(s, objs)) THEN EndSettled(Verdict(s, objs))
          ELSE IF s.Watch THEN Ask("watch") /\ UNCHANGED <<s, timers, result, watch>>
          ELSE EnterWait("none")

(* Mutant: the watch starts at whatever version the server has by then. *)
WatchReturnsAtLatest ==
    /\ pc = "watch" /\ call.st = "ok"
    /\ EnterWait("open")
    /\ pos' = call.rv /\ arrived' = call.rv
    /\ UNCHANGED <<env, cache, seen, progress, retry>>

(* The watch starts at the list's resource version. *)
WatchReturns ==
    /\ pc = "watch" /\ call.st = "ok"
    /\ EnterWait("open")
    /\ UNCHANGED <<env, arrived, cache, pos, seen, progress, retry>>

WatchGone ==
    /\ pc = "watch" /\ call.st = "failed" /\ call.err = "gone"
    /\ Loop
    /\ UNCHANGED <<env, arrived, cache, pos, seen, progress, retry>>

CallFails ==
    /\ pc \in Requesting /\ call.st = "failed"
    /\ pc = "watch" => call.err # "gone"
    /\ apiError(call.err)
    /\ UNCHANGED faults

------------------------------------------------------------------------------
(* waitPhase: one turn of its loop up to the select, then the select.       *)

earliest(a, b) == IF b < a THEN b ELSE a

settleDue == HasDeadline(tracker) /\ now >= Deadline(tracker, s.Settle)

WaitTimeout == pc = "wait" /\ now >= s.Timeout /\ timeout

(* Polling: settle on a fresh observation. *)
WaitSettleByList ==
    /\ pc = "wait" /\ now < s.Timeout /\ settleDue /\ watch = "none"
    /\ progress' = heartbeat
    /\ Loop
    /\ UNCHANGED <<env, arrived, cache, pos, seen, retry>>

(* Watching: the last verdict is observed again, and now settles.  (The     *)
(* code goes on when it does not; last is always the tracker's verdict,     *)
(* invariant LastIsTracked, so it always does.)                             *)
WaitSettleByWatch ==
    /\ pc = "wait" /\ now < s.Timeout /\ settleDue /\ watch = "open"
    /\ settles(last)
    /\ observe(heartbeat, last, noteKind)
    /\ EndSettled(last)
    /\ UNCHANGED <<env, arrived, cache, pos, retry>>

WaitResync ==
    /\ pc = "wait" /\ now < s.Timeout /\ ~settleDue /\ now >= timers.resyncAt
    /\ progress' = heartbeat
    /\ Loop
    /\ UNCHANGED <<env, arrived, cache, pos, seen, retry>>

(* Mutants: the timer ignores the settle deadline; it ignores heartbeats. *)
waitWakeNoSettle(p) == earliest(earliest(timers.resyncAt, s.Timeout), nextHeartbeat(p))

waitWakeNoHeartbeat(p) ==
    LET next == earliest(timers.resyncAt, s.Timeout)
    IN IF HasDeadline(tracker) /\ Deadline(tracker, s.Settle) > now
       THEN earliest(next, Deadline(tracker, s.Settle)) ELSE next

(* The timer of the select: the next resync, deadline or heartbeat, or the  *)
(* moment the verdict settles.                                              *)
waitWake(p) ==
    LET next == earliest(earliest(timers.resyncAt, s.Timeout), nextHeartbeat(p))
    IN IF HasDeadline(tracker) /\ Deadline(tracker, s.Settle) > now
       THEN earliest(next, Deadline(tracker, s.Settle)) ELSE next

WaitBlock ==
    /\ pc = "wait" /\ now < s.Timeout /\ ~settleDue /\ now < timers.resyncAt
    /\ progress' = heartbeat
    /\ pc' = "select"
    /\ timers' = [timers EXCEPT !.wake = waitWake(heartbeat)]
    /\ UNCHANGED <<env, call, watch, arrived, s, result, cache, pos, seen, retry>>

SelectCancelled == pc = "select" /\ ctxDone /\ cancelled

(* Back to the top of waitPhase's loop. *)
Turn ==
    /\ pc' = "wait"
    /\ timers' = [timers EXCEPT !.wake = 0]
    /\ UNCHANGED <<call, watch, s, result>>

SelectTimer ==
    /\ pc = "select" /\ now >= timers.wake
    /\ Turn
    /\ UNCHANGED <<env, arrived, cache, pos, seen, progress, retry>>

(* Mutant: a deleted object stays in the cache. *)
appliedKeepsDeleted ==
    IF hist[pos + 1].objs[hist[pos + 1].key] = NoObject THEN cache
    ELSE [cache EXCEPT ![hist[pos + 1].key] = hist[pos + 1].objs[hist[pos + 1].key]]

(* An added, modified or deleted object: the event names its key, and the   *)
(* object it carries (NoObject for a deletion) replaces the cached one.     *)
applied == [cache EXCEPT ![hist[pos + 1].key] = hist[pos + 1].objs[hist[pos + 1].key]]

SelectEvent ==
    /\ pc = "select" /\ watch = "open" /\ pos < arrived
    /\ cache' = applied /\ pos' = pos + 1
    /\ observe(progress, Verdict(s, applied), noteKind)
    /\ IF settles(Verdict(s, applied)) THEN EndSettled(Verdict(s, applied)) ELSE Turn
    /\ UNCHANGED <<env, arrived, retry>>

(* The events after the last change of the selection: a bookmark, the end   *)
(* of the stream, an expired resource version, another error.               *)
Drained == pc = "select" /\ watch = "open" /\ pos = arrived

(* A cancelled ctx ends the stream: no bookmark follows. *)
SelectBookmark ==
    /\ Drained /\ ~ctxDone
    /\ Turn
    /\ UNCHANGED <<env, arrived, cache, pos, seen, progress, retry>>

(* Mutant: a closed watch is re-listed at once. *)
SelectClosedAtOnce ==
    /\ Drained
    /\ ctxDone \/ faults < MaxFaults
    /\ faults' = IF ctxDone THEN faults ELSE faults + 1
    /\ Loop
    /\ UNCHANGED <<now, ctxDone, served, hist, arrived, cache, pos, seen, progress, retry>>

(* Cancelling ctx closes the stream as well. *)
SelectClosed ==
    /\ Drained
    /\ ctxDone \/ faults < MaxFaults
    /\ faults' = IF ctxDone THEN faults ELSE faults + 1
    /\ IF now - timers.cycleStart < MinCycle
       THEN Sleep(MinCycle - (now - timers.cycleStart))
       ELSE Loop
    /\ UNCHANGED <<now, ctxDone, served, hist, arrived, cache, pos, seen, progress, retry>>

(* Mutant: an expired watch is read on, as after a bookmark. *)
SelectGoneReadOn ==
    /\ Drained /\ faults < MaxFaults
    /\ faults' = faults + 1
    /\ Turn
    /\ UNCHANGED <<now, ctxDone, served, hist, arrived, cache, pos, seen, progress, retry>>

SelectGone ==
    /\ Drained /\ faults < MaxFaults
    /\ faults' = faults + 1
    /\ Loop
    /\ UNCHANGED <<now, ctxDone, served, hist, arrived, cache, pos, seen, progress, retry>>

SelectError(e) ==
    /\ Drained /\ faults < MaxFaults
    /\ faults' = faults + 1
    /\ apiError(e)

------------------------------------------------------------------------------
(* sleep: one turn of its loop, and its select.  It always returns to the   *)
(* top of loop, by way of apiError or of a closed watch.                    *)

SleepTimeout == pc = "sleep" /\ now >= s.Timeout /\ timeout

SleepOver ==
    /\ pc = "sleep" /\ now < s.Timeout /\ now >= timers.until
    /\ progress' = heartbeat
    /\ Loop
    /\ UNCHANGED <<env, arrived, cache, pos, seen, retry>>

SleepBlock ==
    /\ pc = "sleep" /\ now < s.Timeout /\ now < timers.until
    /\ progress' = heartbeat
    /\ pc' = "sleeping"
    /\ timers' = [timers EXCEPT !.wake =
                    earliest(earliest(timers.until, s.Timeout), nextHeartbeat(heartbeat))]
    /\ UNCHANGED <<env, call, watch, arrived, s, result, cache, pos, seen, retry>>

SleepingCancelled == pc = "sleeping" /\ ctxDone /\ cancelled

SleepingTimer ==
    /\ pc = "sleeping" /\ now >= timers.wake
    /\ pc' = "sleep"
    /\ timers' = [timers EXCEPT !.wake = 0]
    /\ UNCHANGED <<env, call, watch, arrived, s, result, cache, pos, seen, progress, retry>>

------------------------------------------------------------------------------
(* The environment: the server's answers, the cluster, the caller, time.    *)

runnerVars == <<s, pc, timers, result, cache, pos, last, noteKind, tracker, progress,
                unauthRetried, backoff>>

Answer(a) ==
    /\ pc \in Requesting /\ call.st = "waiting"
    /\ call' = a
    /\ UNCHANGED <<now, ctxDone, served, hist, watch, arrived, runnerVars>>

(* Discovery says whether the kind is served; a list or a watch of a kind   *)
(* that no longer is answers 404.                                           *)
ServerAnswers ==
    /\ Answer(IF pc = "resolve" \/ served
              THEN [call EXCEPT !.st = "ok", !.served = served, !.rv = Len(hist)]
              ELSE [call EXCEPT !.st = "failed", !.err = "other"])
    /\ UNCHANGED faults

ServerFails(e) ==
    /\ faults < MaxFaults
    /\ e = "gone" => pc = "watch"
    /\ Answer([call EXCEPT !.st = "failed", !.err = e])
    /\ faults' = faults + 1

(* Mutant: only discovery gets a context of its own. *)
RequestExpiresResolveOnly ==
    /\ pc = "resolve" /\ now >= call.at + RequestTimeout
    /\ Answer([call EXCEPT !.st = "failed", !.err = "other"])
    /\ UNCHANGED faults

(* The context of one discovery or list request ends after requestTimeout.  *)
(* Watch is called with the wait's own ctx, which has no timeout.           *)
RequestExpires ==
    /\ pc \in {"resolve", "list"} /\ now >= call.at + RequestTimeout
    /\ Answer([call EXCEPT !.st = "failed", !.err = "other"])
    /\ UNCHANGED faults

RequestCancelled ==
    /\ ctxDone
    /\ Answer([call EXCEPT !.st = "failed", !.err = "other"])
    /\ UNCHANGED faults

ClusterChange(k, o) ==
    /\ pc # "done" /\ served /\ Len(hist) <= MaxChanges
    /\ hist[Len(hist)].objs[k] # o
    /\ hist' = Append(hist, [objs |-> [hist[Len(hist)].objs EXCEPT ![k] = o], key |-> k])
    /\ UNCHANGED <<now, ctxDone, served, faults, call, watch, arrived, runnerVars>>

(* A version of the kind is served no longer, be it that its CRD is removed *)
(* or that its objects remain under another version: there is nothing to be *)
(* seen.  Or it is served from now on, with whatever objects there are.  No *)
(* watch is told.                                                           *)
FlipServed ==
    /\ pc # "done" /\ faults < MaxFaults
    /\ served' = ~served /\ faults' = faults + 1
    /\ \E objs \in IF served THEN {NoObjects} ELSE Snapshots :
          \/ objs = hist[Len(hist)].objs /\ hist' = hist
          \/ /\ objs # hist[Len(hist)].objs /\ Len(hist) <= MaxChanges
             /\ hist' = Append(hist, [objs |-> objs, key |-> NoKey])
    /\ UNCHANGED <<now, ctxDone, call, watch, arrived, runnerVars>>

(* A stream goes no further than the objects of a kind that is served.      *)
EventArrives ==
    /\ pc # "done" /\ watch = "open" /\ arrived < Len(hist)
    /\ hist[arrived + 1].key # NoKey
    /\ arrived' = arrived + 1
    /\ UNCHANGED <<env, call, watch, runnerVars>>

Cancel ==
    /\ pc # "done" /\ ~ctxDone
    /\ ctxDone' = TRUE
    /\ UNCHANGED <<now, served, hist, faults, call, watch, arrived, runnerVars>>

(* The runner has nothing to do at this instant. *)
Blocked ==
    \/ /\ pc \in Requesting /\ call.st = "waiting" /\ ~ctxDone
       /\ now < call.at + Latency
       /\ pc # "watch" => now < call.at + RequestTimeout
    \/ /\ pc \in {"select", "sleeping"} /\ now < timers.wake /\ ~ctxDone
       /\ pc = "select" => pos = arrived

Tick ==
    /\ pc # "done" /\ now < Horizon
    /\ Prompt => Blocked
    /\ now' = now + 1
    /\ UNCHANGED <<ctxDone, served, hist, faults, call, watch, arrived, runnerVars>>

Terminated == pc = "done" /\ UNCHANGED vars

RunnerStep ==
    \/ LoopCancelled \/ LoopTimeout \/ LoopStart
    \/ ResolveReturns \/ ResolveWrongScope \/ ResolveUnserved \/ ListReturns
    \/ WatchReturns \/ WatchGone \/ CallFails
    \/ WaitTimeout \/ WaitSettleByList \/ WaitSettleByWatch \/ WaitResync \/ WaitBlock
    \/ SelectCancelled \/ SelectTimer \/ SelectEvent \/ SelectBookmark \/ SelectClosed
    \/ SelectGone \/ \E e \in ErrKinds \ {"gone"} : SelectError(e)
    \/ SleepTimeout \/ SleepOver \/ SleepBlock \/ SleepingCancelled \/ SleepingTimer

EnvStep ==
    \/ ServerAnswers \/ \E e \in ErrKinds : ServerFails(e)
    \/ RequestExpires \/ RequestCancelled
    \/ \E k \in Keys, o \in Objects \cup {NoObject} : ClusterChange(k, o)
    \/ FlipServed \/ EventArrives \/ Cancel

Next == RunnerStep \/ EnvStep \/ Tick \/ Terminated

Spec == Init /\ [][Next]_vars

------------------------------------------------------------------------------
(* What a wait promises of its states and steps.                            *)

(* Every snapshot the runner judges is one the server really had: the cache *)
(* is the selection at the position reached, through list, watch from the   *)
(* list's resource version, added, modified and deleted events, re-lists    *)
(* and an unserved kind.  No event is lost, repeated or applied to another  *)
(* cycle's cache.                                                           *)
CacheIsSnapshot == pos > 0 => cache = hist[pos].objs

(* A settled result is the verdict of a snapshot the server had, never one  *)
(* of an error, a retry or an older cache (observe, waitPhase).             *)
VerdictOfSnapshot ==
    result.kind = "settled" => pos > 0 /\ result.verdict = Verdict(s, hist[pos].objs)

(* Until it ends, the runner's last verdict is the tracker's, so a settle   *)
(* deadline that passes always settles; and what was last reported is what  *)
(* is (observe's stateKey comparison).                                      *)
LastIsTracked ==
    pc # "done" =>
        /\ tracker.started => last = tracker.state
        /\ tracker.started <=> progress.emitted
        /\ progress.emitted => progress.lastKey = <<last, noteKind>>

(* Unless it was cancelled, a wait ends with a progress message about its   *)
(* final state sent at that very instant (emitFinal).                       *)
FinalProgressReported ==
    result.kind \in {"settled", "timeout", "fatal"} =>
        progress = [emitted |-> TRUE, lastKey |-> <<last, noteKind>>, lastEmit |-> now]

(* A blocked runner wakes up for whatever comes first: the deadline, the    *)
(* resync or the end of a sleep, the next heartbeat, the moment the verdict *)
(* settles.                                                                 *)
WakeIsTimely ==
    /\ pc \in {"select", "sleeping"} =>
          /\ timers.wake <= s.Timeout
          /\ progress.emitted => timers.wake <= progress.lastEmit + s.ProgressInterval
    /\ pc = "sleeping" => timers.wake <= timers.until
    /\ pc = "select" =>
          /\ timers.wake <= timers.resyncAt
          /\ HasDeadline(tracker) => timers.wake <= Deadline(tracker, s.Settle)

(* A watch is held only by the wait phase that opened it (and a sleep in    *)
(* it): no stale event can reach the next cycle's cache, and none is left   *)
(* open by a wait that ended.                                               *)
WatchStopped == watch = "open" => pc \in {"wait", "select", "sleep", "sleeping"}

(* The runner never blocks on a timer that is already due: a heartbeat, a   *)
(* resync or a settle deadline at now cannot make it spin.                  *)
NoBusyWait ==
    [][pc' \in {"select", "sleeping"} /\ pc' # pc => timers'.wake > now]_vars

(* The shortest a cycle may be: minCycle, or the backoff after an error, or *)
(* poll_interval when that is shorter.                                      *)
pause == IF backoff > 0 THEN backoff ELSE earliest(MinCycle, s.PollInterval)

(* Only these end a cycle sooner: an expired resource version, the one      *)
(* retry of a 401, and a polled verdict whose window is over.               *)
Unpaced == WatchGone \/ SelectGone \/ unauthRetried' # unauthRetried \/ WaitSettleByList

(* A server is not hammered: whatever it closes, refuses or fails, in       *)
(* whichever phase, the next resolve and list come no sooner than a pause   *)
(* after the last ones (sleep, minCycle, backoff, which every list resets). *)
RelistsArePaced ==
    [][pc # "loop" /\ pc' = "loop" /\ ~Unpaced
       => now >= timers.cycleStart + pause]_vars

------------------------------------------------------------------------------
(* Fairness: the process is scheduled, time passes (no instant holds        *)
(* endlessly many steps, hence SF: a prompt runner's own steps disable      *)
(* Tick), and the context of a request that has expired ends it.  Nothing   *)
(* is assumed of the cluster, of faults, of events or of the caller.        *)
BaseFairness ==
    /\ WF_vars(RunnerStep)
    /\ SF_vars(Tick)
    /\ WF_vars(RequestExpires \/ RequestCancelled)

HungSpec == Spec /\ BaseFairness

(* ... and the server answers a Watch request: assumed, not enforced, since *)
(* the code gives Watch no timeout.                                         *)
FairSpec == HungSpec /\ WF_vars(pc = "watch" /\ ServerAnswers)

(* Nothing waits forever: every wait returns a Result, whatever the server  *)
(* refuses, closes or never answers (loop, waitPhase, sleep).               *)
Termination == <>(pc = "done")
==============================================================================

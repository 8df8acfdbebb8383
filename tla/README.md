# Verification of terraform-provider-kubewait

The provider has one action, `kubewait_condition`: it waits until the objects of a
selection in a Kubernetes cluster satisfy a condition, and fails when they fail it, when
the timeout expires or when the API server refuses access. This directory holds TLA+
modules that model the core of it, TLC configurations that check them on small instances,
and proofs, checked by TLAPS, that hold for every value of the constants.

## The system

| Part | Source | State | Operations |
|---|---|---|---|
| settle clock | `internal/wait/settle.go` | started, state, since | Observe, Settled, Deadline |
| evaluator | `internal/wait/{conditions,evaluate,cel}.go` | none (pure) | judge, evaluateSingle, evaluateSet |
| runner | `internal/watcher/runner.go` | cache, last outcome, note, tracker, last message, retry flag, backoff, timers | loop, waitPhase, apiError, sleep, observe and the ends |
| source, resolver | `internal/watcher/source.go` | none | Resolve, List, Watch |
| parser | `internal/wait/spec.go` | problems found so far | Parse |
| condition action | `internal/provider/condition_action.go`, `condition_model.go` | the connection | ValidateConfig, ModifyPlan, Invoke, sendProgress |
| provider, connection | `internal/provider/{provider,connection}.go` | resolved settings | Configure, RESTConfig |
| progress text | `internal/wait/progress.go` | none | ParseFieldPath, Lookup, FormatProgress |

Terraform configures the provider (attributes and environment, without the cluster),
validates and plans the action (Parse, without the cluster), then invokes it: Parse again,
RESTConfig, which only now reads kubeconfig files, and one `Runner.Run` on the goroutine of
the call. The runner asks the server through Resolver and Source, keeps the selection in its
cache, gives each snapshot to the evaluator and the verdict to the settle clock, and sends
messages through `Progress`, each by a goroutine of its own that the runner waits for. Apart
from that it shares nothing with another goroutine. What makes it hard is what
interleaves with it: the cluster changes, the CRD of the kind comes and goes, requests fail,
expire or are never answered, watches close or err at any event, the caller cancels, and
time passes between any two of its steps.

What makes each part correct:

- **Settle clock**: a verdict settles exactly when it was observed continuously for the
  window; any flip, a detour through pending included, restarts it.
- **Evaluator**: without CEL errors the verdict is what the configuration means; with them,
  nothing is decided that an error could have decided otherwise; a proven failure wins;
  single and set mode agree about one object.
- **Runner**: every snapshot judged is one the server had; a settled result is the verdict
  of such a snapshot; errors restart settling, and after an error or the end of a watch
  nothing settles unseen; it wakes up for everything it has to do and
  does not spin; it does not hammer the server; the warning of a vacuous success is right;
  the last message is about the end; it always ends. In short, it is an abstract wait that
  looks at versions, holds a verdict and ends (`WaitContract`).
- **Parser**: an error or a warning it reports while values are unknown stands when they
  become known;
  a Spec it returns keeps the rules the runner and the evaluator rely on; what it calls
  ignored is ignored.
- **Condition action**: no wait starts without a valid Spec; messages arrive in order and
  before the end; none blocks the wait once Terraform has stopped it or gone away.
- **Connection**: a wait observes the cluster it was told to, the pod's when it was told
  none, or none: never localhost, never one picked while an attribute was unknown; and it is
  not refused one it was told. (That the pod's comes only when nothing was configured is what
  the documents say and the code does not do: see Findings.)

## Modules

| Module | What it is |
|---|---|
| `SettleClock` | the tracker, as operators on a record |
| `SettleHistory` | one tracker fed arbitrary verdicts at arbitrary times, with the whole log kept as its specification |
| `SettleHistoryProofs` | its theorems |
| `Evaluate` | the evaluator, as operators |
| `EvaluateCheck`, `MCEvaluate` | the evaluator against an independent definition of what a configuration means; TLC instance |
| `EvaluateProofs` | its theorems |
| `Watcher` | one wait: the runner as a state machine, composed with the evaluator, the settle clock and the environment |
| `WatcherHistory` | `Watcher` with a history variable no step reads, for promises about the past |
| `MCWatcher`, `MCWatcherHistory` | TLC instances |
| `WaitContract` | the abstract wait: time, versions of a selection, a held verdict, an end |
| `WatcherContract`, `WatcherContractProofs` | the refinement mapping from `Watcher`, and the proof that it is one |
| `WatcherProofs` | lemmas on every action; type correctness, the cache and the settled verdict |
| `WatcherReportProofs` | timers, the watch, what is reported |
| `WatcherHistoryProofs` | the promises about the past, and the three about time |
| `SpecParse` | the parser, one operator per rule; extends `Evaluate` for the meaning of the Spec |
| `Connection` | the provider's settings and their resolution to a cluster; extends `SpecParse` for null, unknown and refused values |
| `ConditionAction` | the action's life: written, configured, validated, planned, invoked, while values become known and kubeconfig files appear |
| `MCConditionAction` | TLC instance |
| `ConditionActionProofs` | its theorems: the parser, the stages, the cluster of a wait |
| `ProgressStream`, `ProgressStreamProofs` | `sendProgress`, its helper goroutines, the framework's stream and Terraform; its theorems |

Operators named after a mistake (`SettledStrictly`, `LoopKeepsWatch`, ...) are mutants: they
are used by nothing, and stand before the definition they would replace. Each property is
broken by at least one of them.

### How `Watcher` corresponds to the runner

The fields of `run` keep their names: `cache`, `last` (its verdict), `noteKind`, `tracker`,
`unauthRetried`, `backoff`; `emitted`, `lastKey` and `lastEmit` are the record `progress`, the
local times of loop, waitPhase and sleep the record `timers`. `pc` is the place the goroutine
is at:

    loop       the top of loop            wait      the top of waitPhase's loop
    resolve    in Resolver.Resolve        select    in its select
    list       in Source.List             sleep     the top of sleep's loop
    watch      in Source.Watch            sleeping  in its select
    done       Run has returned

One action goes from one such place to the next and does everything the code does in
between: `ListReturns` empties and fills the cache, clears the note and the retry state,
evaluates, feeds the tracker, sends the message and either ends, asks for a watch or enters
waitPhase. A select is one action per case, so any ready case may be taken.

Abstractions:

- A snapshot maps keys (namespace and name) to objects; `hist` is the list of snapshots the
  server went through, and a resource version is an index into it. An event carries the
  object and its key, so the model does not get to see the server's snapshot in it.
- Within one action the clock is read once, where the code may read it several times in a
  row. Time passes between any two actions unless `Prompt` is set, which covers a delay
  there except for one that separates two readings within the same handler.
- `Prompt = FALSE`: the runner may be delayed anywhere (scheduling, a blocked `Progress`),
  so timers may fire late. `Prompt = TRUE`: computing takes no time, timers fire on time and
  an answer takes at most `Latency`; without this no bound on lateness can be stated.
- Error kinds are the ones apiError tells apart: 403, 401, 410 (only from a Watch or its
  events, a list without a resource version cannot expire), and any other.
- Message texts, reasons and counts are left out.

External, modelled from how the runner uses it: the server answers a request with its state
at some instant between call and return, streams the changes after the list's resource
version in order, may fail any request, close any watch or send an error event, and serves
the kind or not. A kind that stops being served (`FlipServed`) takes its objects along: the
selection's next version is empty, with no events for it, and a stream goes no further; one
that is served again may have any objects. The key of such a version is `NoKey`, since no
one object's change made it. The other way for a version to have no objects left is through
events, one key at a time.

### How `SpecParse` and `ConditionAction` correspond to the code

`raw` is the configuration as Terraform delivers it: each attribute is `Null`, `Unknown` or
a value, items of lists and their fields too. `Bad` stands for every value the attribute's
own parser refuses (selectors, CEL, numbers, durations, field paths, api_version, absent),
so the model keeps which rule fires when and leaves out what a text looks like. Each rule
of `Parse` is the set of errors it adds; `errors`, `warnings` and `parsed` are the three
results of parseConfig. A null condition in a list cannot be converted, and parseConfig then
returns before Parse: the model keeps that.

`Configure`, `ValidateConfig`, `ModifyPlan` and `Invoke` are one action each. External are the
author (`Edit`, before `Submit`) and the engine: it may skip or repeat stages ("an engine may
invoke without ValidateActionConfig or PlanAction ever having run") and, between them, fill
in unknown values (`Learn`, `LearnProvider`). `Invoke` has one disjunct for each of its
returns, in their order (`RefuseInvalid`, `RefuseUnknown`, `RefuseUnconfigured`,
`RefuseCluster`, `RefuseClient` for the two clients), with the diagnostic of each, and `Wait`,
where the runner, which is module `Watcher`, returns any verdict. No property speaks of
whether a return without a wait has a diagnostic: that is in each disjunct as it is in each
`if` of the code, and nothing follows from it. The modules meet in the
Spec: what the runner takes for granted of one is `RunnerRules`, what the evaluator does is
`EvaluatorRules` (both in `Evaluate`). `Watcher` assumes the first of its configurations (`SpecsAssumption`),
`EvaluateCheck` the second (`CasesAssumption`), and both are conjuncts of `ValidSpec`, which
`OnlyValidSpecsRun` proves of every Spec that is run.

### How `Connection` corresponds to the code

`provider`, `env`, `files` and `pod` are what the code reads: the attributes, the `KUBE_*`
variables, the kubeconfig files and whether the pod's credentials exist. `Settings` is the
provider's Configure: nil (`Null`) unless every attribute is known and convertible.
`Configure` hands the result to the action; it may happen again with more known.
`RESTConfig` is evaluated in `Invoke`, on the files of that moment. Its last step is
client-go's `clientcmd`, which is outside the repository and modelled from how RESTConfig
uses it (`clientConfig`): merging of files, the choice of context, cluster and user, the
overrides, and the fall to the pod's credentials when what is left is empty. A kubeconfig
is reduced to contexts, servers and tokens; certificates, proxy and exec count only where
they decide whether a configuration is valid, empty, or https.

What the model shows and a reader of the comment on RESTConfig ("explicit attributes over
both") might not expect: `proxy_url` goes into clientcmd's defaults, so a kubeconfig's wins
over it; `insecure = false` cannot undo a kubeconfig's true; credentials other than a token,
without a host, are dropped in a pod; `KUBE_HOST` wins over an explicit `config_path`.

When a wait may fall to the pod's cluster is two properties. `NeverGuessed` holds: with host
set it is host's cluster, otherwise exactly the server that the files give the selected
cluster (`selectedServer`), and the pod's only where they give none. That includes two
`config_paths` that both do not exist, and a context whose cluster no file defines, though
not one `config_path` that does not exist, which is an error. `InClusterOnlyUnconfigured` is
what the documents say, in-cluster credentials with nothing configured, and is refuted by
just those cases (finding 5).

Warnings are reported by `ValidateConfig` only. `WarningsStand` says that none is wrong in the
end; the other half, that none is missing, does not hold: with a value unknown at validation
and known at plan time, say `name` next to `max_matching`, the warning that `max_matching` is
ignored appears in ModifyPlan's parse for the first time and is dropped there, although its
comment says "Warnings were already reported by ValidateConfig" (condition_action.go:122).
That is read off `ModifyPlan`, which leaves `warned` as it is, and no run is spent on it.

### How `ProgressStream` corresponds to the code

A message is its number. `runner` is the goroutine of Invoke, `helper[i]` the goroutine that
`sendProgress` starts for message i, `SendReturns` its select. The stream loop of the plugin
framework and Terraform are external: the channel is unbuffered, the loop ends when Invoke
has returned or a push fails. Once the action is stopped, messages may be lost or overtake
each other, and a helper whose send was abandoned stays blocked forever when the loop has
ended: the model has these behaviours, and the properties do not exclude them.

## Runs

| Run | Distinct states | Shows |
|---|---|---|
| `settle_history` | 136,653 | `SettledIffHeld`, `OnlyTheLastVerdictHolds`, `TrackerIsLastRun` for up to five observations in six instants |
| `evaluate` | 268,800 | `ErrorsNeverDecide`, `DecidesWithoutErrors`, `ProvenFailureWins`, `SingleAgreesWithSet` for 168 configurations over all pairs of 39 objects |
| `watcher_safety` | 2.9 million | the twelve safety properties of a wait, the runner arbitrarily delayed |
| `watcher_timely` | 1.4 million | `NoMissedVerdict`, `SettlesOnTime`, `NeverSilent`, `RelistsArePaced` for a prompt runner |
| `watcher_live` | 271 thousand | `Termination`, `ImplementsContract` |
| `progress_stream` | 12,506 | `InOrder`, `CompleteStream`, `InvokeEnds` for up to MaxMessages messages |
| `condition_action` | 64,108 | `ErrorsStand`, `WarningsStand`, `RunsOnlyValidSpecs`, `IgnoredMeansIgnored`, `NeverGuessed`, `NoFalseRefusal`: see the bounds |
| `late_success`, `hung_watch`, `watch_unauthorized`, `unread_event`, `in_cluster` | counterexamples | see Findings |

Bounds, and why they are enough:

- `SettleHistory` (Settle 2, Horizon 5, MaxLog 5): a window longer than one tick, room for a
  verdict to hold, flip, go through pending and hold again. The bounds end it, so deadlock
  is not checked there. The proofs remove them.
- `MCEvaluate`: two keys of the same name in two namespaces; each object carries its own
  answers to filter, expression and failure expression (true, false, error) or a list of
  conditions, one with a duplicated type; the set expression is true of two, false of one
  and errs on none. Single mode, all counts of interest (at least one, exactly one, drain)
  and require_all.
- `MCWatcher`: one key. The properties of the cache do not relate keys, and the proofs cover
  any number. Configurations: a watched set, a polled drain, a single object settled by one
  observation, a wrong scope. `MaxChanges` 2 allows a verdict to come, go and come
  back; `MaxFaults` 2 a second 401 in a row, a fault during the
  recovery from one, backoff that doubles. `Horizon` is past the timeout, so a wait
  can always run into its deadline.
- `MCWatcherTimely` has a longer budget (timeout 8, settle 2, poll interval 4, progress
  interval 5, minCycle 2), for a watched and a polled set and a polled drain: its three bounds
  are tight, each fails on this instance when it is one tick smaller.

- `MCConditionAction`: writing starts from a set and changes two attributes (`MaxEdits` 2) to
  null, unknown, refused, boundary or valid values, or from a single object or a drain and
  changes one: every rule relates at most two attributes, the one that makes the mode
  included. The provider's part starts from a valid configuration: every combination of host,
  path and paths (unknown ones included), and of known ones with an override of the context or
  its cluster, with four environments and three sets of two kubeconfig files (missing, whole,
  without the cluster a context names; a missing one may be written meanwhile), in and
  outside a pod; and one attribute that says how
  to reach a cluster with each that may clash with it. Two files are the least where
  merging has an order. The run ends after Invoke, so deadlock is not checked.
- `ProgressStream` (MaxMessages 4): two messages on their way at once, one before and one
  after them. The run stops when Invoke has returned and the stream has ended, so deadlock is
  not checked; the proofs remove the bound.

Fairness (`FairSpec`): the goroutine is scheduled (WF of its steps); time passes, that is,
no instant holds endlessly many steps (SF of `Tick`, since with `Prompt` a step of the runner
disables it); the context of a discovery or list request ends it after requestTimeout, and
a cancelled context ends any request (WF). Nothing is assumed of the cluster, faults, events
or the caller. The code does not bound a Watch request, so that the server answers one is
assumed separately; `HungSpec` is the specification without that.

`FairSpec` of `ProgressStream`: the goroutines of Invoke and of the framework are scheduled,
which includes that Terraform reads what is pushed to it or is gone (WF of `Push`), and gRPC
cancels the context of a call whose client is gone (WF). A Terraform that stays connected,
does not read and does not stop the action would stall a wait beyond its timeout: the code
has no answer to it, and the fairness assumes it away. That Terraform ever stops an action
is not assumed.

## Findings

Each is a run that TLC refutes; the property states what the repository says.

1. `late_success`: the deadline is checked before resolve and list, not after. A list that
   returns after the deadline can still settle a success, and a wait with `settle` 0 does so
   in one observation. README: "`timeout` is required, and its expiry is a failure."
2. `hung_watch`: `Source.Watch` has no timeout, so a server that never answers it keeps the
   wait forever. docs/actions/condition.md: "nothing waits forever."
3. `watch_unauthorized`: each successful list clears `unauthRetried`, so a 401 of Watch alone
   is retried over and over, without a pause, until the timeout. README: "401 fails after one
   immediate retry."
4. `unread_event`: a verdict settles by its timer although an event has arrived and is
   unread. runner.go: "no event since, so the verdict has held."
5. `in_cluster`: clientcmd falls back to in-cluster credentials whenever what it has loaded
   gives no server. With two `config_paths` that do not exist, or a context whose cluster no
   file defines, a wait in a pod observes the pod's own cluster. README: "With nothing
   configured, a wait uses in-cluster credentials when it runs in a pod"; the comment on
   RESTConfig: "when all of that is empty".

Finding 3 bears on `RelistsArePaced`: that property lets the retry of a 401 follow at once,
so the loop of that finding lies outside of what it bounds.

## Proofs

All are for every set of keys, objects and configurations and every value of the
durations and bounds. Those of `Watcher` rest on two assumptions: the rules Parse enforces on
a Spec (`SpecsAssumption`: every configuration satisfies `RunnerRules`, that is, settle is
shorter than timeout, the intervals are positive, Absent is a verdict), which
`OnlyValidSpecsRun` proves of the parser, so they hold of every wait `Invoke` starts, and the
types of the constants
(`ConstantsAssumption`). Those of `ConditionAction` rest on the types of the attributes
(`ValuesAssumption`), on null, unknown and refused values being told apart
(`TokensAssumption`) and, where the connection is concerned, on `config_paths` being
sequences, `KUBE_HOST` not being null and neither a host nor the pod having an empty URL
(`ConnectionAssumption`; client-go puts `https://` before the pod's address). Those of the
evaluator rest on four: there are finitely many references, and a name that leaves the
namespace open names one (`KeysAssumption`: an API server has one object under a reference,
and a kind is cluster-scoped for all of its objects or for none); the conditions of an object
are a list (`ObjectsAssumption`); the counts of a Spec are integers and a single Spec selects
at most one reference (`CasesAssumption`: `EvaluatorRules`, proved of the parser likewise, and
the runner's `scopeError`); an attribute left out is not a program (`NoProgramAssumption`: nil).

- **Settle clock** (`SettleHistoryProofs`): `SettleClockCorrect` needs to know where the run
  of equal verdicts began, so the inductive invariant (`IInv`) says that `since` is the time
  of the first observation of the log's last run, and that the log is ordered in time.
- **Types** (`TypeCorrect`): inductive only with `CallOK`: a successful answer names a
  version the server has, a failed one an error apiError knows.
- **Cache and verdict** (`CacheCorrect`, `SettledVerdictCorrect`): the inductive invariant
  `CoreInv` adds that consecutive versions differ only in the later one's key, if it has one (an
  event then turns one into the next), that what a watch has delivered and the runner has not
  read are such versions (`Streamed`), that an unserved kind has no objects, now and when discovery
  answered so (the code then empties the cache without a list), that from the list to the
  end of waitPhase `last` is the verdict of the cache, and that only a wait that is done has
  a result.
- **Reports** (`VerdictTracked`, `FinalStateReported`): inductive with the fact that the
  first message is the one that fills `lastKey`. A lemma shows that `emitFinal`, which may
  skip a message, always leaves what `emit` would have left.
- **Timers** (`NeverSpins`, `WakesInTime`): after `heartbeat` the next heartbeat is ahead;
  the minimum of moments ahead is ahead. `WatchNeverLeaks` is inductive by itself.
- **Pacing** (`ServerNotHammered`): the invariant says that in each sleep the time it ends
  is a pause after the last list, and that a resync is due no sooner.
- **Refinement** (`RunnerImplementsContract`): every action is shown to be a step of
  `WaitContract` or a stutter. It rests on `TypeCorrect` and `CoreInv`: the verdict observed
  is the one of the version the cache reflects (`Look`), and the last one observed is the
  tracker's when it settles without a new look (`Settle`).
- **Past of a wait** (`SettleStartsAfterErrors`, `SettledAtSight`, `SuccessWarnedRightly`,
  `UnauthorizedRetriedOnce`, over `HSpec`): adding `h` adds and hides no step
  (`HistoryIsWatcher`), so the invariants of `Watcher` hold here too. Each property needs one
  of its own: `ErrorInv` says where the runner can be at the instant of an error (only asleep
  or done, since every error retried with backoff sleeps at least one tick; a 401 that is
  retried at once and a 410 do not restart the window, in the code as in the property);
  `SightInv`, which covers those two, that in waitPhase with its watch alive the runner has
  seen a snapshot since the last error and the last end of a watch; `WarnInv` that from discovery to the end of waitPhase the note is about the last
  discovery; `RetryInv` accounts for every 401 in a row either by `unauthRetried` or by a
  failed answer not yet looked at.
- **Time** (`HeartbeatsKept`, `SettledInTime`, `VerdictsNotMissed`): these speak of a prompt
  runner and immediate answers, so the theorems assume `Prompt` and `Latency` = 0 (`AtOnce`,
  the constants of `watcher_timely`), and nothing of the durations. `PromptInv` says that
  then time passes only in the two selects, never beyond the moment their timer is set to,
  and that a window which ends in a pause ends less than minCycle before the pause does. For
  the heartbeat that is enough: a message is sent at `now`, and each select's timer ends by
  the next one (`WakesInTime`). For the other two, `QuietInv` says that a request that
  failed, or was answered with what is no longer true, belongs to a disturbance of this very
  instant; `MissedInv` then bounds every pause and resync, and with them the start of the
  current verdict's window, by the last disturbance plus the longer of poll_interval and
  minCycle.
- **Evaluator** (`NoVerdictFromErrors`, `VerdictIsMeaning`, `OneFailureDecides`,
  `SinglePathIsSetPath`): the code's search for a condition from the front finds the entry the
  meaning selects (`HoldsIsMet`, by the least index), so for each object the judgement is what
  the configuration means (`JudgeMeans`), and for a set the verdict is the meaning or, because
  of an error and in place of anything but a failure, pending (`SetMeaning`). A single wait is
  the set wait over the one object its name leaves (`SingleSet`, `SingleIsAlone`). A completion
  of the erring programs keeps every answer that was given, so it keeps a failure, and where no
  error is left to complete it keeps a success (`MeaningCompleted`). The invariant over
  snapshots is their type.
- **Stream** (`MessagesInOrder`, `NoMessageLost`): the inductive invariant counts messages:
  each is in exactly one place (not yet said, with its helper, in the loop's hands,
  received), and without a cancellation at most one is on its way.
- **Parser and action** (`ErrorsAreFinal`, `WarningsAreFinal`, `OnlyValidSpecsRun`): a value
  made known leaves every known one as it was (`LearnsValue`, `LearnsItems`), so each rule that
  fired still fires (`ParseErrorsStand`, one step per rule, and `WarningsStandStep`); the invariant adds that nothing
  is said before the configuration is submitted. `ParsedIsValid` derives each rule of a
  valid Spec from the check that found nothing.
- **Connection** (`ClusterNeverGuessed`): the invariant `ConnInv` says that the settings of
  a connection are those of the provider's configuration as it is now, since only a wholly
  known configuration gives settings and a known value never changes (`KnownStaysKnown`).
  The server clientcmd arrives at, through overrides that count only with files, is the one
  `selectedServer` defines from the attributes and files (`ServerIsNamed`), and the pod's
  credentials are tried only when that is empty and nothing is missing (`ClientOutcome`,
  `ResolutionIsNamed`). The cluster is chosen by Invoke (`InvokeCases`), after which the
  configuration stays as it is.
- **Refusals** (`RefusalsAreTrue`): the errors of a configuration are about its own
  attributes (`ErrorsAreOfAttributes`), so a diagnostic about the provider comes from
  RESTConfig. `ClientFails` lists what clientcmd can refuse; without kubeconfig files no
  override of a context is left and nothing can be missing (`KubeconfigMeans`); a wait refused
  for want of a cluster has no server and no pod (`NoClusterMeans`).
- **Ignored attributes** (`WarnedIsIgnored`): each path of the evaluator reads only its own
  attributes of a Spec (`SingleReads`, `SetReads`), and a configuration that parses has the
  mode its name says (`WithoutIgnored`); the invariant is that the Spec that ran is that of the
  configuration as it stands.

Every safety property of a passing run, state or action, is proved, and so is the refinement
but for its fairness (`WaitContract` states none). Only model-checked are `Termination` and
`InvokeEnds`: liveness under fairness is out of the prover's reach.

## Not modelled

`Compile` and the CEL environments (cel-go; a program is a function), the mapping of kinds
to REST resources, formatting of messages, and the scan of a field path (a string without
state, shown to the user and nothing else; that a refused path is an error is in
`SpecParse`), what TLS, proxies and exec plugins do once a cluster is chosen, the plugin's
entry point and the fixtures (I/O and test support).

## Plan

Every part planned is modelled, every safety property checked is proved, and the parser is
joined to the runner and the evaluator by `RunnerRules` and `EvaluatorRules`. What remains is
what the prover cannot express: the two liveness properties, which stay with TLC, and the
inner workings listed under *Not modelled*.

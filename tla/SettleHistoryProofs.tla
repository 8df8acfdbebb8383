------------------------- MODULE SettleHistoryProofs -------------------------
(***************************************************************************)
(* For every settle window and every sequence of observations, the tracker *)
(* settles exactly when the log shows a verdict held for the window.       *)
(***************************************************************************)
EXTENDS SettleHistory, TLAPS

(* Observing keeps the tracker well typed, for every verdict and time.     *)
LEMMA ObserveType ==
    ASSUME NEW t \in Tracker, NEW n \in Nat, NEW v \in Verdicts
    PROVE  Observe(t, n, v) \in Tracker
  BY DEF Observe, Tracker, Verdicts

LEMMA InitIInv == Init => IInv
  <1> SUFFICES ASSUME Init PROVE IInv
    OBVIOUS
  <1> USE DEF Init
  <1>1. TypeOK
    BY DEF TypeOK, NewTracker, Tracker, Verdicts
  <1>2. LogOrdered
    BY DEF LogOrdered
  <1>3. TrackerIsLastRun
    BY DEF TrackerIsLastRun
  <1> QED BY <1>1, <1>2, <1>3 DEF IInv

(* Every entry of the log carries a time and a verdict. *)
LEMMA EntryType ==
    ASSUME TypeOK, NEW i \in 1 .. Len(log)
    PROVE  log[i].at \in Nat /\ log[i].v \in Verdicts
  <1>1. log[i] \in Observation
    BY DEF TypeOK
  <1> QED BY <1>1 DEF Observation

(* What appending one observation does to the log. *)
LEMMA AppendLog ==
    ASSUME TypeOK, NEW v \in Verdicts, log' = Append(log, [at |-> now, v |-> v])
    PROVE  /\ log' \in Seq(Observation)
           /\ Len(log') = Len(log) + 1
           /\ log'[Len(log) + 1] = [at |-> now, v |-> v]
           /\ \A i \in 1 .. Len(log) : log'[i] = log[i]
           /\ log' # << >>
  BY DEF TypeOK, Observation

LEMMA SeeKeepsOrder ==
    ASSUME IInv, NEW v \in Verdicts, See(v)
    PROVE  LogOrdered'
  <1>1. /\ Len(log') = Len(log) + 1
        /\ log'[Len(log) + 1].at = now
        /\ \A i \in 1 .. Len(log) : log'[i] = log[i]
    BY AppendLog DEF IInv, See
  <1>2. Len(log) \in Nat /\ now \in Nat /\ now' = now
    BY DEF IInv, TypeOK, See
  <1>3. \A i \in 1 .. Len(log) : log[i].at \in Nat /\ log[i].at <= now
    BY EntryType DEF IInv, LogOrdered
  <1>4. \A i, j \in 1 .. Len(log) : i <= j => log[i].at <= log[j].at
    BY DEF IInv, LogOrdered
  <1>5. \A i \in 1 .. Len(log') : log'[i].at <= now'
    BY <1>1, <1>2, <1>3
  <1>6. ASSUME NEW i \in 1 .. Len(log'), NEW j \in 1 .. Len(log'), i <= j
        PROVE  log'[i].at <= log'[j].at
    <2>1. CASE j \in 1 .. Len(log)
      BY <1>1, <1>2, <1>4, <1>6, <2>1
    <2>2. CASE j = Len(log) + 1
      BY <1>1, <1>2, <1>5, <1>6, <2>2
    <2> QED BY <1>1, <1>2, <2>1, <2>2
  <1> QED BY <1>5, <1>6 DEF LogOrdered

(* An observation of another verdict starts a run at the log's new end, one *)
(* of the same verdict extends the run the tracker already stands for.      *)
LEMMA SeeKeepsRun ==
    ASSUME IInv, NEW v \in Verdicts, See(v)
    PROVE  TrackerIsLastRun'
  <1>0. PICK n \in Nat : n = Len(log)
    BY DEF IInv, TypeOK
  <1>1. /\ Len(log') = n + 1
        /\ log'[n + 1] = [at |-> now, v |-> v]
        /\ \A i \in 1 .. n : log'[i] = log[i]
        /\ log' # << >>
    BY <1>0, AppendLog DEF IInv, See
  <1>2. /\ n \in Nat /\ n = Len(log) /\ now \in Nat
        /\ tracker \in Tracker /\ log \in Seq(Observation)
    BY <1>0 DEF IInv, TypeOK
  <1>3. tracker' = Observe(tracker, now, v)
    BY DEF See
  <1>4. CASE ~tracker.started \/ v # tracker.state
    <2>1. tracker' = [started |-> TRUE, state |-> v, since |-> now]
      BY <1>3, <1>4 DEF Observe
    <2>2. n >= 1 => log[n].v # v
      <3> SUFFICES ASSUME n >= 1 PROVE log[n].v # v
        OBVIOUS
      <3>1. log # << >>
        BY <1>2
      <3>2. tracker.started /\ \E i \in 1 .. n : RunStartsAt(i)
        BY <1>2, <3>1 DEF IInv, TrackerIsLastRun
      <3>3. log[n].v = tracker.state
        BY <3>2, <1>2 DEF RunStartsAt
      <3> QED BY <3>2, <3>3, <1>4
    <2>3. RunStartsAt(n + 1)'
      BY <1>1, <1>2, <2>1, <2>2 DEF RunStartsAt
    <2> QED BY <1>1, <1>2, <2>1, <2>3 DEF TrackerIsLastRun
  <1>5. CASE tracker.started /\ v = tracker.state
    <2>1. tracker' = tracker
      BY <1>3, <1>5 DEF Observe
    <2>2. log # << >>
      BY <1>5 DEF IInv, TrackerIsLastRun, NewTracker
    <2>3. PICK i \in 1 .. n : RunStartsAt(i)
      BY <1>2, <2>2 DEF IInv, TrackerIsLastRun
    <2>4. RunStartsAt(i)'
      <3>1. /\ i \in 1 .. n /\ log[i].at = tracker.since
            /\ \A j \in i .. n : log[j].v = tracker.state
            /\ i > 1 => log[i - 1].v # tracker.state
        BY <1>2, <2>3 DEF RunStartsAt
      <3>2. i \in 1 .. Len(log') /\ log'[i].at = tracker'.since
        BY <1>1, <1>2, <2>1, <3>1
      <3>3. ASSUME NEW j \in i .. Len(log') PROVE log'[j].v = tracker'.state
        <4>1. (j \in i .. n /\ j \in 1 .. n) \/ j = n + 1
          BY <1>1, <1>2, <3>1
        <4>2. log'[n + 1].v = v
          BY <1>1
        <4>3. QED
          BY <1>1, <1>5, <2>1, <3>1, <4>1, <4>2
      <3>4. i > 1 => log'[i - 1].v # tracker'.state
        <4>1. i > 1 => i - 1 \in 1 .. n
          BY <1>2, <3>1
        <4>2. QED
          BY <1>1, <2>1, <3>1, <4>1
      <3>5. QED
        BY <3>2, <3>3, <3>4 DEF RunStartsAt
    <2> QED BY <1>1, <1>2, <1>5, <2>1, <2>4 DEF TrackerIsLastRun
  <1> QED BY <1>4, <1>5

(* Every step keeps the inductive invariant. *)
LEMMA NextIInv == IInv /\ [Next]_vars => IInv'
  <1> SUFFICES ASSUME IInv, [Next]_vars PROVE IInv'
    OBVIOUS
  <1>1. ASSUME NEW v \in Verdicts, See(v) PROVE IInv'
    <2>1. TypeOK'
      BY <1>1, ObserveType, AppendLog DEF IInv, TypeOK, See
    <2> QED BY <1>1, <2>1, SeeKeepsOrder, SeeKeepsRun DEF IInv
  <1>2. CASE Tick
    <2>1. TypeOK'
      BY <1>2 DEF IInv, TypeOK, Tick
    <2>2. LogOrdered'
      <3>1. now \in Nat /\ now' = now + 1 /\ log' = log
        BY <1>2 DEF IInv, TypeOK, Tick
      <3>2. \A i \in 1 .. Len(log) : log[i].at \in Nat /\ log[i].at <= now
        BY EntryType DEF IInv, LogOrdered
      <3> QED BY <3>1, <3>2 DEF IInv, LogOrdered
    <2>3. TrackerIsLastRun'
      BY <1>2 DEF IInv, Tick, TrackerIsLastRun, RunStartsAt
    <2> QED BY <2>1, <2>2, <2>3 DEF IInv
  <1>3. CASE UNCHANGED vars
    BY <1>3 DEF IInv, vars, TypeOK, LogOrdered, TrackerIsLastRun, RunStartsAt
  <1> QED BY <1>1, <1>2, <1>3 DEF Next

(* The three fields of settle.go's Tracker describe the last run of the log *)
(* in every reachable state.                                                *)
THEOREM TrackerDescribesLog == Spec => []TrackerIsLastRun
  <1>1. IInv => TrackerIsLastRun
    BY DEF IInv
  <1> QED BY InitIInv, NextIInv, <1>1, PTL DEF Spec

LEMMA IInvSettled == IInv => SettledIffHeld
  <1> SUFFICES ASSUME IInv PROVE SettledIffHeld
    OBVIOUS
  <1>1. CASE log = << >>
    BY <1>1 DEF IInv, TrackerIsLastRun, SettledIffHeld, Settled, NewTracker, HeldContinuously
  <1>2. CASE log # << >>
    <2>1. tracker.started
      BY <1>2 DEF IInv, TrackerIsLastRun
    <2>2. PICK i \in 1 .. Len(log) : RunStartsAt(i)
      BY <1>2 DEF IInv, TrackerIsLastRun
    <2>3. /\ now \in Nat /\ Settle \in Nat /\ tracker.since \in Nat
          /\ Len(log) \in Nat
          /\ \A k \in 1 .. Len(log) : log[k].at \in Nat
      BY HistoryAssumption, EntryType DEF IInv, TypeOK, Tracker
    <2>4. Settled(tracker, Settle, now) => HeldSince(i, tracker.state)
      BY <2>2, <2>3 DEF Settled, HeldSince, RunStartsAt
    <2>5. ASSUME NEW k \in 1 .. Len(log), HeldSince(k, tracker.state)
          PROVE  now - tracker.since >= Settle
      <3>1. i <= k
        BY <2>2, <2>3, <2>5 DEF HeldSince, RunStartsAt
      <3>2. log[i].at <= log[k].at
        BY <3>1, <2>2 DEF IInv, LogOrdered
      <3> QED BY <3>2, <2>2, <2>3, <2>5 DEF HeldSince, RunStartsAt
    <2> QED BY <2>1, <2>2, <2>4, <2>5 DEF SettledIffHeld, Settled, HeldContinuously
  <1> QED BY <1>1, <1>2

(* Whatever the settle window and whatever is observed when, the tracker    *)
(* reports settled exactly when the log shows one success or failure held   *)
(* continuously for the window.                                             *)
THEOREM SettleClockCorrect == Spec => []SettledIffHeld
  BY InitIInv, NextIInv, IInvSettled, PTL DEF Spec

LEMMA IInvOnlyLast == IInv => OnlyTheLastVerdictHolds
  <1> SUFFICES ASSUME IInv, NEW v \in Verdicts, NEW k \in 1 .. Len(log), HeldSince(k, v)
               PROVE  v = tracker.state
    BY DEF OnlyTheLastVerdictHolds, HeldContinuously
  <1>1. Len(log) \in Nat /\ log \in Seq(Observation)
    BY DEF IInv, TypeOK
  <1>2. log[Len(log)].v = v
    BY <1>1 DEF HeldSince
  <1>3. log # << >>
    BY <1>1
  <1>4. PICK i \in 1 .. Len(log) : RunStartsAt(i)
    BY <1>3 DEF IInv, TrackerIsLastRun
  <1> QED BY <1>1, <1>2, <1>4 DEF RunStartsAt

(* Two verdicts can never both have held for the window: a settled result   *)
(* is about the verdict last observed.                                      *)
THEOREM SettledVerdictIsLast == Spec => []OnlyTheLastVerdictHolds
  BY InitIInv, NextIInv, IInvOnlyLast, PTL DEF Spec
==============================================================================

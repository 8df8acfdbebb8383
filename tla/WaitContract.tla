----------------------------- MODULE WaitContract -----------------------------
(***************************************************************************)
(* What a wait is, without requests, watches, caches, retries and timers.  *)
(* The selection goes through versions, each of which the configuration    *)
(* judges.  A wait looks at a version now and then, never at an older one  *)
(* than before; it holds on to a verdict from the look that first gave it, *)
(* lets go of it at a look that gives another or after an error, and       *)
(* returns it once it was held for the window.  Otherwise it ends when its *)
(* budget is spent, when the server refuses it or when its caller leaves.  *)
(***************************************************************************)
EXTENDS Integers, Sequences

VARIABLES
    clock, window, budget,  \* the time; the settle window and the timeout
    verdicts,               \* the verdict of each version so far
    abandoned,              \* the caller has left
    seen,                   \* the version last looked at, or 0
    held,                   \* the verdict being held, and since when
    outcome                 \* how the wait ended

Verdicts == {"pending", "success", "failure"}

Nothing == [verdict |-> "pending", since |-> 0]
Unended == [kind |-> "none", verdict |-> "pending"]
Failed(kind) == [kind |-> kind, verdict |-> "failure"]

world == <<clock, window, budget, verdicts, abandoned>>
wait == <<seen, held, outcome>>

Init ==
    /\ clock = 0 /\ window \in Nat /\ budget \in Nat
    /\ \E v \in Verdicts : verdicts = <<v>>
    /\ abandoned = FALSE
    /\ seen = 0 /\ held = Nothing /\ outcome = Unended

------------------------------------------------------------------------------
(* The world: time, the selection, the caller. *)
TimePasses == clock' = clock + 1 /\ UNCHANGED <<window, budget, verdicts, abandoned, wait>>

SelectionChanges ==
    /\ \E v \in Verdicts : verdicts' = Append(verdicts, v)
    /\ UNCHANGED <<clock, window, budget, abandoned, wait>>

CallerLeaves == abandoned' = TRUE /\ UNCHANGED <<clock, window, budget, verdicts, wait>>

------------------------------------------------------------------------------
(* The wait. *)
holding(v) ==
    IF v = "pending" THEN Nothing
    ELSE IF v = held.verdict THEN held
    ELSE [verdict |-> v, since |-> clock]

ended(h) ==
    IF h.verdict # "pending" /\ clock - h.since >= window
    THEN [kind |-> "settled", verdict |-> h.verdict] ELSE Unended

(* A version is judged; the verdict may settle right away. *)
Look(i) ==
    /\ outcome = Unended
    /\ seen <= i /\ i \in 1 .. Len(verdicts)
    /\ seen' = i
    /\ held' = holding(verdicts[i])
    /\ outcome' = ended(held')
    /\ UNCHANGED world

(* Nothing new was seen since the last look, and the window is over. *)
Settle ==
    /\ outcome = Unended
    /\ ended(held) # Unended
    /\ outcome' = ended(held)
    /\ UNCHANGED <<world, seen, held>>

(* The wait could not look. *)
LetGo ==
    /\ outcome = Unended
    /\ held' = Nothing
    /\ UNCHANGED <<world, seen, outcome>>

End(kind) ==
    /\ outcome = Unended
    /\ outcome' = Failed(kind)
    /\ UNCHANGED <<world, seen, held>>

Next ==
    \/ TimePasses \/ SelectionChanges \/ CallerLeaves
    \/ \E i \in 1 .. Len(verdicts) : Look(i)
    \/ Settle \/ LetGo
    \/ clock >= budget /\ End("timeout")
    \/ End("fatal")
    \/ abandoned /\ End("cancelled")

Spec == Init /\ [][Next]_<<world, wait>>
==============================================================================

---------------------------- MODULE ProgressStream ----------------------------
(***************************************************************************)
(* The progress messages of one invocation, on their way from the runner   *)
(* to Terraform.  The runner calls sendProgress for each message, on its   *)
(* own goroutine; sendProgress hands the message to a helper goroutine,    *)
(* which sends it on an unbuffered channel, and waits for the helper or    *)
(* for ctx.  The framework's stream loop receives from that channel and    *)
(* pushes each event to Terraform, until the invocation has completed or a *)
(* push fails.  Terraform may stop the action, which cancels ctx while     *)
(* events still flow, or go away, which fails the next push.               *)
(*                                                                         *)
(* The framework and Terraform are external.  A message is its number.     *)
(***************************************************************************)
EXTENDS Naturals, Sequences

CONSTANT MaxMessages        \* bound: the messages of one run

ASSUME MaxMessagesAssumption == MaxMessages \in Nat

VARIABLES
    streaming,      \* resp.SendProgress # nil
    ctxDone,        \* the ctx of Invoke is cancelled
    runner,         \* the goroutine of Invoke: in Run, in sendProgress, returned
    said,           \* the messages Run has emitted are 1 .. said
    helper,         \* helper[i]: the goroutine that sends message i
    loop, event,    \* the stream loop, and the message it is pushing
    terraform,      \* the other end of the stream
    received,       \* the messages Terraform has, in the order it got them
    completed       \* Terraform has the completed event

vars == <<streaming, ctxDone, runner, said, helper, loop, event, terraform, received, completed>>

Messages == 1 .. MaxMessages

(* The types; nothing is sent by an invocation that is given no SendProgress. *)
TypeOK ==
    /\ streaming \in BOOLEAN /\ ctxDone \in BOOLEAN /\ completed \in BOOLEAN
    /\ runner \in {"running", "sending", "returned"}
    /\ said \in 0 .. MaxMessages
    /\ helper \in [Messages -> {"none", "blocked", "sent", "closed"}]
    /\ loop \in {"receiving", "pushing", "exited"}
    /\ event \in 0 .. MaxMessages
    /\ terraform \in {"reading", "gone"}
    /\ received \in Seq(Messages)
    /\ ~streaming => runner # "sending"

Init ==
    /\ streaming \in BOOLEAN
    /\ ctxDone = FALSE /\ runner = "running" /\ said = 0
    /\ helper = [i \in Messages |-> "none"]
    /\ loop = "receiving" /\ event = 0
    /\ terraform = "reading" /\ received = << >> /\ completed = FALSE

external == <<loop, event, terraform, received, completed>>

------------------------------------------------------------------------------
(* The runner's goroutine.  Run has its own bounds (Termination of Watcher) *)
(* and returns sooner or later, with or without a further message.          *)

(* Mutants: sendProgress does not wait for its helper; it does not look     *)
(* whether there is a SendProgress.                                         *)
ProgressUnwaited ==
    /\ runner = "running" /\ said < MaxMessages
    /\ said' = said + 1
    /\ helper' = IF streaming THEN [helper EXCEPT ![said + 1] = "blocked"] ELSE helper
    /\ UNCHANGED <<runner, streaming, ctxDone, external>>

ProgressUnchecked ==
    /\ runner = "running" /\ said < MaxMessages
    /\ said' = said + 1
    /\ runner' = "sending" /\ helper' = [helper EXCEPT ![said + 1] = "blocked"]
    /\ UNCHANGED <<streaming, ctxDone, external>>

(* Run calls Progress.  Without a SendProgress that is all. *)
Progress ==
    /\ runner = "running" /\ said < MaxMessages
    /\ said' = said + 1
    /\ IF streaming
       THEN runner' = "sending" /\ helper' = [helper EXCEPT ![said + 1] = "blocked"]
       ELSE UNCHANGED <<runner, helper>>
    /\ UNCHANGED <<streaming, ctxDone, external>>

(* Mutants: done is closed before the send; ctx is not looked at. *)
SendStarted ==
    /\ runner = "sending"
    /\ runner' = "running"
    /\ UNCHANGED <<streaming, ctxDone, said, helper, external>>

SendUncancelled ==
    /\ runner = "sending" /\ helper[said] = "closed"
    /\ runner' = "running"
    /\ UNCHANGED <<streaming, ctxDone, said, helper, external>>

(* The select of sendProgress.  When both are ready either is taken. *)
SendReturns ==
    /\ runner = "sending"
    /\ helper[said] = "closed" \/ ctxDone
    /\ runner' = "running"
    /\ UNCHANGED <<streaming, ctxDone, said, helper, external>>

(* The deferred close(done), once the channel send has returned. *)
HelperCloses(i) ==
    /\ helper[i] = "sent"
    /\ helper' = [helper EXCEPT ![i] = "closed"]
    /\ UNCHANGED <<streaming, ctxDone, runner, said, external>>

(* Run returns, and Invoke with it. *)
InvokeReturns ==
    /\ runner = "running"
    /\ runner' = "returned"
    /\ UNCHANGED <<streaming, ctxDone, said, helper, external>>

------------------------------------------------------------------------------
(* The framework's stream loop. *)

(* The channel is unbuffered: the helper's send and the loop's receive are  *)
(* one step.  Any blocked helper may be served, since a helper need not     *)
(* have reached the channel when the next one does.                         *)
Receive(i) ==
    /\ loop = "receiving" /\ helper[i] = "blocked"
    /\ loop' = "pushing" /\ event' = i
    /\ helper' = [helper EXCEPT ![i] = "sent"]
    /\ UNCHANGED <<streaming, ctxDone, runner, said, terraform, received, completed>>

Push ==
    /\ loop = "pushing" /\ event' = 0
    /\ IF terraform = "reading"
       THEN received' = Append(received, event) /\ loop' = "receiving"
       ELSE loop' = "exited" /\ UNCHANGED received
    /\ UNCHANGED <<streaming, ctxDone, runner, said, helper, terraform, completed>>

(* The completed channel is closed when Invoke returns; the loop may find   *)
(* it and a blocked helper ready together, and takes either.                *)
Complete ==
    /\ loop = "receiving" /\ runner = "returned"
    /\ loop' = "exited"
    /\ completed' = (terraform = "reading")
    /\ UNCHANGED <<streaming, ctxDone, runner, said, helper, event, terraform, received>>

------------------------------------------------------------------------------
(* Terraform: it asks the provider to stop, or its connection is lost.      *)
Stop ==
    /\ ~ctxDone
    /\ ctxDone' = TRUE
    /\ UNCHANGED <<streaming, runner, said, helper, external>>

Vanish ==
    /\ terraform = "reading" /\ ~completed
    /\ terraform' = "gone"
    /\ UNCHANGED <<streaming, ctxDone, runner, said, helper, loop, event, received, completed>>

(* The transport cancels the ctx of a call whose client is gone. *)
TransportCancels ==
    /\ terraform = "gone" /\ ~ctxDone
    /\ ctxDone' = TRUE
    /\ UNCHANGED <<streaming, runner, said, helper, external>>

InvokeStep == Progress \/ SendReturns \/ InvokeReturns \/ \E i \in Messages : HelperCloses(i)

LoopStep == Push \/ Complete \/ \E i \in Messages : Receive(i)

Next == InvokeStep \/ LoopStep \/ Stop \/ Vanish \/ TransportCancels

Spec == Init /\ [][Next]_vars

(* Goroutines are scheduled; Terraform reads what is pushed or goes away;   *)
(* a call whose client is gone is cancelled.  That Terraform stops an       *)
(* action, or goes away, is not assumed.                                    *)
FairSpec == Spec /\ WF_vars(InvokeStep) /\ WF_vars(LoopStep) /\ WF_vars(TransportCancels)

------------------------------------------------------------------------------
(* No message reaches Terraform twice.  And until ctx is cancelled at most  *)
(* one is on its way, the runner waits for it, and Terraform got the others *)
(* in order: the helper goroutine of sendProgress makes the call no less    *)
(* synchronous.                                                             *)
InOrder ==
    /\ \A j, k \in 1 .. Len(received) : received[j] = received[k] => j = k
    /\ ~ctxDone =>
          /\ \A i \in Messages : helper[i] = "blocked" => runner = "sending" /\ i = said
          /\ \A k \in 1 .. Len(received) : received[k] = k

(* An invocation that was not cancelled completes only after Terraform has  *)
(* every message of its run, the closing one included.                      *)
CompleteStream ==
    completed /\ streaming /\ ~ctxDone => Len(received) = said

(* sendProgress never hangs: whether Terraform stops the action, goes away  *)
(* between two messages or in the middle of one, Invoke returns.            *)
InvokeEnds == <>(runner = "returned")
==============================================================================

------------------------- MODULE ProgressStreamProofs -------------------------
(***************************************************************************)
(* Proofs about ProgressStream, for every number of messages.  The         *)
(* inductive invariant says where each message is: helpers of earlier      *)
(* messages have finished (Synchronous), the messages handed over are the  *)
(* ones received and the one being pushed (HandedOver), and a message that *)
(* left its helper is at one place only (OnePlace).                        *)
(***************************************************************************)
EXTENDS ProgressStream, TLAPS

Left(i) == helper[i] \in {"sent", "closed"}

(* The messages that left their helper, when no send was abandoned. *)
handed == IF ~streaming THEN 0
          ELSE IF said > 0 /\ helper[said] = "blocked" THEN said - 1 ELSE said

Synchronous ==
    /\ runner = "sending" => streaming /\ said > 0
    /\ \A i \in Messages : i > said => helper[i] = "none"
    /\ \A i \in Messages : ~streaming => helper[i] = "none"
    /\ ~ctxDone /\ streaming =>
          /\ \A i \in Messages : i < said => helper[i] = "closed"
          /\ said > 0 => helper[said] # "none"
          /\ said > 0 /\ runner # "sending" => helper[said] = "closed"

HandedOver ==
    ~ctxDone =>
        /\ \A k \in 1 .. Len(received) : received[k] = k
        /\ loop = "receiving" => Len(received) = handed
        /\ loop = "pushing" => event = handed /\ Len(received) = handed - 1
        /\ completed => runner = "returned" /\ Len(received) = handed

OnePlace ==
    /\ loop = "pushing" <=> event # 0
    /\ event # 0 => Left(event)
    /\ \A k \in 1 .. Len(received) : received[k] # event /\ Left(received[k])
    /\ \A j, k \in 1 .. Len(received) : received[j] = received[k] => j = k

IInv == TypeOK /\ Synchronous /\ HandedOver /\ OnePlace

------------------------------------------------------------------------------
(* What appending one message does. *)
LEMMA Appended ==
    ASSUME NEW S, NEW q \in Seq(S), NEW e \in S
    PROVE  /\ Append(q, e) \in Seq(S)
           /\ Len(Append(q, e)) = Len(q) + 1
           /\ \A k \in 1 .. Len(q) : Append(q, e)[k] = q[k]
           /\ Append(q, e)[Len(q) + 1] = e
    OBVIOUS

(* A push takes the message off the loop; Terraform has it, or is gone. *)
Delivered ==
    /\ Len(received') = Len(received) + 1
    /\ \A k \in 1 .. Len(received) : received'[k] = received[k] /\ received[k] \in Messages
    /\ received'[Len(received) + 1] = event

LEMMA Pushed ==
    ASSUME IInv, Push
    PROVE  /\ event \in Messages /\ event' = 0 /\ loop = "pushing"
           /\ received' \in Seq(Messages)
           /\ \/ loop' = "receiving" /\ Delivered
              \/ loop' = "exited" /\ received' = received
           /\ UNCHANGED <<streaming, ctxDone, runner, said, helper, terraform, completed>>
<1>1. event \in Messages /\ event' = 0 /\ loop = "pushing" /\ received \in Seq(Messages)
    BY MaxMessagesAssumption DEF Push, IInv, TypeOK, OnePlace, Messages
<1>2. CASE terraform = "reading"
    <2>1. received' = Append(received, event) /\ loop' = "receiving"
        BY <1>2 DEF Push
    <2>2. Delivered /\ received' \in Seq(Messages)
        BY <1>1, <2>1, Appended DEF Delivered
    <2>3. QED BY <1>1, <2>1, <2>2 DEF Push
<1>3. CASE terraform # "reading"
    BY <1>1, <1>3 DEF Push
<1>4. QED BY <1>2, <1>3

LEMMA StreamTypes == IInv /\ [Next]_vars => TypeOK'
<1> SUFFICES ASSUME IInv, [Next]_vars PROVE TypeOK'
    OBVIOUS
<1> USE MaxMessagesAssumption DEF IInv, TypeOK, Messages
<1>1. CASE Progress BY <1>1 DEF Progress, external
<1>2. CASE SendReturns BY <1>2 DEF SendReturns, external
<1>3. CASE InvokeReturns BY <1>3 DEF InvokeReturns, external
<1>4. CASE \E i \in Messages : HelperCloses(i) BY <1>4 DEF HelperCloses, external
<1>5. CASE Push
    BY <1>5, Pushed DEF Push
<1>6. CASE Complete BY <1>6 DEF Complete
<1>7. CASE \E i \in Messages : Receive(i) BY <1>7 DEF Receive
<1>8. CASE Stop BY <1>8 DEF Stop, external
<1>9. CASE Vanish BY <1>9 DEF Vanish
<1>10. CASE TransportCancels BY <1>10 DEF TransportCancels, external
<1>11. CASE UNCHANGED vars BY <1>11 DEF vars
<1>12. QED
    BY <1>1, <1>2, <1>3, <1>4, <1>5, <1>6, <1>7, <1>8, <1>9, <1>10, <1>11
       DEF Next, InvokeStep, LoopStep

LEMMA StreamSynchronous == IInv /\ [Next]_vars => Synchronous'
<1> SUFFICES ASSUME IInv, [Next]_vars PROVE Synchronous'
    OBVIOUS
<1> USE MaxMessagesAssumption DEF IInv, TypeOK, Synchronous, OnePlace, Messages, Left
<1>1. CASE Progress BY <1>1 DEF Progress, external
<1>2. CASE SendReturns BY <1>2 DEF SendReturns, external
<1>3. CASE InvokeReturns BY <1>3 DEF InvokeReturns, external
<1>4. CASE \E i \in Messages : HelperCloses(i) BY <1>4 DEF HelperCloses, external
<1>5. CASE Push BY <1>5 DEF Push
<1>6. CASE Complete BY <1>6 DEF Complete
<1>7. CASE \E i \in Messages : Receive(i) BY <1>7 DEF Receive
<1>8. CASE Stop BY <1>8 DEF Stop, external
<1>9. CASE Vanish BY <1>9 DEF Vanish
<1>10. CASE TransportCancels BY <1>10 DEF TransportCancels, external
<1>11. CASE UNCHANGED vars BY <1>11 DEF vars
<1>12. QED
    BY <1>1, <1>2, <1>3, <1>4, <1>5, <1>6, <1>7, <1>8, <1>9, <1>10, <1>11
       DEF Next, InvokeStep, LoopStep

LEMMA StreamHandedOver == IInv /\ [Next]_vars => HandedOver'
<1> SUFFICES ASSUME IInv, [Next]_vars PROVE HandedOver'
    OBVIOUS
<1> USE MaxMessagesAssumption DEF IInv, TypeOK, Synchronous, HandedOver, OnePlace, Messages, Left, handed
<1>1. CASE Progress
    <2>1. CASE streaming BY <1>1, <2>1 DEF Progress, external
    <2>2. CASE ~streaming BY <1>1, <2>2 DEF Progress, external
    <2>3. QED BY <2>1, <2>2
<1>2. CASE SendReturns BY <1>2 DEF SendReturns, external
<1>3. CASE InvokeReturns BY <1>3 DEF InvokeReturns, external
<1>4. CASE \E i \in Messages : HelperCloses(i) BY <1>4 DEF HelperCloses, external
<1>5. CASE Push
    <2>1. CASE loop' = "receiving" /\ Delivered
        <3>1. ~ctxDone => event = Len(received) + 1
            BY <1>5, Pushed
        <3>2. \A k \in 1 .. Len(received') : k \in 1 .. Len(received) \/ k = Len(received) + 1
            BY <2>1 DEF Delivered
        <3>3. ~ctxDone => \A k \in 1 .. Len(received') : received'[k] = k
            BY <2>1, <3>1, <3>2 DEF Delivered
        <3>4. QED BY <1>5, <2>1, <3>1, <3>3, Pushed DEF Delivered, Push
    <2>2. CASE loop' = "exited" /\ received' = received
        BY <1>5, <2>2, Pushed
    <2>3. QED BY <1>5, <2>1, <2>2, Pushed
<1>6. CASE Complete BY <1>6 DEF Complete
<1>7. CASE \E i \in Messages : Receive(i) BY <1>7 DEF Receive
<1>8. CASE Stop BY <1>8 DEF Stop, external
<1>9. CASE Vanish BY <1>9 DEF Vanish
<1>10. CASE TransportCancels BY <1>10 DEF TransportCancels, external
<1>11. CASE UNCHANGED vars BY <1>11 DEF vars
<1>12. QED
    BY <1>1, <1>2, <1>3, <1>4, <1>5, <1>6, <1>7, <1>8, <1>9, <1>10, <1>11
       DEF Next, InvokeStep, LoopStep

LEMMA StreamOnePlace == IInv /\ [Next]_vars => OnePlace'
<1> SUFFICES ASSUME IInv, [Next]_vars PROVE OnePlace'
    OBVIOUS
<1> USE MaxMessagesAssumption DEF IInv, TypeOK, OnePlace, Messages, Left
<1>1. CASE Progress
    <2>1. helper[said + 1] = "none"
        BY <1>1 DEF Progress, Synchronous
    <2>2. \A i \in Messages : Left(i) => Left(i)'
        BY <1>1, <2>1 DEF Progress
    <2>3. \A k \in 1 .. Len(received) : received[k] \in Messages
        OBVIOUS
    <2>4. QED BY <1>1, <2>2, <2>3 DEF Progress, external
<1>2. CASE SendReturns BY <1>2 DEF SendReturns, external
<1>3. CASE InvokeReturns BY <1>3 DEF InvokeReturns, external
<1>4. CASE \E i \in Messages : HelperCloses(i) BY <1>4 DEF HelperCloses, external
<1>5. CASE Push
    <2>1. \A k \in 1 .. Len(received) : received[k] \in Messages
        OBVIOUS
    <2>2. CASE loop' = "receiving" /\ Delivered
        <3>1. \A k \in 1 .. Len(received') : k \in 1 .. Len(received) \/ k = Len(received) + 1
            BY <2>2 DEF Delivered
        <3>2. \A k \in 1 .. Len(received') : received'[k] \in Messages /\ Left(received'[k])
            <4>1. \A k \in 1 .. Len(received) : received[k] \in Messages /\ Left(received[k])
                BY <2>1
            <4>2. event \in Messages /\ Left(event)
                BY <1>5, Pushed DEF Push
            <4>3. \A k \in 1 .. Len(received') :
                     k \in 1 .. Len(received) \/ received'[k] = event
                BY <2>2, <3>1 DEF Delivered
            <4>4. \A k \in 1 .. Len(received) : received'[k] = received[k]
                BY <2>2 DEF Delivered
            <4>5. ASSUME NEW k \in 1 .. Len(received')
                  PROVE  received'[k] \in Messages /\ Left(received'[k])
                <5>1. CASE received'[k] = event
                    BY ONLY <4>2, <5>1
                <5>2. CASE k \in 1 .. Len(received)
                    BY ONLY <4>1, <4>4, <5>2
                <5>3. QED BY ONLY <4>3, <4>5, <5>1, <5>2
            <4>6. QED BY ONLY <4>5
        <3>3. \A j, k \in 1 .. Len(received') : received'[j] = received'[k] => j = k
            BY <1>5, <2>2, <3>1 DEF Delivered, Push
        <3>4. QED BY <1>5, <2>2, <3>2, <3>3, Pushed
    <2>3. CASE loop' = "exited" /\ received' = received
        BY <1>5, <2>1, <2>3, Pushed
    <2>4. QED BY <1>5, <2>2, <2>3, Pushed
<1>6. CASE Complete BY <1>6 DEF Complete
<1>7. CASE \E i \in Messages : Receive(i) BY <1>7 DEF Receive
<1>8. CASE Stop BY <1>8 DEF Stop, external
<1>9. CASE Vanish BY <1>9 DEF Vanish
<1>10. CASE TransportCancels BY <1>10 DEF TransportCancels, external
<1>11. CASE UNCHANGED vars BY <1>11 DEF vars
<1>12. QED
    BY <1>1, <1>2, <1>3, <1>4, <1>5, <1>6, <1>7, <1>8, <1>9, <1>10, <1>11
       DEF Next, InvokeStep, LoopStep

------------------------------------------------------------------------------
LEMMA StreamInvariant == Spec => []IInv
<1>1. Init => IInv
    <2> SUFFICES ASSUME Init PROVE IInv
        OBVIOUS
    <2>1. Len(received) = 0 /\ received \in Seq(Messages)
        BY DEF Init
    <2>2. 1 .. Len(received) = {}
        BY <2>1
    <2>3. TypeOK
        <3>1. helper \in [Messages -> {"none", "blocked", "sent", "closed"}]
            BY DEF Init
        <3>2. 0 \in 0 .. MaxMessages
            BY MaxMessagesAssumption
        <3>3. streaming \in BOOLEAN /\ ctxDone \in BOOLEAN /\ completed \in BOOLEAN
            BY Zenon DEF Init
        <3>4. QED BY <2>1, <3>1, <3>2, <3>3 DEF Init, TypeOK
    <2>4. Synchronous /\ OnePlace
        BY <2>2 DEF Init, Synchronous, OnePlace, Messages
    <2>5. HandedOver
        BY <2>1, <2>2 DEF Init, HandedOver, handed
    <2>6. QED BY <2>3, <2>4, <2>5 DEF IInv
<1>2. IInv /\ [Next]_vars => IInv'
    BY StreamTypes, StreamSynchronous, StreamHandedOver, StreamOnePlace DEF IInv
<1>3. QED BY <1>1, <1>2, PTL DEF Spec

(* Every variable of the stream keeps its type. *)
THEOREM StreamTypeCorrect == Spec => []TypeOK
<1>1. IInv => TypeOK BY DEF IInv
<1>2. QED BY <1>1, StreamInvariant, PTL

(* sendProgress stays synchronous until ctx is cancelled, however many      *)
(* messages a run sends, and no message is ever delivered twice.            *)
THEOREM MessagesInOrder == Spec => []InOrder
<1>1. IInv => InOrder
    BY MaxMessagesAssumption
       DEF IInv, InOrder, TypeOK, Synchronous, HandedOver, OnePlace, Messages
<1>2. QED BY <1>1, StreamInvariant, PTL

(* An invocation that was not cancelled loses no message of its run. *)
THEOREM NoMessageLost == Spec => []CompleteStream
<1>1. IInv => CompleteStream
    BY MaxMessagesAssumption
       DEF IInv, CompleteStream, TypeOK, Synchronous, HandedOver, Messages, handed
<1>2. QED BY <1>1, StreamInvariant, PTL
==============================================================================

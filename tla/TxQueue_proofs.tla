--------------------------- MODULE TxQueue_proofs ---------------------------
(***************************************************************************)
(* Proofs about TxQueue, for any messages, copies, workers and retry limit. *)
(***************************************************************************)
EXTENDS TxQueue, TLAPS

USE QueueAssumption DEF QueueAssumption

-----------------------------------------------------------------------------
(* Type correctness.                                                       *)

LEMMA InitTypeOK == Init => TypeOK
<1> SUFFICES ASSUME Init PROVE TypeOK
    OBVIOUS
<1> USE DEF Init, Places, Queues, Unacked, Settled
<1>1. /\ place \in [Copy -> Places]
      /\ body \in [Copy -> Msg \cup {NoMsg}]
      /\ attempt \in [Copy -> Nat]
      /\ expired \in [Copy -> SUBSET Queues]
      /\ owner \in [Copy -> Worker \cup {NoWorker}]
    OBVIOUS
<1>2. /\ worker \in [Worker -> {"running", "closing", "closed", "down"}]
      /\ orphans \in [Worker -> SUBSET (Copy \X Msg)]
    OBVIOUS
<1>3. disruptions \in 0..MaxDisruptions /\ failures \in [Msg -> 0..MaxRetries]
    OBVIOUS
<1>4. /\ \A c \in Copy : place[c] # "free" <=> body[c] # NoMsg
      /\ \A c \in Copy : place[c] \in Unacked <=> owner[c] # NoWorker
    OBVIOUS
<1> QED
    BY <1>1, <1>2, <1>3, <1>4 DEF TypeOK

LEMMA ProduceTypeOK == TypeOK /\ Produce => TypeOK'
<1> SUFFICES ASSUME TypeOK, Produce PROVE TypeOK'
    OBVIOUS
<1> USE DEF TypeOK, Places, Queues, Unacked, Settled, copyVars, processVars,
            history, Store, Route, Free, Disrupt
<1>1. ASSUME NEW m \in Msg, PublishTxIngest(m) PROVE TypeOK'
    BY <1>1 DEF PublishTxIngest
<1>2. ASSUME NEW m \in Msg, NEW c \in Copy, AcceptPublish(m, c) PROVE TypeOK'
    BY <1>2 DEF AcceptPublish
<1>3. CASE LosePublisher
    BY <1>3 DEF LosePublisher
<1>4. ASSUME NEW m \in Msg, NEW c \in Copy, ForeignPublish(m, c) PROVE TypeOK'
    BY <1>4 DEF ForeignPublish
<1> QED
    BY <1>1, <1>2, <1>3, <1>4 DEF Produce

LEMMA ConsumerTypeOK ==
    ASSUME TypeOK, NEW c \in Copy,
           \/ \E w \in Worker : HandleMessage(w, c)
           \/ HandlerReturns(c) \/ ApplyFrame(c) \/ Expire(c)
    PROVE  TypeOK'
<1> USE DEF TypeOK, Places, Queues, Unacked, Settled, copyVars, processVars,
            history
<1>1. ASSUME NEW w \in Worker, HandleMessage(w, c) PROVE TypeOK'
    <2>1. CASE RejectMalformed(w, c)
        BY <2>1 DEF RejectMalformed, Take, RecordRetry, CountFailure, RetryStep
    <2>2. CASE RejectExhausted(w, c)
        BY <2>2 DEF RejectExhausted, Take
    <2>3. CASE StartHandler(w, c)
        BY <2>3 DEF StartHandler, Take
    <2> QED
        BY <1>1, <2>1, <2>2, <2>3 DEF HandleMessage
<1>2. CASE HandlerReturns(c)
    <2>1. CASE HandlerSucceeds(c)
        BY <2>1 DEF HandlerSucceeds
    <2>2. ASSUME NEW hasBody \in BOOLEAN, HandlerFails(c, hasBody) PROVE TypeOK'
        BY <2>2 DEF HandlerFails, RecordRetry, CountFailure, RetryStep
    <2> QED
        BY <1>2, <2>1, <2>2 DEF HandlerReturns
<1>3. CASE ApplyFrame(c)
    <2>1. CASE ApplyAck(c)
        BY <2>1 DEF ApplyAck, Remove
    <2>2. CASE ApplyNack(c)
        BY <2>2 DEF ApplyNack, DeadLetter, DeadLetterExchange, DeadLetterKey, Route
    <2>3. ASSUME NEW d \in Copy, ApplyRetryPublish(c, d) PROVE TypeOK'
        BY <2>3 DEF ApplyRetryPublish, Free, NextAttempt, Route
    <2> QED
        BY <1>3, <2>1, <2>2, <2>3 DEF ApplyFrame
<1>4. CASE Expire(c)
    BY <1>4 DEF Expire, ExpireRetry, ExpireMain, ExpireIn, Remove, DeadLetter,
                DeadLetterExchange, DeadLetterKey, Route
<1> QED
    BY <1>1, <1>2, <1>3, <1>4

LEMMA PurgeTypeOK == ASSUME TypeOK, NEW q \in Queues, PurgeQueue(q) PROVE TypeOK'
BY DEF PurgeQueue, Disrupt, TypeOK, Places, Queues, Unacked, Settled, copyVars,
       processVars, history

LEMMA ProcessTypeOK == ASSUME TypeOK, NEW w \in Worker, Process(w) PROVE TypeOK'
<1> USE DEF TypeOK, Places, Queues, Unacked, Settled, copyVars, processVars,
            history, Disrupt, Requeue
<1>1. Awaiting(w) \subseteq Copy \X Msg
    BY DEF Awaiting, InFlight
<1>2. CASE Cancel(w)
    BY <1>2 DEF Cancel
<1>3. CASE Close(w)
    BY <1>1, <1>3 DEF Close
<1>4. CASE Disconnect(w)
    BY <1>1, <1>4 DEF Disconnect
<1>5. CASE Crash(w)
    BY <1>5 DEF Crash
<1>6. CASE Exit(w)
    BY <1>6 DEF Exit
<1>7. CASE Start(w)
    BY <1>7 DEF Start
<1>8. ASSUME NEW c \in Copy, NEW m \in Msg, NEW ok \in BOOLEAN, OrphanEnds(w, c, m, ok)
      PROVE  TypeOK'
    BY <1>8 DEF OrphanEnds
<1> QED
    BY <1>2, <1>3, <1>4, <1>5, <1>6, <1>7, <1>8 DEF Process

\* The model's variables keep their types, for every value of the constants.
THEOREM TypeCorrect == Spec => []TypeOK
<1>1. Init => TypeOK
    BY InitTypeOK
<1>2. TypeOK /\ [Next]_vars => TypeOK'
    <2> SUFFICES ASSUME TypeOK, [Next]_vars PROVE TypeOK'
        OBVIOUS
    <2>1. CASE UNCHANGED vars
        BY <2>1 DEF TypeOK, vars, copyVars, processVars, history
    <2> QED
        BY <2>1, ProduceTypeOK, ConsumerTypeOK, PurgeTypeOK, ProcessTypeOK DEF Next
<1> QED
    BY <1>1, <1>2, PTL DEF Spec
-----------------------------------------------------------------------------
(* The broker drops a message only where the main queue has a messageTtl:   *)
(* without one no copy has a death by expiry in the main queue, and that is  *)
(* the only queue a copy that expires elsewhere would close a cycle with.    *)

NoTtlNoDrop ==
    MessageTtl \/ (dropped = {} /\ \A c \in Copy : "main" \notin expired[c])

LEMMA ConsumerNoTtlNoDrop ==
    ASSUME TypeOK, NoTtlNoDrop, NEW c \in Copy,
           \/ \E w \in Worker : HandleMessage(w, c)
           \/ HandlerReturns(c) \/ ApplyFrame(c) \/ Expire(c)
    PROVE  NoTtlNoDrop'
<1> USE DEF TypeOK, NoTtlNoDrop, copyVars, processVars, history
<1>1. ASSUME NEW w \in Worker, HandleMessage(w, c) PROVE NoTtlNoDrop'
    BY <1>1 DEF HandleMessage, RejectMalformed, RejectExhausted, StartHandler, Take
<1>2. CASE HandlerReturns(c)
    BY <1>2 DEF HandlerReturns, HandlerSucceeds, HandlerFails
<1>3. CASE ApplyFrame(c)
    BY <1>3 DEF ApplyFrame, ApplyAck, ApplyNack, ApplyRetryPublish, Remove
<1>4. CASE Expire(c)
    BY <1>4 DEF Expire, ExpireRetry, ExpireMain, ExpireIn, Remove, DeadLetter,
                DeadLetterExchange, DeadLetterKey, Route
<1> QED
    BY <1>1, <1>2, <1>3, <1>4

LEMMA OthersNoTtlNoDrop ==
    ASSUME TypeOK, NoTtlNoDrop,
           \/ Produce
           \/ \E q \in Queues : PurgeQueue(q)
           \/ \E w \in Worker : Process(w)
           \/ UNCHANGED vars
    PROVE  NoTtlNoDrop'
<1> USE DEF TypeOK, NoTtlNoDrop, copyVars, processVars, history
<1>1. CASE Produce
    BY <1>1 DEF Produce, PublishTxIngest, AcceptPublish, LosePublisher,
                ForeignPublish, Store
<1>2. ASSUME NEW q \in Queues, PurgeQueue(q) PROVE NoTtlNoDrop'
    BY <1>2 DEF PurgeQueue
<1>3. ASSUME NEW w \in Worker, Process(w) PROVE NoTtlNoDrop'
    BY <1>3 DEF Process, Cancel, Close, Disconnect, Crash, Exit, Start, OrphanEnds
<1>4. CASE UNCHANGED vars
    BY <1>4 DEF vars
<1> QED
    BY <1>1, <1>2, <1>3, <1>4

LEMMA NoTtlNoDropInvariant == Spec => []NoTtlNoDrop
<1>1. Init => NoTtlNoDrop
    BY DEF Init, NoTtlNoDrop
<1>2. TypeOK /\ NoTtlNoDrop /\ [Next]_vars => NoTtlNoDrop'
    BY ConsumerNoTtlNoDrop, OthersNoTtlNoDrop DEF Next
<1> QED
    BY <1>1, <1>2, TypeCorrect, PTL DEF Spec
-----------------------------------------------------------------------------
(* No silent loss.  Inductive given the types and NoTtlNoDrop: a step that  *)
(* takes the last copy of a message out of circulation gives it an excuse   *)
(* or a handler's success in the same step, and the only copies a lost      *)
(* channel can take with it ("acking") are not what the property rests on.  *)

LEMMA ProduceNoSilentLoss ==
    ASSUME TypeOK, NoSilentLoss, Produce PROVE NoSilentLoss'
<1> USE DEF TypeOK, NoSilentLoss, Active, Excused, copyVars, processVars, history,
            Store, Route, Free
<1>1. ASSUME NEW m \in Msg, PublishTxIngest(m) PROVE NoSilentLoss'
    BY <1>1 DEF PublishTxIngest
<1>2. ASSUME NEW m \in Msg, NEW c \in Copy, AcceptPublish(m, c) PROVE NoSilentLoss'
    BY <1>2 DEF AcceptPublish
<1>3. CASE LosePublisher
    BY <1>3 DEF LosePublisher
<1>4. ASSUME NEW m \in Msg, NEW c \in Copy, ForeignPublish(m, c) PROVE NoSilentLoss'
    BY <1>4 DEF ForeignPublish
<1> QED
    BY <1>1, <1>2, <1>3, <1>4 DEF Produce

LEMMA ConsumerNoSilentLoss ==
    ASSUME TypeOK, NoTtlNoDrop, NoSilentLoss, NEW c \in Copy,
           \/ \E w \in Worker : HandleMessage(w, c)
           \/ HandlerReturns(c) \/ ApplyFrame(c) \/ Expire(c)
    PROVE  NoSilentLoss'
<1> USE DEF TypeOK, NoSilentLoss, Active, Excused, copyVars, processVars, history
<1>1. ASSUME NEW w \in Worker, HandleMessage(w, c) PROVE NoSilentLoss'
    <2>1. CASE RejectMalformed(w, c)
        BY <2>1 DEF RejectMalformed, Take, RecordRetry, RetryStep
    <2>2. CASE RejectExhausted(w, c)
        BY <2>2 DEF RejectExhausted, Take
    <2>3. CASE StartHandler(w, c)
        BY <2>3 DEF StartHandler, Take
    <2> QED
        BY <1>1, <2>1, <2>2, <2>3 DEF HandleMessage
<1>2. CASE HandlerReturns(c)
    <2>1. CASE HandlerSucceeds(c)
        BY <2>1 DEF HandlerSucceeds
    <2>2. ASSUME NEW hasBody \in BOOLEAN, HandlerFails(c, hasBody) PROVE NoSilentLoss'
        BY <2>2 DEF HandlerFails, RecordRetry, RetryStep
    <2> QED
        BY <1>2, <2>1, <2>2 DEF HandlerReturns
<1>3. CASE ApplyFrame(c)
    <2>1. CASE ApplyAck(c)
        BY <2>1 DEF ApplyAck, Remove
    <2>2. CASE ApplyNack(c)
        BY <2>2 DEF ApplyNack, DeadLetter, DeadLetterExchange, DeadLetterKey, Route
    <2>3. ASSUME NEW d \in Copy, ApplyRetryPublish(c, d) PROVE NoSilentLoss'
        BY <2>3 DEF ApplyRetryPublish, Free, Route
    <2> QED
        BY <1>3, <2>1, <2>2, <2>3 DEF ApplyFrame
<1>4. CASE Expire(c)
    <2>1. PICK q \in {"main", "retry"} : ExpireIn(c, q) /\ (q = "main" => MessageTtl)
        BY <1>4 DEF Expire, ExpireRetry, ExpireMain
    <2>2. DeadLetter(q) = IF q = "main" THEN "retry" ELSE "main"
        BY <2>1 DEF DeadLetter, DeadLetterExchange, DeadLetterKey, Route
    <2>3. CASE DeadLetter(q) \in expired[c]
        \* The cycle needs a death in the main queue, so there is a messageTtl.
        <3>1. MessageTtl
            BY <2>1, <2>2, <2>3 DEF NoTtlNoDrop
        <3> QED
            BY <2>1, <2>3, <3>1 DEF ExpireIn, Remove
    <2>4. CASE DeadLetter(q) \notin expired[c]
        BY <2>1, <2>2, <2>4 DEF ExpireIn
    <2> QED
        BY <2>3, <2>4
<1> QED
    BY <1>1, <1>2, <1>3, <1>4

LEMMA OthersNoSilentLoss ==
    ASSUME TypeOK, NoSilentLoss,
           \/ \E q \in Queues : PurgeQueue(q)
           \/ \E w \in Worker : Process(w)
           \/ UNCHANGED vars
    PROVE  NoSilentLoss'
<1> USE DEF TypeOK, NoSilentLoss, Active, Excused, copyVars, processVars, history
<1>1. ASSUME NEW q \in Queues, PurgeQueue(q) PROVE NoSilentLoss'
    BY <1>1 DEF PurgeQueue
<1>2. ASSUME NEW w \in Worker, Process(w) PROVE NoSilentLoss'
    <2>1. CASE Close(w) \/ Disconnect(w) \/ Crash(w)
        BY <2>1 DEF Close, Disconnect, Crash, Requeue
    <2>2. CASE Cancel(w) \/ Exit(w) \/ Start(w)
        BY <2>2 DEF Cancel, Exit, Start
    <2>3. ASSUME NEW c \in Copy, NEW m \in Msg, NEW ok \in BOOLEAN,
                 OrphanEnds(w, c, m, ok)
          PROVE  NoSilentLoss'
        BY <2>3 DEF OrphanEnds
    <2> QED
        BY <1>2, <2>1, <2>2, <2>3 DEF Process
<1>3. CASE UNCHANGED vars
    BY <1>3 DEF vars
<1> QED
    BY <1>1, <1>2, <1>3

\* No message a producer has sent disappears without an excuse, whatever dies
\* and whenever; without a messageTtl the broker's cycle rule is no excuse.
THEOREM NothingLostSilently == Spec => []NoSilentLoss
<1>1. Init => NoSilentLoss
    BY DEF Init, NoSilentLoss
<1>2. TypeOK /\ NoTtlNoDrop /\ NoSilentLoss /\ [Next]_vars => NoSilentLoss'
    BY ProduceNoSilentLoss, ConsumerNoSilentLoss, OthersNoSilentLoss DEF Next
<1> QED
    BY <1>1, <1>2, TypeCorrect, NoTtlNoDropInvariant, PTL DEF Spec
-----------------------------------------------------------------------------
(* The retry counter.  NoEarlyGiveUp alone is not inductive: it rests on no *)
(* copy reporting more attempts than its message has failed, which in turn  *)
(* must hold of the attempt a written, not yet applied publish carries.     *)

RetryInv == AttemptsAreFailures /\ NoEarlyGiveUp

LEMMA RetryInvFrame ==
    ASSUME TypeOK, RetryInv,
           UNCHANGED <<failures, gaveUp>>,
           \A c \in Copy :
               \/ body'[c] = NoMsg
               \/ /\ body'[c] = body[c]
                  /\ attempt'[c] = attempt[c]
                  /\ place'[c] = "publishing" => place[c] = "publishing"
               \/ body'[c] \in Msg /\ attempt'[c] <= FirstAttempt[body'[c]]
                                   /\ attempt'[c] \in Nat
                                   /\ place'[c] # "publishing"
    PROVE  RetryInv'
BY DEF TypeOK, RetryInv, AttemptsAreFailures, NoEarlyGiveUp, NextAttempt

LEMMA ConsumerRetryInv ==
    ASSUME TypeOK, RetryInv, NEW c \in Copy,
           \/ \E w \in Worker : HandleMessage(w, c)
           \/ HandlerReturns(c) \/ ApplyFrame(c) \/ Expire(c)
    PROVE  RetryInv'
<1> USE DEF copyVars, processVars, history
<1>1. ASSUME NEW w \in Worker, HandleMessage(w, c) PROVE RetryInv'
    <2> USE DEF TypeOK, RetryInv, AttemptsAreFailures, NoEarlyGiveUp
    <2>1. CASE RejectMalformed(w, c)
        BY <2>1 DEF RejectMalformed, Take, RecordRetry, CountFailure, RetryStep,
                    LastAttempt, NextAttempt
    <2>2. CASE RejectExhausted(w, c)
        BY <2>2 DEF RejectExhausted, Take, NextAttempt
    <2>3. CASE StartHandler(w, c)
        BY <2>3 DEF StartHandler, Take, NextAttempt
    <2> QED
        BY <1>1, <2>1, <2>2, <2>3 DEF HandleMessage
<1>2. CASE HandlerReturns(c)
    <2>1. CASE HandlerSucceeds(c)
        BY <2>1, RetryInvFrame DEF HandlerSucceeds, TypeOK
    <2>2. ASSUME NEW hasBody \in BOOLEAN, HandlerFails(c, hasBody) PROVE RetryInv'
        BY <2>2 DEF HandlerFails, RecordRetry, CountFailure, RetryStep, LastAttempt,
                    NextAttempt, TypeOK, RetryInv, AttemptsAreFailures, NoEarlyGiveUp
    <2> QED
        BY <1>2, <2>1, <2>2 DEF HandlerReturns
<1>3. CASE ApplyFrame(c)
    <2>1. CASE ApplyAck(c)
        BY <2>1, RetryInvFrame DEF ApplyAck, Remove, TypeOK
    <2>2. CASE ApplyNack(c)
        BY <2>2, RetryInvFrame DEF ApplyNack, DeadLetter, DeadLetterExchange,
                                   DeadLetterKey, Route, TypeOK
    <2>3. ASSUME NEW d \in Copy, ApplyRetryPublish(c, d) PROVE RetryInv'
        BY <2>3 DEF ApplyRetryPublish, Free, NextAttempt, Route, TypeOK, RetryInv,
                    AttemptsAreFailures, NoEarlyGiveUp
    <2> QED
        BY <1>3, <2>1, <2>2, <2>3 DEF ApplyFrame
<1>4. CASE Expire(c)
    BY <1>4, RetryInvFrame DEF Expire, ExpireRetry, ExpireMain, ExpireIn, Remove,
                               DeadLetter, DeadLetterExchange, DeadLetterKey, Route,
                               TypeOK
<1> QED
    BY <1>1, <1>2, <1>3, <1>4

LEMMA OthersRetryInv ==
    ASSUME TypeOK, RetryInv,
           \/ Produce
           \/ \E q \in Queues : PurgeQueue(q)
           \/ \E w \in Worker : Process(w)
           \/ UNCHANGED vars
    PROVE  RetryInv'
<1> USE RetryInvFrame DEF TypeOK, copyVars, processVars, history
<1>1. CASE Produce
    <2>1. ASSUME NEW m \in Msg, PublishTxIngest(m) PROVE RetryInv'
        BY <2>1 DEF PublishTxIngest
    <2>2. ASSUME NEW m \in Msg, NEW c \in Copy,
                 AcceptPublish(m, c) \/ ForeignPublish(m, c)
          PROVE  RetryInv'
        BY <2>2 DEF AcceptPublish, ForeignPublish, Store, Route
    <2>3. CASE LosePublisher
        BY <2>3 DEF LosePublisher
    <2> QED
        BY <1>1, <2>1, <2>2, <2>3 DEF Produce
<1>2. ASSUME NEW q \in Queues, PurgeQueue(q) PROVE RetryInv'
    BY <1>2 DEF PurgeQueue
<1>3. ASSUME NEW w \in Worker, Process(w) PROVE RetryInv'
    <2>1. CASE Close(w) \/ Disconnect(w) \/ Crash(w)
        BY <2>1 DEF Close, Disconnect, Crash, Requeue
    <2>2. CASE Cancel(w) \/ Exit(w) \/ Start(w)
        BY <2>2 DEF Cancel, Exit, Start
    <2>3. ASSUME NEW c \in Copy, NEW m \in Msg, NEW ok \in BOOLEAN,
                 OrphanEnds(w, c, m, ok)
          PROVE  RetryInv'
        BY <2>3 DEF OrphanEnds
    <2> QED
        BY <1>3, <2>1, <2>2, <2>3 DEF Process
<1>4. CASE UNCHANGED vars
    BY <1>4 DEF vars
<1> QED
    BY <1>1, <1>2, <1>3, <1>4

\* The consumer gives up on a message only after maxRetries failed handler
\* calls, along every path of retries, redeliveries and duplicates.
THEOREM GivesUpOnlyWhenExhausted == Spec => [](AttemptsAreFailures /\ NoEarlyGiveUp)
<1>1. Init => RetryInv
    BY DEF Init, RetryInv, AttemptsAreFailures, NoEarlyGiveUp
<1>2. TypeOK /\ RetryInv /\ [Next]_vars => RetryInv'
    BY ConsumerRetryInv, OthersRetryInv DEF Next
<1>3. RetryInv <=> AttemptsAreFailures /\ NoEarlyGiveUp
    BY DEF RetryInv
<1> QED
    BY <1>1, <1>2, <1>3, TypeCorrect, PTL DEF Spec

\* The attempt header of a copy counts failures of its message and nothing else:
\* a requeue, a lost acknowledgement or a duplicate uses up no attempt.
THEOREM CountsOnlyFailures == Spec => []AttemptsAreFailures
BY GivesUpOnlyWhenExhausted, PTL

-----------------------------------------------------------------------------
(* Where messages come from: whatever is stored, running or handled was     *)
(* sent, and what is stored has left the publisher's buffer.                *)

Sends ==
    /\ outbox \cup handled \subseteq sent
    /\ \A c \in Copy : body[c] # NoMsg => body[c] \in sent \ outbox
    /\ \A w \in Worker : \A x \in orphans[w] : x[2] \in sent

LEMMA ConsumerSends ==
    ASSUME TypeOK, Sends, NEW c \in Copy,
           \/ \E w \in Worker : HandleMessage(w, c)
           \/ HandlerReturns(c) \/ ApplyFrame(c) \/ Expire(c)
    PROVE  Sends'
<1> USE DEF TypeOK, Sends, copyVars, processVars, history
<1>1. ASSUME NEW w \in Worker, HandleMessage(w, c) PROVE Sends'
    BY <1>1 DEF HandleMessage, RejectMalformed, RejectExhausted, StartHandler, Take
<1>2. CASE HandlerReturns(c)
    BY <1>2 DEF HandlerReturns, HandlerSucceeds, HandlerFails
<1>3. CASE ApplyFrame(c)
    <2>1. CASE ApplyAck(c) \/ ApplyNack(c)
        BY <2>1 DEF ApplyAck, ApplyNack, Remove
    <2>2. ASSUME NEW d \in Copy, ApplyRetryPublish(c, d) PROVE Sends'
        BY <2>2 DEF ApplyRetryPublish, Free
    <2> QED
        BY <1>3, <2>1, <2>2 DEF ApplyFrame
<1>4. CASE Expire(c)
    BY <1>4 DEF Expire, ExpireRetry, ExpireMain, ExpireIn, Remove
<1> QED
    BY <1>1, <1>2, <1>3, <1>4

LEMMA OthersSends ==
    ASSUME TypeOK, Sends,
           \/ Produce
           \/ \E q \in Queues : PurgeQueue(q)
           \/ \E w \in Worker : Process(w)
           \/ UNCHANGED vars
    PROVE  Sends'
<1> USE DEF TypeOK, Sends, copyVars, processVars, history
<1>1. CASE Produce
    <2>1. ASSUME NEW m \in Msg, PublishTxIngest(m) PROVE Sends'
        BY <2>1 DEF PublishTxIngest
    <2>2. ASSUME NEW m \in Msg, NEW c \in Copy, AcceptPublish(m, c) PROVE Sends'
        BY <2>2 DEF AcceptPublish, Store
    <2>3. ASSUME NEW m \in Msg, NEW c \in Copy, ForeignPublish(m, c) PROVE Sends'
        BY <2>3 DEF ForeignPublish, Store
    <2>4. CASE LosePublisher
        BY <2>4 DEF LosePublisher
    <2> QED
        BY <1>1, <2>1, <2>2, <2>3, <2>4 DEF Produce
<1>2. ASSUME NEW q \in Queues, PurgeQueue(q) PROVE Sends'
    BY <1>2 DEF PurgeQueue
<1>3. ASSUME NEW w \in Worker, Process(w) PROVE Sends'
    <2>1. CASE Close(w) \/ Disconnect(w)
        <3>1. \A x \in Awaiting(w) : x[2] \in sent
            BY DEF Awaiting, InFlight, Unacked, Settled, Places, Queues
        <3> QED
            BY <2>1, <3>1 DEF Close, Disconnect, Requeue
    <2>2. CASE Crash(w)
        BY <2>2 DEF Crash, Requeue
    <2>3. CASE Cancel(w) \/ Exit(w) \/ Start(w)
        BY <2>3 DEF Cancel, Exit, Start
    <2>4. ASSUME NEW c \in Copy, NEW m \in Msg, NEW ok \in BOOLEAN,
                 OrphanEnds(w, c, m, ok)
          PROVE  Sends'
        BY <2>4 DEF OrphanEnds
    <2> QED
        BY <1>3, <2>1, <2>2, <2>3, <2>4 DEF Process
<1>4. CASE UNCHANGED vars
    BY <1>4 DEF vars
<1> QED
    BY <1>1, <1>2, <1>3, <1>4

LEMMA SendsInvariant == Spec => []Sends
<1>1. Init => Sends
    BY DEF Init, Sends
<1>2. TypeOK /\ Sends /\ [Next]_vars => Sends'
    BY ConsumerSends, OthersSends DEF Next
<1> QED
    BY <1>1, <1>2, TypeCorrect, PTL DEF Spec
-----------------------------------------------------------------------------
(* One live copy per message while no channel is lost.                     *)

LEMMA ConsumerOneCopy ==
    ASSUME TypeOK, Sends, OneCopyUnlessAbrupt, NEW c \in Copy,
           \/ \E w \in Worker : HandleMessage(w, c)
           \/ HandlerReturns(c) \/ ApplyFrame(c) \/ Expire(c)
    PROVE  OneCopyUnlessAbrupt'
<1> USE DEF TypeOK, OneCopyUnlessAbrupt, Active, copyVars, processVars, history
<1>1. ASSUME NEW w \in Worker, HandleMessage(w, c) PROVE OneCopyUnlessAbrupt'
    BY <1>1 DEF HandleMessage, RejectMalformed, RejectExhausted, StartHandler, Take,
                RetryStep
<1>2. CASE HandlerReturns(c)
    BY <1>2 DEF HandlerReturns, HandlerSucceeds, HandlerFails, RetryStep
<1>3. CASE ApplyFrame(c)
    <2>1. CASE ApplyAck(c)
        BY <2>1 DEF ApplyAck, Remove
    <2>2. CASE ApplyNack(c)
        BY <2>2 DEF ApplyNack, DeadLetter, DeadLetterExchange, DeadLetterKey, Route
    <2>3. ASSUME NEW d \in Copy, ApplyRetryPublish(c, d) PROVE OneCopyUnlessAbrupt'
        BY <2>3 DEF ApplyRetryPublish, Free, Route
    <2> QED
        BY <1>3, <2>1, <2>2, <2>3 DEF ApplyFrame
<1>4. CASE Expire(c)
    BY <1>4 DEF Expire, ExpireRetry, ExpireMain, ExpireIn, Remove, DeadLetter,
                DeadLetterExchange, DeadLetterKey, Route
<1> QED
    BY <1>1, <1>2, <1>3, <1>4

LEMMA OthersOneCopy ==
    ASSUME TypeOK, Sends, OneCopyUnlessAbrupt,
           \/ Produce
           \/ \E q \in Queues : PurgeQueue(q)
           \/ \E w \in Worker : Process(w)
           \/ UNCHANGED vars
    PROVE  OneCopyUnlessAbrupt'
<1> USE DEF TypeOK, OneCopyUnlessAbrupt, Active, copyVars, processVars, history
<1>1. CASE Produce
    <2>1. CASE (\E m \in Msg : PublishTxIngest(m)) \/ LosePublisher
        BY <2>1 DEF PublishTxIngest, LosePublisher
    <2>2. ASSUME NEW m \in Msg, NEW c \in Copy,
                 AcceptPublish(m, c) \/ ForeignPublish(m, c)
          PROVE  OneCopyUnlessAbrupt'
        \* The message has no other copy yet.
        BY <2>2 DEF AcceptPublish, ForeignPublish, Store, Route, Free, Sends
    <2> QED
        BY <1>1, <2>1, <2>2 DEF Produce
<1>2. ASSUME NEW q \in Queues, PurgeQueue(q) PROVE OneCopyUnlessAbrupt'
    BY <1>2 DEF PurgeQueue
<1>3. ASSUME NEW w \in Worker, Process(w) PROVE OneCopyUnlessAbrupt'
    <2>1. CASE Close(w)
        \* Its frames are flushed: what is requeued was live already.
        BY <2>1 DEF Close, Requeue, InFlight, Settled, Unacked
    <2>2. CASE Disconnect(w) \/ Crash(w)
        BY <2>2 DEF Disconnect, Crash
    <2>3. CASE Cancel(w) \/ Exit(w) \/ Start(w)
        BY <2>3 DEF Cancel, Exit, Start
    <2>4. ASSUME NEW c \in Copy, NEW m \in Msg, NEW ok \in BOOLEAN,
                 OrphanEnds(w, c, m, ok)
          PROVE  OneCopyUnlessAbrupt'
        BY <2>4 DEF OrphanEnds
    <2> QED
        BY <1>3, <2>1, <2>2, <2>3, <2>4 DEF Process
<1>4. CASE UNCHANGED vars
    BY <1>4 DEF vars
<1> QED
    BY <1>1, <1>2, <1>3, <1>4

\* Retries and orderly shutdowns never leave two live copies of a message.
THEOREM OnlyLostChannelsDuplicate == Spec => []OneCopyUnlessAbrupt
<1>1. Init => OneCopyUnlessAbrupt
    BY DEF Init, OneCopyUnlessAbrupt, Active
<1>2. TypeOK /\ Sends /\ OneCopyUnlessAbrupt /\ [Next]_vars => OneCopyUnlessAbrupt'
    BY ConsumerOneCopy, OthersOneCopy DEF Next
<1> QED
    BY <1>1, <1>2, TypeCorrect, SendsInvariant, PTL DEF Spec

-----------------------------------------------------------------------------
(* TxQueue implements Delivery.  Histories only grow; a message with no     *)
(* copy, no running handler and no place in the buffer never gets one back;  *)
(* with NoSilentLoss after the step that is all Delivery asks for.          *)

Gone(m) == m \in sent /\ m \notin outbox /\ ~Held(m) /\ ~Orphaned(m)

LEMMA HistoryGrows ==
    [Next]_vars => /\ sent \subseteq sent' /\ handled \subseteq handled'
                   /\ Excused \subseteq Excused'
<1> USE DEF Excused, copyVars, processVars, history
<1>1. Produce => sent \subseteq sent' /\ handled \subseteq handled' /\ Excused \subseteq Excused'
    BY DEF Produce, PublishTxIngest, AcceptPublish, LosePublisher, ForeignPublish
<1>2. ASSUME NEW c \in Copy,
             \/ \E w \in Worker : HandleMessage(w, c)
             \/ HandlerReturns(c) \/ ApplyFrame(c) \/ Expire(c)
      PROVE  sent \subseteq sent' /\ handled \subseteq handled' /\ Excused \subseteq Excused'
    BY <1>2 DEF HandleMessage, RejectMalformed, RejectExhausted, StartHandler, Take,
                RecordRetry, HandlerReturns, HandlerSucceeds, HandlerFails,
                ApplyFrame, ApplyAck, ApplyNack, ApplyRetryPublish, Remove,
                Expire, ExpireRetry, ExpireMain, ExpireIn
<1>3. ASSUME \/ \E q \in Queues : PurgeQueue(q)
             \/ \E w \in Worker : Process(w)
             \/ UNCHANGED vars
      PROVE  sent \subseteq sent' /\ handled \subseteq handled' /\ Excused \subseteq Excused'
    BY <1>3 DEF PurgeQueue, Process, Cancel, Close, Disconnect, Crash, Exit, Start,
                OrphanEnds, vars
<1> QED
    BY <1>1, <1>2, <1>3 DEF Next

LEMMA GoneForGood ==
    ASSUME TypeOK, [Next]_vars, NEW m \in Msg, Gone(m)
    PROVE  Gone(m)' /\ (m \in handled' => m \in handled)
<1> USE DEF TypeOK, Gone, Held, Orphaned, copyVars, processVars, history
<1> DEFINE Claim == Gone(m)' /\ (m \in handled' => m \in handled)
<1> SUFFICES Claim
    OBVIOUS
<1> HIDE DEF Claim
<1>1. CASE Produce
    <2>1. ASSUME NEW n \in Msg, PublishTxIngest(n) PROVE Claim
        BY <2>1 DEF Claim, PublishTxIngest
    <2>2. ASSUME NEW n \in Msg, NEW c \in Copy, AcceptPublish(n, c) PROVE Claim
        BY <2>2 DEF Claim, AcceptPublish, Store
    <2>3. CASE LosePublisher
        BY <2>3 DEF Claim, LosePublisher
    <2>4. ASSUME NEW n \in Msg, NEW c \in Copy, ForeignPublish(n, c) PROVE Claim
        BY <2>4 DEF Claim, ForeignPublish, Store
    <2> QED
        BY <1>1, <2>1, <2>2, <2>3, <2>4 DEF Produce
<1>2. ASSUME NEW c \in Copy, NEW w \in Worker, HandleMessage(w, c) PROVE Claim
    BY <1>2 DEF Claim, HandleMessage, RejectMalformed, RejectExhausted, StartHandler, Take
<1>3. ASSUME NEW c \in Copy, HandlerReturns(c) PROVE Claim
    BY <1>3 DEF Claim, HandlerReturns, HandlerSucceeds, HandlerFails
<1>4. ASSUME NEW c \in Copy, ApplyFrame(c) PROVE Claim
    <2>1. CASE ApplyAck(c) \/ ApplyNack(c)
        BY <2>1 DEF Claim, ApplyAck, ApplyNack, Remove
    <2>2. ASSUME NEW d \in Copy, ApplyRetryPublish(c, d) PROVE Claim
        BY <2>2 DEF Claim, ApplyRetryPublish, Free
    <2> QED
        BY <1>4, <2>1, <2>2 DEF ApplyFrame
<1>5. ASSUME NEW c \in Copy, Expire(c) PROVE Claim
    BY <1>5 DEF Claim, Expire, ExpireRetry, ExpireMain, ExpireIn, Remove
<1>6. ASSUME NEW q \in Queues, PurgeQueue(q) PROVE Claim
    BY <1>6 DEF Claim, PurgeQueue
<1>7. ASSUME NEW w \in Worker, Process(w) PROVE Claim
    <2>1. CASE Close(w) \/ Disconnect(w) \/ Crash(w)
        <3>1. \A c \in Copy : owner[c] = w => place[c] # "free"
            BY DEF Unacked, Settled
        <3>2. \A c \in Copy : <<c, m>> \notin Awaiting(w)
            BY <3>1 DEF Awaiting, InFlight
        <3>3. Requeue(w) /\ UNCHANGED body => ~Held(m)'
            BY <3>1 DEF Requeue
        <3>4. \A v \in Worker : orphans'[v] \in {orphans[v], Awaiting(w), {}}
            BY <2>1 DEF Close, Disconnect, Crash
        <3>5. ~Orphaned(m)'
            BY <3>2, <3>4
        <3>6. Requeue(w) /\ UNCHANGED <<body, outbox, sent, handled>>
            BY <2>1 DEF Close, Disconnect, Crash
        <3> QED
            BY <3>3, <3>5, <3>6 DEF Claim
    <2>2. CASE Cancel(w) \/ Exit(w) \/ Start(w)
        BY <2>2 DEF Claim, Cancel, Exit, Start
    <2>3. ASSUME NEW c \in Copy, NEW n \in Msg, NEW ok \in BOOLEAN,
                 OrphanEnds(w, c, n, ok)
          PROVE  Claim
        BY <2>3 DEF Claim, OrphanEnds
    <2> QED
        BY <1>7, <2>1, <2>2, <2>3 DEF Process
<1>8. CASE UNCHANGED vars
    BY <1>8 DEF Claim, vars
<1> QED
    BY <1>1, <1>2, <1>3, <1>4, <1>5, <1>6, <1>7, <1>8 DEF Next

LEMMA SentIsOwed ==
    ASSUME TypeOK, Sends, [Next]_vars, NEW m \in Msg, m \notin sent, m \in sent'
    PROVE  m \notin handled' /\ (m \in outbox' \/ Held(m)')
<1> USE DEF TypeOK, Sends, Held, copyVars, processVars, history
<1>1. Produce
    BY DEF Next, HandleMessage, RejectMalformed, RejectExhausted, StartHandler, Take,
           HandlerReturns, HandlerSucceeds, HandlerFails, ApplyFrame, ApplyAck,
           ApplyNack, ApplyRetryPublish, Expire, ExpireRetry, ExpireMain, ExpireIn,
           PurgeQueue, Process, Cancel, Close, Disconnect, Crash, Exit, Start, OrphanEnds, vars
<1> QED
    BY <1>1 DEF Produce, PublishTxIngest, AcceptPublish, LosePublisher,
                ForeignPublish, Store, Route, Free

\* The queue implements Delivery: every message that is sent is owed until it
\* is done, or lost with an excuse, and both are final.
THEOREM QueueIsAtLeastOnce == Spec => AtLeastOnce
<1>1. Init => D!Init
    BY DEF Init, D!Init, StatusOf, Excused
<1>2. ASSUME TypeOK, Sends, NoSilentLoss', [Next]_vars
      PROVE  D!Next
    <2>1. Excused \subseteq Excused'
        BY <1>2, HistoryGrows
    <2>2. ASSUME NEW m \in Msg
          PROVE  \/ StatusOf(m)' = StatusOf(m)
                 \/ StatusOf(m) = "new"  /\ StatusOf(m)' = "owed"
                 \/ StatusOf(m) = "owed" /\ StatusOf(m)' = "done"
                 \/ StatusOf(m) = "owed" /\ StatusOf(m)' = "lost" /\ m \in Excused'
        <3>1. CASE m \notin sent
            BY <1>2, <3>1, SentIsOwed DEF StatusOf
        <3>2. CASE m \in handled
            BY <1>2, <3>2, HistoryGrows DEF StatusOf, Sends
        <3>3. CASE m \in sent /\ m \notin handled /\ Gone(m)
            BY <1>2, <3>3, GoneForGood DEF StatusOf, Gone
        <3>4. CASE m \in sent /\ m \notin handled /\ ~Gone(m)
            <4>1. StatusOf(m) = "owed"
                BY <3>4 DEF StatusOf, Gone
            <4>2. m \in sent'
                BY <1>2, <3>4, HistoryGrows
            <4>3. m \in handled' \cup outbox' \cup Excused' \/ Held(m)'
                BY <1>2, <4>2 DEF NoSilentLoss, Active, Held
            <4> QED
                BY <4>1, <4>2, <4>3 DEF StatusOf
        <3> QED
            BY <3>1, <3>2, <3>3, <3>4
    <2> QED
        BY <2>1, <2>2 DEF D!Next, D!Allowed
<1> QED
    BY <1>1, <1>2, TypeCorrect, SendsInvariant, NothingLostSilently, PTL
    DEF Spec, AtLeastOnce, D!Spec
=============================================================================

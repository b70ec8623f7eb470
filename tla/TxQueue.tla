------------------------------- MODULE TxQueue -------------------------------
(***************************************************************************)
(* packages/rabbitmq: the publisher, the queue topology (main queue, retry *)
(* queue with a TTL, dead letter queue) and the consumer with its retry     *)
(* protocol, plus the start, shutdown and loss of the worker process that   *)
(* runs the consumer (apps/worker/src/index.ts).                            *)
(*                                                                         *)
(* A message is one call of the publisher; a copy is one stored instance of *)
(* it in the broker.  A retry publishes a new copy and then acknowledges    *)
(* the old one; both are frames of one channel, which the broker applies in *)
(* the order they were written but not atomically, so a copy the consumer   *)
(* has settled passes through the places "publishing", "acking", "nacking" *)
(* until the broker has applied the frame.  Queue order is abstracted away: *)
(* requeues and several workers reorder messages anyway.                    *)
(***************************************************************************)
EXTENDS Naturals, FiniteSets

CONSTANTS
    Msg,             \* calls of a producer
    Malformed,       \* those whose body fails JSON.parse or the zod schema
    FirstAttempt,    \* FirstAttempt[m]: the attempt header m is sent with
    Copy,            \* identities for stored copies
    Worker,          \* worker processes
    NoMsg, NoWorker, \* "nothing here"
    MaxRetries,      \* QueueConfig.maxRetries
    PrefetchCount,   \* ConsumerConfig.prefetchCount
    MessageTtl,      \* does the main queue have QueueConfig.messageTtl?
    MaxDisruptions   \* bound: shutdowns, crashes, lost connections, purges

ASSUME QueueAssumption ==
    /\ Malformed \subseteq Msg
    /\ FirstAttempt \in [Msg -> Nat]
    /\ NoMsg \notin Msg
    /\ NoWorker \notin Worker
    /\ MaxRetries \in Nat \ {0}
    /\ PrefetchCount \in Nat \ {0}
    /\ MessageTtl \in BOOLEAN
    /\ MaxDisruptions \in Nat

VARIABLES
    place,        \* place[c]: where the copy c is
    body,         \* body[c]: the message it carries
    attempt,      \* attempt[c]: its attempt header
    expired,      \* expired[c]: the queues its x-death header says it has
                  \*   expired in since it was last rejected
    owner,        \* owner[c]: the worker it is delivered to and unacked at
    worker,       \* worker[w]: life cycle of the process
    orphans,      \* orphans[w]: copies, with their messages, whose handler
                  \*   still runs in w although its channel is gone
    outbox,       \* messages in the publisher's buffer, not yet at the broker
    disruptions,  \* how many disruptions there have been
    \* history, for the properties
    sent,         \* messages a producer has sent
    handled,      \* messages a handler call ended well for
    failures,     \* failures[m]: failed handler calls, counted up to MaxRetries
    gaveUp,       \* messages the consumer logged "sending to DLQ" for
    discarded,    \* messages acknowledged after a throw, without a new copy
    unsent,       \* messages lost with the publisher's buffer
    purged,       \* messages an operator purged
    dropped,      \* messages the broker dropped in a cycle of expiries
    abrupt        \* has a worker lost its channel without closing it?

copyVars    == <<place, body, attempt, expired, owner>>
processVars == <<worker, orphans>>
history     == <<handled, failures, gaveUp, discarded, purged, dropped>>
vars == <<copyVars, processVars, outbox, disruptions, sent, history, unsent,
          abrupt>>

Queues  == {"main", "retry", "dlq"}
Settled == {"publishing", "acking", "nacking"}    \* frame written, not applied
Unacked == {"handling"} \cup Settled
Places  == {"free"} \cup Queues \cup Unacked

-----------------------------------------------------------------------------
(* Topology: setupQueues binds three queues to two topic exchanges.  The   *)
(* routing key is abstracted to its first word, which is what the binding   *)
(* patterns 'retry.#' and 'dlq.#' look at.                                  *)

Route(exchange, key) ==
    CASE exchange = "dlx"  /\ key = "retry" -> "retry"
      [] exchange = "dlx"  /\ key = "dlq"   -> "dlq"
      [] exchange = "main" /\ key = "main"  -> "main"

\* x-dead-letter-routing-key of the main and the retry queue.
DeadLetterKey(q) == IF q = "main" THEN "retry" ELSE "main"

\* x-dead-letter-exchange of the main and the retry queue.
DeadLetterExchange(q) == IF q = "main" THEN "dlx" ELSE "main"

\* Where a message rejected by, or expired in, the queue q goes.
DeadLetter(q) == Route(DeadLetterExchange(q), DeadLetterKey(q))

-----------------------------------------------------------------------------
Free(c)   == place[c] = "free"
Held(m)   == \E c \in Copy : body[c] = m /\ place[c] # "free"

\* A copy that can still lead to a handler call.
Active(c) == place[c] \notin {"free", "acking"}

InFlight(w) == {c \in Copy : owner[c] = w}

Disrupt == disruptions < MaxDisruptions /\ disruptions' = disruptions + 1

Init ==
    /\ place = [c \in Copy |-> "free"]
    /\ body = [c \in Copy |-> NoMsg]
    /\ attempt = [c \in Copy |-> 0]
    /\ expired = [c \in Copy |-> {}]
    /\ owner = [c \in Copy |-> NoWorker]
    /\ worker = [w \in Worker |-> "running"]
    /\ orphans = [w \in Worker |-> {}]
    /\ outbox = {}
    /\ disruptions = 0
    /\ sent = {}
    /\ handled = {}
    /\ failures = [m \in Msg |-> 0]
    /\ gaveUp = {}
    /\ discarded = {}
    /\ unsent = {}
    /\ purged = {}
    /\ dropped = {}
    /\ abrupt = FALSE

\* The broker stores the message m as the fresh copy c in the queue q.
Store(c, m, a, q) ==
    /\ place' = [place EXCEPT ![c] = q]
    /\ body' = [body EXCEPT ![c] = m]
    /\ attempt' = [attempt EXCEPT ![c] = a]
    /\ expired' = [expired EXCEPT ![c] = {}]

-----------------------------------------------------------------------------
(* Producers.                                                              *)

\* publishTxIngest: validate, then write to the channel.  The promise
\* resolves when the message is in the client's buffer.
PublishTxIngest(m) ==
    /\ m \notin Malformed
    /\ m \notin sent
    /\ sent' = sent \cup {m}
    /\ outbox' = outbox \cup {m}
    /\ UNCHANGED <<copyVars, processVars, disruptions, history, unsent, abrupt>>

\* The broker takes a buffered message and routes it to the main queue.
AcceptPublish(m, c) ==
    /\ m \in outbox
    /\ Free(c)
    /\ outbox' = outbox \ {m}
    /\ Store(c, m, FirstAttempt[m], Route("main", "main"))
    /\ UNCHANGED <<owner, processVars, disruptions, sent, history, unsent, abrupt>>

\* The publisher's connection fails.  Nobody awaits the confirms, so nothing
\* knows what was in the buffer.
LosePublisher ==
    /\ outbox # {}
    /\ Disrupt
    /\ unsent' = unsent \cup outbox
    /\ outbox' = {}
    /\ UNCHANGED <<copyVars, processVars, sent, history, abrupt>>

\* A producer other than the publisher: only it can send a malformed body.
ForeignPublish(m, c) ==
    /\ m \in Malformed
    /\ m \notin sent
    /\ Free(c)
    /\ sent' = sent \cup {m}
    /\ Store(c, m, FirstAttempt[m], Route("main", "main"))
    /\ UNCHANGED <<owner, processVars, outbox, disruptions, history, unsent, abrupt>>

-----------------------------------------------------------------------------
(* The consumer: handleMessage and retryMessage.  Everything up to         *)
(* `await handler(...)`, and everything after it, runs in one turn of the   *)
(* event loop.                                                             *)

CountFailure(m) ==
    failures' = [failures EXCEPT ![m] = IF @ < MaxRetries THEN @ + 1 ELSE @]

NextAttemptSame(c) == attempt[c]        \* mutant: the header is not incremented

\* newAttempt of retryMessage, and the attempt of the copy it publishes.
NextAttempt(c) == attempt[c] + 1

LastAttemptEarly(c) == NextAttempt(c) + 1 >= MaxRetries    \* mutant: off by one

\* retryMessage's test for "Max retries reached, sending to DLQ".
LastAttempt(c) == NextAttempt(c) >= MaxRetries

\* Mutant: the new copy is never published.
RetryStepAckOnly(c, hasBody) == IF LastAttempt(c) THEN "nacking" ELSE "acking"

\* The frames retryMessage writes: a nack, or a publish followed by an ack,
\* or (no txMessage: the handler threw or the body is malformed) an ack.
RetryStep(c, hasBody) ==
    CASE LastAttempt(c)               -> "nacking"
      [] ~LastAttempt(c) /\ hasBody   -> "publishing"
      [] ~LastAttempt(c) /\ ~hasBody  -> "acking"

\* What retryMessage means for the message, for the history variables.
RecordRetry(c, hasBody) ==
    /\ CountFailure(body[c])
    /\ gaveUp' = IF LastAttempt(c) THEN gaveUp \cup {body[c]} ELSE gaveUp
    /\ discarded' = IF LastAttempt(c) \/ hasBody THEN discarded
                                                 ELSE discarded \cup {body[c]}

\* A worker takes the copy c while it has fewer than prefetchCount unacked.
Take(w, c) ==
    /\ worker[w] = "running"
    /\ place[c] = "main"
    /\ Cardinality(InFlight(w)) < PrefetchCount
    /\ owner' = [owner EXCEPT ![c] = w]
    /\ UNCHANGED <<body, attempt, expired, processVars, outbox, disruptions, sent,
                   unsent, abrupt, handled, purged, dropped>>

\* The body does not parse: the catch block retries without a txMessage.
RejectMalformed(w, c) ==
    /\ Take(w, c)
    /\ body[c] \in Malformed
    /\ place' = [place EXCEPT ![c] = RetryStep(c, FALSE)]
    /\ RecordRetry(c, FALSE)

\* "Max retries exceeded, sending to DLQ": nack before any handler call.
RejectExhausted(w, c) ==
    /\ Take(w, c)
    /\ body[c] \notin Malformed
    /\ attempt[c] >= MaxRetries
    /\ place' = [place EXCEPT ![c] = "nacking"]
    /\ gaveUp' = gaveUp \cup {body[c]}
    /\ UNCHANGED <<failures, discarded>>

\* The handler is called and awaited.
StartHandler(w, c) ==
    /\ Take(w, c)
    /\ body[c] \notin Malformed
    /\ attempt[c] < MaxRetries
    /\ place' = [place EXCEPT ![c] = "handling"]
    /\ UNCHANGED <<failures, gaveUp, discarded>>

\* The handler's result is not false: ack.
HandlerSucceeds(c) ==
    /\ place[c] = "handling"
    /\ place' = [place EXCEPT ![c] = "acking"]
    /\ handled' = handled \cup {body[c]}
    /\ UNCHANGED <<body, attempt, expired, owner, processVars, outbox, disruptions,
                   sent, unsent, abrupt, failures, gaveUp, discarded, purged,
                   dropped>>

\* The handler's result is false (hasBody) or it throws (~hasBody).
HandlerFails(c, hasBody) ==
    /\ place[c] = "handling"
    /\ place' = [place EXCEPT ![c] = RetryStep(c, hasBody)]
    /\ RecordRetry(c, hasBody)
    /\ UNCHANGED <<body, attempt, expired, owner, processVars, outbox, disruptions,
                   sent, unsent, abrupt, handled, purged, dropped>>

-----------------------------------------------------------------------------
(* The broker applies the frames a worker has written.                     *)

\* It forgets the copy.
Remove(c) ==
    /\ place' = [place EXCEPT ![c] = "free"]
    /\ body' = [body EXCEPT ![c] = NoMsg]
    /\ attempt' = [attempt EXCEPT ![c] = 0]
    /\ expired' = [expired EXCEPT ![c] = {}]
    /\ owner' = [owner EXCEPT ![c] = NoWorker]

ApplyAck(c) ==
    /\ place[c] = "acking"
    /\ Remove(c)
    /\ UNCHANGED <<processVars, outbox, disruptions, sent, history, unsent, abrupt>>

\* The new copy d reaches the retry queue with the headers of c, x-death among
\* them; the ack of c is the next frame.
ApplyRetryPublish(c, d) ==
    /\ place[c] = "publishing"
    /\ Free(d)
    /\ place' = [place EXCEPT ![c] = "acking", ![d] = Route("dlx", "retry")]
    /\ body' = [body EXCEPT ![d] = body[c]]
    /\ attempt' = [attempt EXCEPT ![d] = NextAttempt(c)]
    /\ expired' = [expired EXCEPT ![d] = expired[c]]
    /\ UNCHANGED <<owner, processVars, outbox, disruptions, sent, history, unsent,
                   abrupt>>

\* Mutant: a nacked copy still counts against the prefetch of its worker.
ApplyNackKeepsOwner(c) ==
    /\ place[c] = "nacking"
    /\ place' = [place EXCEPT ![c] = DeadLetter("main")]
    /\ expired' = [expired EXCEPT ![c] = {}]
    /\ UNCHANGED <<body, attempt, owner, processVars, outbox, disruptions, sent,
                   history, unsent, abrupt>>

\* nack(msg, false, false): the main queue dead-letters the copy, headers and
\* all; the death the broker records is a rejection.
ApplyNack(c) ==
    /\ place[c] = "nacking"
    /\ place' = [place EXCEPT ![c] = DeadLetter("main")]
    /\ expired' = [expired EXCEPT ![c] = {}]
    /\ owner' = [owner EXCEPT ![c] = NoWorker]
    /\ UNCHANGED <<body, attempt, processVars, outbox, disruptions, sent, history,
                   unsent, abrupt>>

\* The broker's side of x-message-ttl: the copy c, expired in the queue q, is
\* dead-lettered with its headers; but if it has already expired in the queue it
\* would go to, with no rejection since, RabbitMQ takes that for a cycle and
\* drops it.
ExpireIn(c, q) ==
    /\ place[c] = q
    /\ IF DeadLetter(q) \in expired[c]
       THEN Remove(c) /\ dropped' = dropped \cup {body[c]}
       ELSE /\ place' = [place EXCEPT ![c] = DeadLetter(q)]
            /\ expired' = [expired EXCEPT ![c] = @ \cup {q}]
            /\ UNCHANGED <<body, attempt, owner, dropped>>
    /\ UNCHANGED <<processVars, outbox, disruptions, sent, unsent, abrupt, handled,
                   failures, gaveUp, discarded, purged>>

\* x-message-ttl of the retry queue runs out.
ExpireRetry(c) == ExpireIn(c, "retry")

\* Mutant: the x-death entry of an expired copy is counted as an attempt.
ExpireMainCounts(c) ==
    /\ MessageTtl
    /\ place[c] = "main"
    /\ place' = [place EXCEPT ![c] = DeadLetter("main")]
    /\ attempt' = [attempt EXCEPT ![c] = @ + 1]
    /\ UNCHANGED <<body, expired, owner, processVars, outbox, disruptions, sent,
                   history, unsent, abrupt>>

\* x-message-ttl of the main queue, where the configuration sets one.
ExpireMain(c) == MessageTtl /\ ExpireIn(c, "main")

\* purgeQueue: an operator empties the queue q of what is ready in it.
PurgeQueue(q) ==
    /\ Disrupt
    /\ \E c \in Copy : place[c] = q
    /\ LET gone == {c \in Copy : place[c] = q}
       IN  /\ place' = [c \in Copy |-> IF c \in gone THEN "free" ELSE place[c]]
           /\ body' = [c \in Copy |-> IF c \in gone THEN NoMsg ELSE body[c]]
           /\ attempt' = [c \in Copy |-> IF c \in gone THEN 0 ELSE attempt[c]]
           /\ expired' = [c \in Copy |-> IF c \in gone THEN {} ELSE expired[c]]
           /\ purged' = purged \cup {body[c] : c \in gone}
    /\ UNCHANGED <<owner, processVars, outbox, sent, unsent, abrupt, handled,
                   failures, gaveUp, discarded, dropped>>

-----------------------------------------------------------------------------
(* The worker process.                                                     *)

\* Mutant: the consumer runs with noAck, so the broker keeps nothing back.
RequeueNoAck(w) ==
    /\ place' = [c \in Copy |-> IF owner[c] = w THEN "acking" ELSE place[c]]
    /\ UNCHANGED owner

\* The broker requeues what a lost channel had not acknowledged; frames still
\* on their way are gone with the channel.
Requeue(w) ==
    /\ place' = [c \in Copy |-> IF owner[c] = w THEN "main" ELSE place[c]]
    /\ owner' = [c \in Copy |-> IF owner[c] = w THEN NoWorker ELSE owner[c]]

\* The handlers that are in an await in worker w.
Awaiting(w) == {<<c, body[c]>> : c \in {d \in InFlight(w) : place[d] = "handling"}}

\* gracefulShutdown calls consumer.close(), which first cancels the consumer.
Cancel(w) ==
    /\ worker[w] = "running"
    /\ Disrupt
    /\ worker' = [worker EXCEPT ![w] = "closing"]
    /\ UNCHANGED <<copyVars, orphans, outbox, sent, history, unsent, abrupt>>

\* Mutant: the channel is dropped with frames still in its buffer.
CloseUnflushed(w) ==
    /\ worker[w] = "closing"
    /\ Requeue(w)
    /\ orphans' = [orphans EXCEPT ![w] = Awaiting(w)]
    /\ worker' = [worker EXCEPT ![w] = "closed"]
    /\ UNCHANGED <<body, attempt, expired, outbox, disruptions, sent, history,
                   unsent, abrupt>>

\* channel.close(): the frames written before it are applied first.  Handlers
\* that are still awaited are not waited for and run on without a channel.
Close(w) ==
    /\ worker[w] = "closing"
    /\ \A c \in InFlight(w) : place[c] \notin Settled
    /\ Requeue(w)
    /\ orphans' = [orphans EXCEPT ![w] = Awaiting(w)]
    /\ worker' = [worker EXCEPT ![w] = "closed"]
    /\ UNCHANGED <<body, attempt, expired, outbox, disruptions, sent, history,
                   unsent, abrupt>>

\* The connection fails; no listener reconnects it.
Disconnect(w) ==
    /\ worker[w] \in {"running", "closing"}
    /\ Disrupt
    /\ Requeue(w)
    /\ orphans' = [orphans EXCEPT ![w] = Awaiting(w)]
    /\ worker' = [worker EXCEPT ![w] = "closed"]
    /\ abrupt' = TRUE
    /\ UNCHANGED <<body, attempt, expired, outbox, sent, history, unsent>>

\* The process is killed.
Crash(w) ==
    /\ worker[w] # "down"
    /\ Disrupt
    /\ Requeue(w)
    /\ orphans' = [orphans EXCEPT ![w] = {}]
    /\ worker' = [worker EXCEPT ![w] = "down"]
    /\ abrupt' = TRUE
    /\ UNCHANGED <<body, attempt, expired, outbox, sent, history, unsent>>

\* A handler without a channel ends.  Its effects stay; its ack throws.
OrphanEnds(w, c, m, ok) ==
    /\ <<c, m>> \in orphans[w]
    /\ orphans' = [orphans EXCEPT ![w] = @ \ {<<c, m>>}]
    /\ handled' = IF ok THEN handled \cup {m} ELSE handled
    /\ UNCHANGED <<copyVars, worker, outbox, disruptions, sent, failures, gaveUp,
                   discarded, purged, dropped, unsent, abrupt>>

\* process.exit after closeAll, or from the handler of an unhandled rejection.
Exit(w) ==
    /\ worker[w] = "closed"
    /\ worker' = [worker EXCEPT ![w] = "down"]
    /\ orphans' = [orphans EXCEPT ![w] = {}]
    /\ UNCHANGED <<copyVars, outbox, disruptions, sent, history, unsent, abrupt>>

\* A new process connects and consumes.
Start(w) ==
    /\ worker[w] = "down"
    /\ worker' = [worker EXCEPT ![w] = "running"]
    /\ UNCHANGED <<copyVars, orphans, outbox, disruptions, sent, history, unsent,
                   abrupt>>

-----------------------------------------------------------------------------
Produce ==
    \/ \E m \in Msg : PublishTxIngest(m)
    \/ \E m \in Msg, c \in Copy : AcceptPublish(m, c)
    \/ LosePublisher
    \/ \E m \in Msg, c \in Copy : ForeignPublish(m, c)

HandleMessage(w, c) ==
    RejectMalformed(w, c) \/ RejectExhausted(w, c) \/ StartHandler(w, c)

HandlerReturns(c) ==
    HandlerSucceeds(c) \/ \E hasBody \in BOOLEAN : HandlerFails(c, hasBody)

ApplyFrame(c) ==
    ApplyAck(c) \/ ApplyNack(c) \/ \E d \in Copy : ApplyRetryPublish(c, d)

Expire(c) == ExpireRetry(c) \/ ExpireMain(c)

Process(w) ==
    \/ Cancel(w) \/ Close(w) \/ Disconnect(w) \/ Crash(w) \/ Exit(w) \/ Start(w)
    \/ \E c \in Copy, m \in Msg, ok \in BOOLEAN : OrphanEnds(w, c, m, ok)

Next ==
    \/ Produce
    \/ \E w \in Worker, c \in Copy : HandleMessage(w, c)
    \/ \E c \in Copy : HandlerReturns(c) \/ ApplyFrame(c) \/ Expire(c)
    \/ \E q \in Queues : PurgeQueue(q)
    \/ \E w \in Worker : Process(w)

Spec == Init /\ [][Next]_vars

\* The broker serves a queue in order, applies frames and expires messages;
\* every await of a handler ends; a down process is restarted, and a closing
\* one goes on closing.  Nothing is assumed of what a handler answers.
Fairness ==
    /\ \A m \in Msg : WF_vars(\E c \in Copy : AcceptPublish(m, c))
    /\ \A c \in Copy :
        /\ SF_vars(\E w \in Worker : HandleMessage(w, c))
        /\ WF_vars(HandlerReturns(c))
        /\ WF_vars(ApplyFrame(c))
        /\ WF_vars(ExpireRetry(c))
    /\ \A w \in Worker : WF_vars(Start(w)) /\ WF_vars(Close(w))

FairSpec == Spec /\ Fairness

-----------------------------------------------------------------------------
(* Properties.                                                             *)

TypeOK ==
    /\ place \in [Copy -> Places]
    /\ body \in [Copy -> Msg \cup {NoMsg}]
    /\ attempt \in [Copy -> Nat]
    /\ expired \in [Copy -> SUBSET Queues]
    /\ owner \in [Copy -> Worker \cup {NoWorker}]
    /\ worker \in [Worker -> {"running", "closing", "closed", "down"}]
    /\ orphans \in [Worker -> SUBSET (Copy \X Msg)]
    /\ outbox \subseteq Msg
    /\ disruptions \in 0..MaxDisruptions
    /\ sent \subseteq Msg
    /\ handled \subseteq Msg
    /\ failures \in [Msg -> 0..MaxRetries]
    /\ gaveUp \subseteq Msg
    /\ discarded \subseteq Msg
    /\ unsent \subseteq Msg
    /\ purged \subseteq Msg
    /\ dropped \subseteq Msg
    /\ abrupt \in BOOLEAN
    /\ \A c \in Copy : place[c] # "free" <=> body[c] # NoMsg
    /\ \A c \in Copy : place[c] \in Unacked <=> owner[c] # NoWorker

\* The ways a message can be lost.  A cycle of expiries takes a messageTtl: where
\* the main queue has none, the broker may drop nothing.
Excused ==
    discarded \cup unsent \cup purged \cup (IF MessageTtl THEN dropped ELSE {})

\* No silent loss: a message a producer has sent has been handled, is in the
\* publisher's buffer, has an excuse, or there is a copy of it that will lead
\* to another handler call, whatever dies and whenever (retryMessage writes
\* the publish before the ack).
NoSilentLoss ==
    \A m \in sent : \/ m \in handled \cup outbox \cup Excused
                    \/ \E c \in Copy : body[c] = m /\ Active(c)

\* Only a lost channel duplicates: as long as every worker closes its channel
\* in order, the publish-then-ack of retryMessage and the requeue at shutdown
\* never leave two live copies of one message.
OneCopyUnlessAbrupt ==
    ~abrupt => \A c, d \in Copy :
                  Active(c) /\ Active(d) /\ body[c] = body[d] => c = d

\* No early give-up: the consumer gives up on a message only after the handler
\* calls its maxRetries allows (counting those its header already reports),
\* along every path of retries, redeliveries and duplicates.
NoEarlyGiveUp ==
    \A m \in gaveUp : FirstAttempt[m] + failures[m] >= MaxRetries

\* A message's copies never report more attempts than failed: duplicates and
\* redeliveries do not use up retries.
AttemptsAreFailures ==
    \A c \in Copy : body[c] # NoMsg =>
        LET next == IF place[c] = "publishing" THEN NextAttempt(c) ELSE attempt[c]
        IN  \/ next <= FirstAttempt[body[c]] + failures[body[c]]
            \/ failures[body[c]] = MaxRetries

Orphaned(m) == \E w \in Worker, c \in Copy : <<c, m>> \in orphans[w]

\* The queue implements Delivery: owed until done or excused, both final.
StatusOf(m) ==
    IF m \notin sent THEN "new"
    ELSE IF m \in handled THEN "done"
    ELSE IF m \in outbox \/ Held(m) \/ Orphaned(m) THEN "owed"
    ELSE "lost"

D == INSTANCE Delivery WITH status <- [m \in Msg |-> StatusOf(m)],
                            excused <- Excused

AtLeastOnce == D!Spec

\* Every message that was sent is in the end handled, excused or given up on,
\* whatever the handler answers, if a worker keeps coming back.
EveryMessageResolves ==
    ([]<>(\E w \in Worker : worker[w] = "running"))
        => \A m \in Msg : m \in sent ~> m \in handled \cup Excused \cup gaveUp

\* queue-setup.ts:17 and the package's README: after max retries, messages go
\* to the DLQ.  Stated for the moment the broker has applied the nack.
ExhaustedGoesToDlq ==
    \A c \in Copy : place[c] = "retry" => body[c] \notin gaveUp
=============================================================================

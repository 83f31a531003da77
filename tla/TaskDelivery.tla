---------------------------- MODULE TaskDelivery ----------------------------
(***************************************************************************)
(* A documents.parse task on its way from the broker to its handler: what  *)
(* the Celery settings of the worker (late acknowledgement, reject instead *)
(* of acknowledge on failure, bounded retries) and the arguments of the    *)
(* quorum queue (delivery limit, dead-letter exchange) amount to.  Celery  *)
(* and RabbitMQ are not in the repository: they are modelled by the        *)
(* options that create_celery_app sets.  Workers and their connections may *)
(* fail at any time, any number of times.                                  *)
(***************************************************************************)
EXTENDS Naturals, Sequences

CONSTANTS
    Task,            \* published tasks
    Invalid,         \* tasks whose message does not validate
    Worker,          \* worker processes, each with one task at a time
    NoJob,           \* a worker executes nothing
    MaxRetries,      \* worker.max_retries
    DeliveryLimit    \* worker.delivery_limit

\* WorkerSettings
ASSUME LimitAssumption ==
    /\ MaxRetries \in Nat /\ DeliveryLimit \in Nat \ {0}
    /\ Invalid \subseteq Task
    /\ Worker \cap {"queue", "acked", "dead", "lost"} = {}

\* Where a message is: in the work queue, unacknowledged at a worker, gone,
\* in the dead-letter queue, or dropped.
Place == Worker \cup {"queue", "acked", "dead", "lost"}

\* retries: the retry count in its headers; returns: how often a delivery
\* of it came back.
Message == [retries : 0 .. MaxRetries, returns : 0 .. DeliveryLimit, at : Place]

\* The execution of a message, over a channel that is still open or not.
Job == [task : Task, n : Nat \ {0}, live : BOOLEAN]

VARIABLES
    messages,     \* the messages of every task, in the order of publication
    phase,        \* what every worker is doing
    job,          \* what every worker executes
    dlq,          \* the dead-letter queue is declared
    handled,      \* tasks whose handler has returned
    runs          \* executions of every task, counted to one past the bound

vars == <<messages, phase, job, dlq, handled, runs>>

\* Messages a task can have with r retries, each returned DeliveryLimit times.
Published[r \in 0 .. MaxRetries] ==
    IF r = 0 THEN 1 ELSE (DeliveryLimit + 1) * Published[r - 1]

Executions[r \in 0 .. MaxRetries] ==
    (DeliveryLimit + 1) * Published[r] + IF r = 0 THEN 0 ELSE Executions[r - 1]

MaxRuns == Executions[MaxRetries]

TypeOK ==
    /\ messages \in [Task -> Seq(Message)]
    /\ phase \in [Worker -> {"down", "declaring", "up"}]
    /\ \A w \in Worker : job[w] # NoJob =>
          /\ phase[w] = "up" /\ job[w] \in Job
          /\ job[w].n \in DOMAIN messages[job[w].task]
          /\ job[w].live <=> messages[job[w].task][job[w].n].at = w
    /\ dlq \in BOOLEAN
    /\ handled \subseteq Task
    /\ runs \in [Task -> 0 .. MaxRuns + 1]

Init ==
    /\ messages = [t \in Task |-> <<>>]
    /\ phase = [w \in Worker |-> "down"]
    /\ job = [w \in Worker |-> NoJob]
    /\ dlq = FALSE
    /\ handled = {}
    /\ runs = [t \in Task |-> 0]

-----------------------------------------------------------------------------
(* Starting a worker *)

Start(w) ==
    /\ phase[w] = "down"
    /\ phase' = [phase EXCEPT ![w] = "declaring"]
    /\ UNCHANGED <<messages, job, dlq, handled, runs>>

\* main() declares the queue, its exchange and their binding, or raises.
DeclareDeadLetterQueue(w) ==
    /\ phase[w] = "declaring"
    /\ \/ /\ dlq' = TRUE
          /\ phase' = [phase EXCEPT ![w] = "up"]
       \/ /\ phase' = [phase EXCEPT ![w] = "down"]
          /\ UNCHANGED dlq
    /\ UNCHANGED <<messages, job, handled, runs>>

-----------------------------------------------------------------------------
(* The broker *)

\* A producer publishes a persistent message, and waits for its confirm.
Publish(t) ==
    /\ messages[t] = <<>>
    /\ messages' = [messages EXCEPT ![t] = <<[retries |-> 0, returns |-> 0, at |-> "queue"]>>]
    /\ UNCHANGED <<phase, job, dlq, handled, runs>>

\* task_acks_late: the message stays unacknowledged while it is executed.
Deliver(w, t, n) ==
    /\ phase[w] = "up" /\ job[w] = NoJob
    /\ n \in DOMAIN messages[t] /\ messages[t][n].at = "queue"
    /\ messages' = [messages EXCEPT ![t][n].at = w]
    /\ job' = [job EXCEPT ![w] = [task |-> t, n |-> n, live |-> TRUE]]
    /\ runs' = [runs EXCEPT ![t] = IF @ > MaxRuns THEN @ ELSE @ + 1]
    /\ UNCHANGED <<phase, dlq, handled>>

\* Without a dead-letter queue, the dead-letter exchange has nowhere to go.
DeadLettered(m) == [m EXCEPT !.at = IF dlq THEN "dead" ELSE "lost"]

\* Variant: a classic queue does not count deliveries.
ReturnedUncounted(m) == [m EXCEPT !.at = "queue"]

\* A delivery comes back: redelivered, up to x-delivery-limit times.
Returned(m) ==
    IF m.returns = DeliveryLimit THEN DeadLettered(m)
    ELSE [m EXCEPT !.at = "queue", !.returns = @ + 1]

\* All unacknowledged messages of the worker come back.
ReturnedBy(w) ==
    [t \in Task |-> [n \in DOMAIN messages[t] |->
        IF messages[t][n].at = w THEN Returned(messages[t][n]) ELSE messages[t][n]]]

\* The worker dies, by itself or with its host.
Crash(w) ==
    /\ phase[w] # "down"
    /\ phase' = [phase EXCEPT ![w] = "down"]
    /\ job' = [job EXCEPT ![w] = NoJob]
    /\ messages' = ReturnedBy(w)
    /\ UNCHANGED <<dlq, handled, runs>>

\* The connection breaks: the broker takes the message back while the task
\* is still executing.
ConnectionLost(w) ==
    /\ job[w] # NoJob /\ job[w].live
    /\ messages' = ReturnedBy(w)
    /\ job' = [job EXCEPT ![w].live = FALSE]
    /\ UNCHANGED <<phase, dlq, handled, runs>>

\* worker_cancel_long_running_tasks_on_connection_loss
CancelStale(w) ==
    /\ job[w] # NoJob /\ ~job[w].live
    /\ job' = [job EXCEPT ![w] = NoJob]
    /\ UNCHANGED <<messages, phase, dlq, handled, runs>>

-----------------------------------------------------------------------------
(* parse_document *)

Current(w) == messages[job[w].task][job[w].n]

\* Variant: a delivery tag is valid on another channel.
SettledAnyway(w, m) == [messages EXCEPT ![job[w].task][job[w].n] = m]

\* The message that the worker holds becomes m, unless its channel is gone.
Settled(w, m) ==
    IF job[w].live THEN [messages EXCEPT ![job[w].task][job[w].n] = m] ELSE messages

Acked(m) == [m EXCEPT !.at = "acked"]

\* The handler returned.
Succeed(w) ==
    /\ job[w] # NoJob /\ job[w].task \notin Invalid
    /\ messages' = Settled(w, Acked(Current(w)))
    /\ handled' = handled \cup {job[w].task}
    /\ job' = [job EXCEPT ![w] = NoJob]
    /\ UNCHANGED <<phase, dlq, runs>>

\* Variant: a failure is acknowledged, as by default.
SettledByFailureAcked(m) == Acked(m)

\* task_acks_on_failure_or_timeout = False: the message is rejected.
SettledByFailure(m) == DeadLettered(m)

\* The message does not validate, the handler raised something else than
\* RetryableTaskError or raised it for the last time, or a time limit struck.
Fail(w) ==
    /\ job[w] # NoJob
    /\ messages' = Settled(w, SettledByFailure(Current(w)))
    /\ job' = [job EXCEPT ![w] = NoJob]
    /\ UNCHANGED <<phase, dlq, handled, runs>>

MayRetry(w) ==
    job[w] # NoJob /\ job[w].task \notin Invalid /\ Current(w).retries < MaxRetries

\* RetryableTaskError: a new message is published, then this one is
\* acknowledged; a crash may come between the two.
PublishRetry(w) ==
    /\ MayRetry(w)
    /\ LET t == job[w].task
           retry == [retries |-> Current(w).retries + 1, returns |-> 0, at |-> "queue"]
       IN  \/ /\ messages' = [Settled(w, Acked(Current(w))) EXCEPT ![t] = Append(@, retry)]
              /\ job' = [job EXCEPT ![w] = NoJob]
              /\ UNCHANGED phase
           \/ /\ messages' = [ReturnedBy(w) EXCEPT ![t] = Append(@, retry)]
              /\ job' = [job EXCEPT ![w] = NoJob]
              /\ phase' = [phase EXCEPT ![w] = "down"]
    /\ UNCHANGED <<dlq, handled, runs>>

\* The pool process is lost: task_reject_on_worker_lost puts the message back.
PoolProcessLost(w) ==
    /\ job[w] # NoJob
    /\ messages' = Settled(w, Returned(Current(w)))
    /\ job' = [job EXCEPT ![w] = NoJob]
    /\ UNCHANGED <<phase, dlq, handled, runs>>

Finish(w) ==
    Succeed(w) \/ Fail(w) \/ PublishRetry(w) \/ PoolProcessLost(w) \/ CancelStale(w)

Next ==
    \/ \E t \in Task : Publish(t)
    \/ \E w \in Worker :
          \/ Start(w) \/ DeclareDeadLetterQueue(w) \/ Crash(w) \/ ConnectionLost(w) \/ Finish(w)
          \/ \E t \in Task : \E n \in DOMAIN messages[t] : Deliver(w, t, n)

Spec == Init /\ [][Next]_vars

\* Workers are restarted and some of them declares the queue in the end; the
\* time limits end every execution; the broker delivers what is queued.
FairSpec ==
    /\ Spec
    /\ SF_vars(\E w \in Worker : DeclareDeadLetterQueue(w) /\ phase'[w] = "up")
    /\ \A w \in Worker : WF_vars(Start(w)) /\ WF_vars(Finish(w))
    /\ \A t \in Task : SF_vars(\E w \in Worker, n \in DOMAIN messages[t] : Deliver(w, t, n))

-----------------------------------------------------------------------------
(* Properties *)

\* A published task is queued or executed, was handled, or is in the
\* dead-letter queue: it never disappears, whatever fails ("terminal
\* failures must be rejected to the configured DLX instead of disappearing",
\* app.py), not even when a worker dies between a retry and its
\* acknowledgement.
NoTaskDisappears ==
    \A t \in Task : messages[t] # <<>> =>
        \/ t \in handled
        \/ \E n \in DOMAIN messages[t] : messages[t][n].at \in Worker \cup {"queue", "dead"}

\* A task is executed a bounded number of times, however often workers and
\* connections fail: delivery limit and retry limit work together
\* (x-delivery-limit, max_retries).
ExecutionsBounded == \A t \in Task : runs[t] <= MaxRuns

\* Every published task is handled or dead-lettered in the end, a task that
\* kills every worker that executes it too.
EveryTaskEnds ==
    \A t \in Task : messages[t] # <<>> ~>
        t \in handled \/ \E n \in DOMAIN messages[t] : messages[t][n].at = "dead"

\* No failure loses a task, and none makes it run for ever.
TasksAccountedFor == NoTaskDisappears /\ ExecutionsBounded
=============================================================================

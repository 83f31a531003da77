----------------------------- MODULE MCProgress -----------------------------
(***************************************************************************)
(* What must happen in the end, in the components whose callers wait for   *)
(* them: starts and registrations, outbox events, tasks, calls of the      *)
(* worker runtime and executions of tools.  The components share no state; *)
(* one of them moves in each behaviour, under its own fairness.            *)
(***************************************************************************)
EXTENDS Naturals, Sequences, FiniteSets

CONSTANTS
    Server, s1, Request, User, NoUser, NoRow, MaxCrashes,            \* IdentityProvisioning
    Event, Dispatcher, Token, NoToken, Lease, MaxFaults,             \* Outbox
    Task, Worker, NoJob, Call, NoTask, Exit                          \* TaskDelivery, WorkerRuntime

VARIABLES
    part,
    accounts, tx, crashes,
    rows, draft, held, faults,
    messages, phase, job, dlq, handled, runs,
    state, lock, current, container, pc, loop, limit,
    tools, tool, step, attempt, outcome, clock, elapsed, effects, late, events

Names == {"boss", "ana", "Ana"}
MCNormal == [n \in Names |-> IF n = "Ana" THEN "ana" ELSE n]
MCInitialName == [s \in Server |-> IF s = s1 THEN "boss" ELSE "ana"]

Identity == INSTANCE IdentityProvisioning WITH
    Spelling <- Names, Normal <- MCNormal, InitialName <- MCInitialName
Events == INSTANCE Outbox WITH Limit <- 1, MaxAttempts <- 2, BaseDelay <- 1, MaxDelay <- 2
Delivery == INSTANCE TaskDelivery WITH Invalid <- {}, MaxRetries <- 1, DeliveryLimit <- 1
Runtime == INSTANCE WorkerRuntime WITH Task <- Call
Tools == INSTANCE ToolExecutor WITH
    Tool <- {"search", "submit"}, Idempotent <- {"search"},
    MaxAttempts <- 3, Timeout <- 1, BaseDelay <- 1, MaxDelay <- 1, pc <- step

identity == <<accounts, tx, crashes>>
outbox == <<rows, draft, held, faults>>
delivery == <<messages, phase, job, dlq, handled, runs>>
runtime == <<state, lock, current, container, pc, loop, limit>>
execution == <<tools, tool, step, attempt, outcome, clock, elapsed, effects, late, events>>
all == <<part, identity, outbox, delivery, runtime, execution>>

MCInit ==
    /\ part \in {"identity", "outbox", "delivery", "runtime", "tools"}
    /\ Identity!Init /\ Events!Init /\ Delivery!Init /\ Runtime!Init /\ Tools!Init
    /\ part # "tools" => tool = "search"
    /\ part # "identity" => \A r \in Request : tx[r].on = s1

\* Only the part named moves.
OfIdentity == part = "identity" /\ UNCHANGED <<part, outbox, delivery, runtime, execution>>
OfOutbox == part = "outbox" /\ UNCHANGED <<part, identity, delivery, runtime, execution>>
OfDelivery == part = "delivery" /\ UNCHANGED <<part, identity, outbox, runtime, execution>>
OfRuntime == part = "runtime" /\ UNCHANGED <<part, identity, outbox, delivery, execution>>
OfTools == part = "tools" /\ UNCHANGED <<part, identity, outbox, delivery, runtime>>

MCNext ==
    \/ OfIdentity /\ Identity!Next
    \/ OfOutbox /\ Events!Next
    \/ OfDelivery /\ Delivery!Next
    \/ OfRuntime /\ Runtime!Next
    \/ OfTools /\ Tools!Next

\* The fairness of each component's FairSpec.
Fairness ==
    /\ \A t \in Server \cup Request : WF_all(OfIdentity /\ Identity!Progress(t))
    /\ WF_all(OfOutbox /\ Events!Tick)
    /\ \A w \in Dispatcher : WF_all(OfOutbox /\ Events!ClaimCommit(w))
    /\ \A w \in Dispatcher, e \in Event : SF_all(OfOutbox /\ Events!Finish(w, e))
    /\ \A e \in Event :
          SF_all(OfOutbox /\ \E w \in Dispatcher : Events!ClaimBatch(w) /\ draft'[w][e] # NoRow)
    /\ SF_all(OfDelivery /\ \E w \in Worker : Delivery!DeclareDeadLetterQueue(w) /\ phase'[w] = "up")
    /\ \A w \in Worker : WF_all(OfDelivery /\ Delivery!Start(w)) /\ WF_all(OfDelivery /\ Delivery!Finish(w))
    /\ \A t \in Task :
          SF_all(OfDelivery /\ \E w \in Worker, n \in DOMAIN messages[t] : Delivery!Deliver(w, t, n))
    /\ WF_all(OfRuntime /\ (Runtime!BeginClose \/ Runtime!FinishClose))
    /\ \A t \in Call \cup {Exit} : WF_all(OfRuntime /\ Runtime!Enter(t))
    /\ \A t \in Call :
          /\ WF_all(OfRuntime /\ (Runtime!Refuse(t) \/ Runtime!BeginStart(t) \/ Runtime!Run(t)))
          /\ WF_all(OfRuntime /\ Runtime!Goes(t))
    /\ WF_all(OfTools /\ Tools!Executor)

MCSpec == MCInit /\ [][MCNext]_all /\ Fairness

-----------------------------------------------------------------------------
\* Every event is published or dead-lettered in the end, although dispatchers
\* crash and overrun their leases (claim_batch, apply_failure).
EveryEventIsSettled == Events!EveryEventIsSettled

\* Every published task is handled or dead-lettered in the end, also one that
\* kills every worker that executes it (create_celery_app).
EveryTaskEnds == Delivery!EveryTaskEnds

\* Every start and every registration ends: the role row and the login are
\* never waited for in a circle (provision_initial_manager, register).
ProvisioningEnds == Identity!ProvisioningEnds

\* Every call of run or close comes back, whatever fails in it, and every
\* execution of a tool ends (WorkerRuntime, ToolExecutor).
CallsReturn == (part = "runtime" => Runtime!CallsReturn) /\ Tools!ExecutionEnds
=============================================================================

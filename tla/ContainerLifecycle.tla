------------------------- MODULE ContainerLifecycle -------------------------
(***************************************************************************)
(* The application container of one process: it creates and probes the     *)
(* database, Redis and the object store, creates the HTTP clients, and     *)
(* closes what it created in reverse order.  The callers are the lifespan  *)
(* of the API (with telemetry and the initial manager) and the worker's    *)
(* health check.  Any probe or close may fail or hang until its timeout,   *)
(* and the task that runs the container may be cancelled while it waits.   *)
(***************************************************************************)
EXTENDS Naturals, Sequences

CONSTANTS
    Order,        \* the resources, in the order in which start creates them
    Lazy,         \* the resources that start does not probe
    NoResource,   \* nothing is being probed or closed
    MaxCancels    \* bound on cancellations

Resource == {Order[i] : i \in DOMAIN Order}

ASSUME OrderAssumption ==
    /\ Order \in Seq(Resource) /\ Order # <<>>
    /\ \A i, j \in DOMAIN Order : Order[i] = Order[j] => i = j
    /\ Lazy \subseteq Resource /\ NoResource \notin Resource
    /\ MaxCancels \in Nat

Step == {"configure", "create", "probe", "cleanup", "provision", "serving",
         "close", "shutdown_metrics", "shutdown_tracing", "exited"}

VARIABLES
    caller,      \* "lifespan" or "healthcheck"
    pc,          \* where the caller is
    state,       \* ContainerState
    resources,   \* the list _resources
    created,     \* resources that a factory has returned
    probed,      \* resources whose probe has returned
    errors,      \* this call of _close_resources has met an error
    closed,      \* resources whose close has been called, in that order
    waiting,     \* what is being closed, and whether it hangs
    telemetry,   \* the telemetry providers that are active
    cancels      \* cancellations so far

vars == <<caller, pc, state, resources, created, probed, errors, closed, waiting, telemetry, cancels>>

Waiting == [on : Resource \cup {NoResource}, hangs : BOOLEAN]

Nobody == [on |-> NoResource, hangs |-> FALSE]

\* A closed container owns nothing any more.
TypeOK ==
    /\ caller \in {"lifespan", "healthcheck"}
    /\ pc \in Step
    /\ state \in {"new", "started", "closed"}
    /\ resources \in Seq(Resource) /\ closed \in Seq(Resource)
    /\ created \subseteq Resource /\ probed \subseteq created
    /\ waiting \in Waiting /\ errors \in BOOLEAN
    /\ telemetry \subseteq {"metrics", "tracing"}
    /\ cancels \in 0 .. MaxCancels
    /\ state = "closed" => resources = <<>>

Init ==
    /\ caller \in {"lifespan", "healthcheck"}
    /\ pc = "configure"
    /\ state = "new"
    /\ resources = <<>> /\ created = {} /\ probed = {} /\ closed = <<>>
    /\ waiting = Nobody /\ errors = FALSE
    /\ telemetry = {}
    /\ cancels = 0

-----------------------------------------------------------------------------
(* ApplicationContainer.start *)

\* configure_tracing and configure_metrics, if they are enabled.
Configure ==
    /\ pc = "configure"
    /\ pc' = "create"
    /\ \/ caller = "lifespan" /\ telemetry' \in SUBSET {"metrics", "tracing"}
       \/ caller = "healthcheck" /\ telemetry' = {}
    /\ UNCHANGED <<caller, state, resources, created, probed, closed, waiting, cancels, errors>>

\* The settings, the logging or a telemetry provider fails, before the try:
\* a tracing provider that is active already is not shut down.
ConfigureFails ==
    /\ pc = "configure"
    /\ pc' = "exited"
    /\ \/ caller = "lifespan" /\ telemetry' \in SUBSET {"tracing"}
       \/ caller = "healthcheck" /\ telemetry' = {}
    /\ UNCHANGED <<caller, state, resources, created, probed, closed, waiting, cancels, errors>>

\* The next resource is created and appended, and probed unless it is lazy.
Create ==
    /\ pc = "create" /\ Len(resources) < Len(Order)
    /\ LET r == Order[Len(resources) + 1]
       IN  /\ resources' = Append(resources, r)
           /\ created' = created \cup {r}
           /\ \/ /\ r \in Lazy
                 /\ UNCHANGED <<pc, waiting>>
              \/ /\ r \notin Lazy
                 /\ pc' = "probe"
                 /\ \E hangs \in BOOLEAN : waiting' = [on |-> r, hangs |-> hangs]
    /\ UNCHANGED <<caller, state, probed, closed, telemetry, cancels, errors>>

\* Variant: the container is CLOSED before it has cleaned up.
StateInCleanupEarly == "closed"

\* The state while start cleans up.
StateInCleanup == state

\* A factory raises: nothing was appended.
CreateFails ==
    /\ pc = "create" /\ Len(resources) < Len(Order)
    /\ pc' = "cleanup" /\ state' = StateInCleanup
    /\ UNCHANGED <<caller, resources, created, probed, closed, waiting, telemetry, cancels, errors>>

ProbeReturns ==
    /\ pc = "probe" /\ ~waiting.hangs
    /\ probed' = probed \cup {waiting.on}
    /\ waiting' = Nobody
    /\ pc' = "create"
    /\ UNCHANGED <<caller, state, resources, created, closed, telemetry, cancels, errors>>

AfterFailedProbe == "cleanup"

\* The probe raises, or asyncio.timeout(connect_timeout_seconds) expires.
ProbeFails ==
    /\ pc = "probe"
    /\ pc' = AfterFailedProbe /\ state' = StateInCleanup
    /\ waiting' = Nobody
    /\ UNCHANGED <<caller, resources, created, probed, closed, telemetry, cancels, errors>>

Started ==
    /\ pc = "create" /\ Len(resources) = Len(Order)
    /\ state' = "started"
    /\ pc' = IF caller = "lifespan" THEN "provision" ELSE "close"
    /\ UNCHANGED <<caller, resources, created, probed, closed, waiting, telemetry, cancels, errors>>

-----------------------------------------------------------------------------
(* _close_resources, called by start when it fails and by close *)

\* list.pop(): the resource to close and those that stay.
Popped == <<resources[Len(resources)], SubSeq(resources, 1, Len(resources) - 1)>>

CanClose == pc = "cleanup" \/ (pc = "close" /\ state # "closed")

BeginClose ==
    /\ CanClose /\ waiting = Nobody /\ resources # <<>>
    /\ resources' = Popped[2]
    /\ closed' = Append(closed, Popped[1])
    /\ \E hangs \in BOOLEAN : waiting' = [on |-> Popped[1], hangs |-> hangs]
    /\ UNCHANGED <<caller, pc, state, created, probed, telemetry, cancels, errors>>

CloseReturns ==
    /\ CanClose /\ waiting # Nobody /\ ~waiting.hangs
    /\ waiting' = Nobody
    /\ UNCHANGED <<caller, pc, state, resources, created, probed, closed, telemetry, cancels, errors>>

\* Variant: the first error ends the loop.
RestAfterError == <<>>

\* An error is kept for later; the loop goes on with the rest.
Rest == resources

\* Variant: close has no timeout.
CloseMayFailSoon == ~waiting.hangs

CloseMayFail == TRUE

\* close raises, or asyncio.timeout(shutdown_timeout_seconds) expires.
CloseFails ==
    /\ CanClose /\ waiting # Nobody /\ CloseMayFail
    /\ waiting' = Nobody
    /\ resources' = Rest /\ errors' = TRUE
    /\ UNCHANGED <<caller, pc, state, created, probed, closed, telemetry, cancels>>

\* start has cleaned up: the container is CLOSED and the exception goes on,
\* to the finally of the caller.
CleanedUp ==
    /\ pc = "cleanup" /\ resources = <<>> /\ waiting = Nobody
    /\ state' = "closed"
    /\ pc' = "close"
    /\ UNCHANGED <<caller, resources, created, probed, closed, waiting, telemetry, cancels, errors>>

AfterClose == IF caller = "lifespan" THEN "shutdown_metrics" ELSE "exited"

\* close returns, at once if the container is CLOSED, or raises the errors
\* it met as a group and leaves the state as it is.
CloseEnds ==
    /\ pc = "close" /\ waiting = Nobody
    /\ \/ state = "closed" /\ UNCHANGED state
       \/ state # "closed" /\ resources = <<>> /\ state' = IF errors THEN state ELSE "closed"
    /\ pc' = AfterClose
    /\ UNCHANGED <<caller, resources, created, probed, closed, waiting, telemetry, cancels, errors>>

-----------------------------------------------------------------------------
(* The lifespan *)

\* provision_initial_manager returns or raises (see IdentityProvisioning).
Provision ==
    /\ pc = "provision"
    /\ pc' \in {"serving", "close"}
    /\ UNCHANGED <<caller, state, resources, created, probed, closed, waiting, telemetry, cancels, errors>>

\* The server is told to stop.
Stop ==
    /\ pc = "serving"
    /\ pc' = "close"
    /\ UNCHANGED <<caller, state, resources, created, probed, closed, waiting, telemetry, cancels, errors>>

\* The finally clause replaces the sink.
SinkAfterFinally == telemetry \ {"metrics"}

\* An exception of shutdown_metrics skips shutdown_tracing.
ShutdownMetrics ==
    /\ pc = "shutdown_metrics"
    /\ \/ telemetry' = telemetry \ {"metrics"} /\ pc' = "shutdown_tracing"
       \/ "metrics" \in telemetry /\ telemetry' = SinkAfterFinally /\ pc' = "exited"
    /\ UNCHANGED <<caller, state, resources, created, probed, closed, waiting, cancels, errors>>

ShutdownTracing ==
    /\ pc = "shutdown_tracing"
    /\ telemetry' = telemetry \ {"tracing"}
    /\ pc' = "exited"
    /\ UNCHANGED <<caller, state, resources, created, probed, closed, waiting, cancels, errors>>

-----------------------------------------------------------------------------
\* CancelledError at an await: start cleans up after it, but a close or a
\* cleanup that is cancelled stops where it is.
Cancel ==
    /\ cancels < MaxCancels
    /\ cancels' = cancels + 1
    /\ waiting' = Nobody /\ errors' = FALSE
    /\ \/ pc = "probe" /\ pc' = "cleanup"
       \/ pc \in {"provision", "serving"} /\ pc' = "close"
       \/ pc = "cleanup" /\ waiting # Nobody /\ pc' = "close"
       \/ pc = "close" /\ waiting # Nobody /\ pc' = AfterClose
    /\ UNCHANGED <<caller, state, resources, created, probed, closed, telemetry>>

Container ==
    \/ Create \/ CreateFails \/ ProbeReturns \/ ProbeFails \/ Started
    \/ BeginClose \/ CloseReturns \/ CloseFails \/ CleanedUp \/ CloseEnds

Caller == Configure \/ ConfigureFails \/ Provision \/ ShutdownMetrics \/ ShutdownTracing

Next == Container \/ Caller \/ Stop \/ Cancel

Spec == Init /\ [][Next]_vars

\* The event loop runs and timers fire.  Nobody has to stop the server.
FairSpec == Spec /\ WF_vars(Container \/ Caller)

-----------------------------------------------------------------------------
(* Properties *)

\* A process serves only with every critical resource created, probed and
\* not yet closed (start, and the order of the lifespan).
ServesWithProbedResources ==
    pc = "serving" =>
        /\ state = "started" /\ closed = <<>>
        /\ created = Resource /\ probed = Resource \ Lazy

\* When the process leaves, close has been called on every resource it
\* created, whichever of them failed or hung, even when start was cancelled
\* half way or its cleanup was; a cancelled final close is the exception.
NoPartialPools ==
    (pc \in {"shutdown_metrics", "exited"} /\ waiting = Nobody) =>
        \/ \A r \in created : \E i \in DOMAIN closed : closed[i] = r
        \/ cancels > 0 /\ state # "closed" /\ resources # <<>>

\* A start that failed without being cancelled leaves nothing open when the
\* exception reaches its caller ("startup is atomic from the process
\* perspective", container.py).
FailedStartIsAtomic ==
    (pc = "close" /\ cancels = 0 /\ state # "started") =>
        resources = <<>> /\ waiting = Nobody
          /\ \A r \in created : \E i \in DOMAIN closed : closed[i] = r

\* Resources are closed once each and in the reverse of the order in which
\* they were created, across a failed start, a cancelled cleanup and the
\* close that follows (close, _close_resources).
ClosesInReverse ==
    \A i, j \in DOMAIN closed : i < j =>
        \E k, l \in DOMAIN Order : k > l /\ Order[k] = closed[i] /\ Order[l] = closed[j]

\* No measurement goes to a provider that is shut down: the sink is reset
\* even when its provider fails to shut down (shutdown_metrics).
SinkResetAtExit == pc = "exited" => "metrics" \notin telemetry

\* Once it is told to stop, the process exits although resources hang: every
\* close has its timeout.
StopEnds == pc = "close" ~> pc = "exited"

\* Every resource is accounted for: probed while the process serves, closed
\* once and in reverse when it leaves or when its start fails.
ResourcesAccounted ==
    /\ ServesWithProbedResources
    /\ NoPartialPools /\ FailedStartIsAtomic
    /\ ClosesInReverse /\ SinkResetAtExit
=============================================================================

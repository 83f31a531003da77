----------------------------- MODULE Readiness -----------------------------
(***************************************************************************)
(* GET /readiness: three probes at once, each under a timeout.  The probe  *)
(* of the object store runs in a thread of the pool that document work     *)
(* uses too; the timeout abandons the call, the thread stays busy until    *)
(* the call ends, which nothing bounds (the HTTP pool has no timeout).     *)
(***************************************************************************)
EXTENDS Naturals, FiniteSets

CONSTANTS
    Request,     \* readiness requests, asked again and again
    Threads      \* size of the default thread pool

\* What is assumed of the constants.
ThreadsAssumption == Threads \in Nat \ {0} /\ IsFiniteSet(Request)

VARIABLES
    dep,         \* what each dependency would do with a probe
    probe,       \* per request and dependency
    answer,      \* per request
    stuck,       \* threads held by abandoned calls
    job,         \* other work for a thread
    seenUp       \* history: dependencies seen up since the request began

vars == <<dep, probe, answer, stuck, job, seenUp>>

Dep == {"database", "redis", "object_store"}

TypeOK ==
    /\ dep \in [Dep -> {"up", "down", "hung"}]
    /\ probe \in [Request -> [Dep -> {"none", "queued", "running", "up", "down"}]]
    /\ answer \in [Request -> {"none", "pending", "ready", "not_ready"}]
    /\ stuck \in 0 .. Threads
    /\ job \in {"idle", "queued", "running"}
    /\ seenUp \in [Request -> SUBSET Dep]

Init ==
    /\ dep \in [Dep -> {"up", "down", "hung"}]
    /\ probe = [r \in Request |-> [d \in Dep |-> "none"]]
    /\ answer = [r \in Request |-> "none"]
    /\ stuck = 0 /\ job = "idle"
    /\ seenUp = [r \in Request |-> {}]

\* Threads in use.
Busy ==
    stuck + Cardinality({r \in Request : probe[r]["object_store"] = "running"})
          + (IF job = "running" THEN 1 ELSE 0)

-----------------------------------------------------------------------------
\* Variant: a dependency that was found down is not asked again.
AskKept(r) ==
    /\ answer[r] # "pending"
    /\ answer' = [answer EXCEPT ![r] = "pending"]
    /\ probe' = [probe EXCEPT ![r] = [d \in Dep |->
                    IF probe[r][d] = "down" THEN "down"
                    ELSE IF d = "object_store" THEN "queued" ELSE "running"]]
    /\ UNCHANGED <<dep, stuck, job>>

\* readiness: asyncio.gather starts the probes.
Ask(r) ==
    /\ answer[r] # "pending"
    /\ answer' = [answer EXCEPT ![r] = "pending"]
    /\ probe' = [probe EXCEPT ![r] = [d \in Dep |-> IF d = "object_store" THEN "queued" ELSE "running"]]
    /\ UNCHANGED <<dep, stuck, job>>

\* asyncio.to_thread: the call gets a thread.
StartCall(r) ==
    /\ probe[r]["object_store"] = "queued" /\ Busy < Threads
    /\ probe' = [probe EXCEPT ![r]["object_store"] = "running"]
    /\ UNCHANGED <<dep, answer, stuck, job>>

\* Variant: only a dependency that refuses is down.
VerdictOptimistic(state) == IF state = "down" THEN "down" ELSE "up"

\* What a probe returns that ended.
Verdict(state) == IF state = "up" THEN "up" ELSE "down"

\* _probe: the dependency answers, or refuses.
ProbeEnds(r, d) ==
    /\ probe[r][d] = "running" /\ dep[d] # "hung"
    /\ probe' = [probe EXCEPT ![r][d] = Verdict(dep[d])]
    /\ UNCHANGED <<dep, answer, stuck, job>>

\* The probe outlasts the timeout: its dependency hangs, or abandoned calls
\* hold every thread.  Other calls are taken to be shorter than the timeout.
WaitsTooLong(r, d) ==
    \/ probe[r][d] = "running" /\ dep[d] = "hung"
    \/ probe[r][d] = "queued" /\ stuck = Threads

\* asyncio.timeout: a call that waits for a thread is cancelled, one that
\* runs is abandoned.
ProbeTimesOut(r, d) ==
    /\ WaitsTooLong(r, d)
    /\ probe' = [probe EXCEPT ![r][d] = Verdict("hung")]
    /\ stuck' = IF d = "object_store" /\ probe[r][d] = "running" THEN stuck + 1 ELSE stuck
    /\ UNCHANGED <<dep, answer, job>>

Answer(r) ==
    /\ answer[r] = "pending" /\ \A d \in Dep : probe[r][d] \in {"up", "down"}
    /\ answer' = [answer EXCEPT ![r] = IF \A d \in Dep : probe[r][d] = "up" THEN "ready" ELSE "not_ready"]
    /\ UNCHANGED <<dep, probe, stuck, job>>

\* An abandoned call ends, in the thread, with nobody waiting for it.
CallEnds == stuck > 0 /\ stuck' = stuck - 1 /\ UNCHANGED <<dep, probe, answer, job>>

\* Other work, such as the hashing and checking of a document, in a thread.
JobSteps ==
    /\ \/ job = "idle" /\ job' = "queued"
       \/ job = "running" /\ job' = "idle"
    /\ UNCHANGED <<dep, probe, answer, stuck>>

JobStarts ==
    /\ job = "queued" /\ Busy < Threads /\ job' = "running"
    /\ UNCHANGED <<dep, probe, answer, stuck>>

DependencyChanges(d, state) ==
    /\ dep[d] # state
    /\ dep' = [dep EXCEPT ![d] = state]
    /\ UNCHANGED <<probe, answer, stuck, job>>

Handle(r) == Answer(r) \/ \E d \in Dep : ProbeEnds(r, d) \/ ProbeTimesOut(r, d)

Step ==
    \/ CallEnds \/ JobSteps \/ JobStarts
    \/ \E r \in Request : Ask(r) \/ StartCall(r) \/ Handle(r)
    \/ \E d \in Dep, state \in {"up", "down", "hung"} : DependencyChanges(d, state)

\* Whoever is pending has seen the dependencies that are up.
Observe ==
    seenUp' = [r \in Request |->
        (IF answer[r] = "pending" THEN seenUp[r] ELSE IF answer'[r] = "pending" THEN {} ELSE seenUp[r])
          \cup (IF answer'[r] = "pending" THEN {d \in Dep : dep'[d] = "up"} ELSE {})]

Next == Step /\ Observe

Spec == Init /\ [][Next]_vars

\* The event loop and its timers run, and a thread that is free is given to
\* whoever waits; clients ask again.
FairSpec ==
    /\ Spec
    /\ \A r \in Request : WF_vars(Handle(r) /\ Observe) /\ SF_vars(StartCall(r) /\ Observe)
                          /\ WF_vars(Ask(r) /\ Observe)
    /\ WF_vars(JobSteps /\ Observe) /\ SF_vars(JobStarts /\ Observe)

-----------------------------------------------------------------------------
(* Properties *)

\* "ready" is said only when every dependency was up at some time while the
\* request was handled: no verdict of an earlier or abandoned probe counts.
ReadyIsFresh == \A r \in Request : answer[r] = "ready" => seenUp[r] = Dep

\* Every request is answered, also when a dependency hangs for ever and
\* abandoned calls hold the whole pool (_probe).
EveryRequestAnswered == \A r \in Request : answer[r] = "pending" ~> answer[r] # "pending"

\* Once every dependency stays up and some thread stays free of abandoned
\* calls, only "ready" is answered: an outage leaves no trace of its own.
RecoversAfterOutage ==
    <>[]((\A d \in Dep : dep[d] = "up") /\ stuck < Threads)
      => <>[](\A r \in Request : answer[r] # "not_ready")

\* Readiness stays useful during an outage and recovers after it.
ReadinessRecovers == EveryRequestAnswered /\ RecoversAfterOutage
=============================================================================

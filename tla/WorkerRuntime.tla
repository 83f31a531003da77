---------------------------- MODULE WorkerRuntime ----------------------------
(***************************************************************************)
(* One pool process of the worker: WorkerRuntime starts an event loop and  *)
(* a container on first use, runs the coroutine of every task on them, and *)
(* closes both at exit.  Celery's soft time limit raises an exception in   *)
(* the thread that runs the loop, once for a task: inside a coroutine,     *)
(* which then fails, or while the loop waits, or between two lines of      *)
(* WorkerRuntime itself.  What happens inside start and close of a         *)
(* container is the subject of ContainerLifecycle; here a container is     *)
(* named after the task that created it.                                   *)
(***************************************************************************)

CONSTANTS
    Task,         \* tasks that call run, at most once each
    NoTask,       \* nobody
    Exit          \* the call of close: by atexit

\* What is assumed of the constants.
RuntimeAssumption == NoTask # Exit /\ {NoTask, Exit} \cap Task = {}

Thread == Task \cup {Exit}

VARIABLES
    state,        \* WorkerRuntimeState
    lock,         \* the thread that holds _lock, or NoTask
    current,      \* the task whose container is in _container, or NoTask
    container,    \* each task's container: "open" if it may own resources
    pc,           \* what every thread is doing
    loop,         \* tasks whose coroutine is on the event loop, unfinished
    limit         \* where the soft time limit struck a task, or "none"

vars == <<state, lock, current, container, pc, loop, limit>>

TypeOK ==
    /\ state \in {"new", "started", "closed"}
    /\ lock \in Thread \cup {NoTask}
    /\ current \in Task \cup {NoTask}
    /\ container \in [Task -> {"none", "open", "closed"}]
    /\ pc \in [Thread -> {"idle", "entered", "starting", "cleaning", "recording", "running",
                          "closing", "returned", "failed"}]
    /\ loop \subseteq Task
    /\ limit \in [Task -> {"none", "entered", "starting", "cleaning", "recording", "running"}]
    /\ lock = NoTask <=> \A t \in Thread : pc[t] \in {"idle", "returned", "failed"}

Init ==
    /\ state = "new"
    /\ lock = NoTask
    /\ current = NoTask
    /\ container = [t \in Task |-> "none"]
    /\ pc = [t \in Thread |-> "idle"]
    /\ loop = {}
    /\ limit = [t \in Task |-> "none"]

\* Variant: the lock is not released by an exception.
ReleaseUnlessFailed(t, outcome) ==
    /\ lock' = IF outcome = "failed" THEN t ELSE NoTask
    /\ pc' = [pc EXCEPT ![t] = outcome]

\* with self._lock: left by return or by exception.
Release(t, outcome) == lock' = NoTask /\ pc' = [pc EXCEPT ![t] = outcome]

Enter(t) ==
    /\ pc[t] = "idle" /\ lock = NoTask
    /\ lock' = t
    /\ pc' = [pc EXCEPT ![t] = "entered"]
    /\ UNCHANGED <<state, current, container, loop, limit>>

\* The soft time limit of a task: signalled at most once.
Strike(t) == limit[t] = "none" /\ limit' = [limit EXCEPT ![t] = pc[t]]

-----------------------------------------------------------------------------
(* run and _ensure_started *)

Refuse(t) ==
    /\ t \in Task /\ pc[t] = "entered" /\ state = "closed"
    /\ Release(t, "failed")
    /\ UNCHANGED <<state, current, container, loop, limit>>

\* A runner and a container of their own, in this process.
BeginStart(t) ==
    /\ t \in Task /\ pc[t] = "entered" /\ state = "new"
    /\ container' = [container EXCEPT ![t] = "open"]
    /\ pc' = [pc EXCEPT ![t] = "starting"]
    /\ UNCHANGED <<state, lock, current, loop, limit>>

StartReturns(t) ==
    /\ pc[t] = "starting"
    /\ pc' = [pc EXCEPT ![t] = "recording"]
    /\ UNCHANGED <<state, lock, current, container, loop, limit>>

\* A resource fails, or the time limit strikes: inside start, or while the
\* loop waits, and then runner.close() cancels start.  start cleans up.
StartFails(t) ==
    /\ pc[t] = "starting"
    /\ Strike(t) \/ UNCHANGED limit
    /\ pc' = [pc EXCEPT ![t] = "cleaning"]
    /\ UNCHANGED <<state, lock, current, container, loop>>

\* Variant: start does not clean up.
AfterFailedStartDropped(t) == container

\* _close_resources came to its end: every resource was closed or gave up.
AfterFailedStart(t) == [container EXCEPT ![t] = "closed"]

\* The start has failed.  The next task may try again.
CleanedUp(t) ==
    /\ pc[t] = "cleaning"
    /\ container' = AfterFailedStart(t)
    /\ Release(t, "failed")
    /\ UNCHANGED <<state, current, loop, limit>>

\* Raised inside the close of a resource, the time limit counts as its
\* failure and the cleanup goes on.  Otherwise it leaves _close_resources, or
\* run() and then runner.close() cancels the cleanup: what is left in the
\* list stays open, and nobody calls container.close().
LimitInCleanup(t) ==
    /\ pc[t] = "cleaning"
    /\ Strike(t)
    /\ Release(t, "failed") \/ UNCHANGED <<lock, pc>>
    /\ UNCHANGED <<state, current, container, loop>>

\* The coroutine of the task is put on the loop.
Submit(t) ==
    /\ pc' = [pc EXCEPT ![t] = "running"]
    /\ loop' = loop \cup {t}
    /\ UNCHANGED lock

Record(t) ==
    /\ pc[t] = "recording"
    /\ state' = "started" /\ current' = t
    /\ Submit(t)
    /\ UNCHANGED <<container, limit>>

\* The time limit strikes when start has finished, before, between or after
\* the assignments: the container stays open, recorded or not.
LimitInRecording(t) ==
    /\ pc[t] = "recording"
    /\ Strike(t)
    /\ \/ UNCHANGED <<state, current>>
       \/ current' = t /\ state' \in {state, "started"}
    /\ Release(t, "failed")
    /\ UNCHANGED <<container, loop>>

Run(t) ==
    /\ t \in Task /\ pc[t] = "entered" /\ state = "started"
    /\ Submit(t)
    /\ UNCHANGED <<state, current, container, limit>>

\* The loop runs while a thread is in runner.run; all coroutines on it go on.
LoopRuns == \E t \in Thread : pc[t] \in {"running", "closing"}

\* A coroutine that nobody waits for ends, with the effect it was to have.
OrphanEnds(o) ==
    /\ o \in loop /\ pc[o] # "running" /\ LoopRuns
    /\ loop' = loop \ {o}
    /\ UNCHANGED <<state, lock, current, container, pc, limit>>

\* The coroutine returns or raises (the time limit in it, too).
Return(t) ==
    /\ pc[t] = "running"
    /\ loop' = loop \ {t}
    /\ \E outcome \in {"returned", "failed"} : Release(t, outcome)
    /\ UNCHANGED <<state, current, container, limit>>

\* The time limit strikes before the coroutine runs, or while the loop waits:
\* nobody cancels the coroutine.
SoftTimeLimit(t) ==
    /\ t \in Task /\ pc[t] \in {"entered", "running"}
    /\ Strike(t)
    /\ Release(t, "failed")
    /\ UNCHANGED <<state, current, container, loop>>

-----------------------------------------------------------------------------
(* close *)

\* runner.run(container.close()), or nothing to close.
BeginClose ==
    /\ pc[Exit] = "entered"
    /\ IF current # NoTask
         THEN pc' = [pc EXCEPT ![Exit] = "closing"] /\ UNCHANGED <<state, lock>>
         ELSE state' = "closed" /\ Release(Exit, "returned")
    /\ UNCHANGED <<current, container, loop, limit>>

\* runner.close() cancels what is still on the loop.
LoopAfterClose == {}

\* container.close() returns or raises; either way the finally clause runs.
FinishClose ==
    /\ pc[Exit] = "closing"
    /\ container' = [container EXCEPT ![current] = "closed"]
    /\ current' = NoTask
    /\ loop' = LoopAfterClose
    /\ state' = "closed"
    /\ Release(Exit, "returned")
    /\ UNCHANGED limit

\* What a task does that is inside runner.run or about to leave it.
Goes(t) ==
    \/ StartReturns(t) \/ StartFails(t) \/ CleanedUp(t) \/ LimitInCleanup(t)
    \/ Record(t) \/ LimitInRecording(t) \/ Return(t) \/ SoftTimeLimit(t)

Next ==
    \/ \E t \in Thread : Enter(t)
    \/ \E t \in Task : Refuse(t) \/ BeginStart(t) \/ Run(t) \/ Goes(t) \/ OrphanEnds(t)
    \/ BeginClose \/ FinishClose

Spec == Init /\ [][Next]_vars

\* A thread that may go on does, and the time limits end a task that does
\* not.  A lock that stays free is granted; no order among waiters is assumed.
FairSpec ==
    /\ Spec
    /\ WF_vars(BeginClose \/ FinishClose)
    /\ \A t \in Thread : WF_vars(Enter(t))
    /\ \A t \in Task : WF_vars(Refuse(t) \/ BeginStart(t) \/ Run(t)) /\ WF_vars(Goes(t))

-----------------------------------------------------------------------------
(* Properties *)

\* A container has its resources open only while it is being started or
\* cleaned up, or as the container of the started runtime.  The exception:
\* one whose task the time limit struck in the cleanup of a failed start, or
\* between the end of start and its record (_ensure_started, close).
OneOpenContainer ==
    \A c \in Task : container[c] = "open" =>
        \/ pc[c] \in {"starting", "cleaning", "recording"}
        \/ state = "started" /\ current = c
        \/ limit[c] \in {"cleaning", "recording"}

\* A task whose run() is in progress has an open container under it.
TasksHaveContainer ==
    \A t \in Task : pc[t] = "running" =>
        state = "started" /\ current \in Task /\ container[current] = "open"

\* A closed runtime runs nothing: no coroutine survives on its loop and none
\* is added (close, and the check in _ensure_started).
NothingRunsAfterClose == state = "closed" => loop = {} /\ \A t \in Task : pc[t] # "running"

\* Tasks run in the one container recorded; no other stays open, save where
\* the time limit struck in a cleanup or before the record; and nothing
\* outlives the close.
ContainerOwned == OneOpenContainer /\ TasksHaveContainer /\ NothingRunsAfterClose

\* "startup is atomic from the process perspective; no partial pools may
\* survive" (ApplicationContainer.start): a call of run whose own start was
\* cut short leaves no container open that the runtime does not own.  The
\* code does not keep this (_ensure_started).
FailedStartsLeaveNothing ==
    \A t \in Task : pc[t] = "failed" /\ container[t] = "open" => current = t

\* Every call of run or close comes back: none keeps the lock from the
\* others, whatever fails in it.
CallsReturn ==
    \A t \in Thread : pc[t] = "idle" ~> pc[t] \in {"returned", "failed"}
=============================================================================

------------------------- MODULE WorkerTasks_proofs -------------------------
(***************************************************************************)
(* Proofs about MCWorkerTasks and the parts that it takes as instances,    *)
(* each from an inductive invariant of its own.  WorkerRuntime, for every  *)
(* number of calls and wherever the time limit strikes: ContainerOwned.    *)
(* ToolExecutor, for every ToolSpec: ExecutionAccounted.  DocumentElements,*)
(* for all that a parser may report: EvidenceSound.  And, with             *)
(* TaskDelivery_proofs, type correctness of the composition.               *)
(***************************************************************************)
EXTENDS MCWorkerTasks, TaskDelivery_proofs

-----------------------------------------------------------------------------
(* WorkerRuntime: the inductive invariant *)

\* Whoever is inside run or close holds the lock, and nobody else does.
Inside(t) == pc[t] \in {"entered", "starting", "cleaning", "recording", "running", "closing"}

LockOK ==
    /\ \A t \in Runtime!Thread : Inside(t) <=> lock = t
    /\ \A t \in Call : pc[t] # "closing"
    /\ pc[Exit] \notin {"starting", "cleaning", "recording", "running"}

\* What the step a thread has reached says of the runtime.
PhaseOK ==
    /\ \A t \in Call : pc[t] \in {"starting", "cleaning", "recording"} =>
          state = "new" /\ container[t] = "open"
    /\ \A t \in Call : pc[t] = "running" => state = "started"
    /\ pc[Exit] = "closing" => current \in Call

\* The container of a started runtime is open, and the others are accounted for.
OpenOK ==
    /\ state = "started" => current \in Call /\ container[current] = "open"
    /\ Runtime!OneOpenContainer

\* Coroutines are on the loop of a started runtime only.
LoopOK == state # "started" => loop = {}

RuntimeIInv == Runtime!TypeOK /\ LockOK /\ PhaseOK /\ OpenOK /\ LoopOK

-----------------------------------------------------------------------------
(* WorkerRuntime: the invariant is inductive, one lemma per action *)

\* The threads are the calls of run and the call of close.
LEMMA ThreadFacts ==
  /\ Exit \in Runtime!Thread /\ Call \subseteq Runtime!Thread
  /\ \A t \in Runtime!Thread : t \in Call \/ t = Exit
  /\ Exit \notin Call /\ NoTask \notin Runtime!Thread
BY TasksAssumption DEF Runtime!Thread, Runtime!RuntimeAssumption

LEMMA InitRuntimeIInv == Runtime!Init => RuntimeIInv
<1>1. SUFFICES ASSUME Runtime!Init PROVE RuntimeIInv
  OBVIOUS
<1>2. Runtime!TypeOK /\ LockOK
  BY <1>1, ThreadFacts DEF Runtime!Init, Runtime!TypeOK, LockOK, Inside
<1>3. PhaseOK /\ OpenOK /\ LoopOK
  BY <1>1, ThreadFacts DEF Runtime!Init, PhaseOK, OpenOK, Runtime!OneOpenContainer, LoopOK
<1>4. QED
  BY <1>2, <1>3 DEF RuntimeIInv

LEMMA EnterIInv ==
  ASSUME RuntimeIInv, NEW t \in Runtime!Thread, Runtime!Enter(t)
  PROVE  RuntimeIInv'
<1> USE ThreadFacts DEF Inside, RuntimeIInv, Runtime!TypeOK, LockOK, Runtime!Enter
<1>1. Runtime!TypeOK'
  OBVIOUS
<1>2. LockOK'
  OBVIOUS
<1>3. PhaseOK'
  BY DEF PhaseOK, OpenOK
<1>4. OpenOK'
  BY DEF PhaseOK, OpenOK, Runtime!OneOpenContainer
<1>5. LoopOK'
  BY DEF PhaseOK, OpenOK, LoopOK
<1>6. QED
  BY <1>1, <1>2, <1>3, <1>4, <1>5

LEMMA RefuseIInv ==
  ASSUME RuntimeIInv, NEW t \in Call, Runtime!Refuse(t)
  PROVE  RuntimeIInv'
<1> USE ThreadFacts DEF Inside, RuntimeIInv, Runtime!TypeOK, LockOK, Runtime!Refuse, Runtime!Release
<1>1. Runtime!TypeOK'
  OBVIOUS
<1>2. LockOK'
  OBVIOUS
<1>3. PhaseOK'
  BY DEF PhaseOK, OpenOK
<1>4. OpenOK'
  BY DEF PhaseOK, OpenOK, Runtime!OneOpenContainer
<1>5. LoopOK'
  BY DEF PhaseOK, OpenOK, LoopOK
<1>6. QED
  BY <1>1, <1>2, <1>3, <1>4, <1>5

LEMMA BeginStartIInv ==
  ASSUME RuntimeIInv, NEW t \in Call, Runtime!BeginStart(t)
  PROVE  RuntimeIInv'
<1> USE ThreadFacts DEF Inside, RuntimeIInv, Runtime!TypeOK, LockOK, Runtime!BeginStart
<1>1. Runtime!TypeOK'
  OBVIOUS
<1>2. LockOK'
  OBVIOUS
<1>3. PhaseOK'
  BY DEF PhaseOK, OpenOK
<1>4. OpenOK'
  BY DEF PhaseOK, OpenOK, Runtime!OneOpenContainer
<1>5. LoopOK'
  BY DEF PhaseOK, OpenOK, LoopOK
<1>6. QED
  BY <1>1, <1>2, <1>3, <1>4, <1>5

LEMMA StartReturnsIInv ==
  ASSUME RuntimeIInv, NEW t \in Call, Runtime!StartReturns(t)
  PROVE  RuntimeIInv'
<1> USE ThreadFacts DEF Inside, RuntimeIInv, Runtime!TypeOK, LockOK, Runtime!StartReturns
<1>1. Runtime!TypeOK'
  OBVIOUS
<1>2. LockOK'
  OBVIOUS
<1>3. PhaseOK'
  BY DEF PhaseOK, OpenOK
<1>4. OpenOK'
  BY DEF PhaseOK, OpenOK, Runtime!OneOpenContainer
<1>5. LoopOK'
  BY DEF PhaseOK, OpenOK, LoopOK
<1>6. QED
  BY <1>1, <1>2, <1>3, <1>4, <1>5

LEMMA StartFailsIInv ==
  ASSUME RuntimeIInv, NEW t \in Call, Runtime!StartFails(t)
  PROVE  RuntimeIInv'
<1> USE ThreadFacts DEF Inside, RuntimeIInv, Runtime!TypeOK, LockOK, Runtime!StartFails, Runtime!Strike
<1>1. Runtime!TypeOK'
  OBVIOUS
<1>2. LockOK'
  OBVIOUS
<1>3. PhaseOK'
  BY DEF PhaseOK, OpenOK
<1>4. OpenOK'
  BY DEF PhaseOK, OpenOK, Runtime!OneOpenContainer
<1>5. LoopOK'
  BY DEF PhaseOK, OpenOK, LoopOK
<1>6. QED
  BY <1>1, <1>2, <1>3, <1>4, <1>5

LEMMA CleanedUpIInv ==
  ASSUME RuntimeIInv, NEW t \in Call, Runtime!CleanedUp(t)
  PROVE  RuntimeIInv'
<1> USE ThreadFacts DEF Inside, RuntimeIInv, Runtime!TypeOK, LockOK, Runtime!CleanedUp, Runtime!AfterFailedStart, Runtime!Release
<1>1. Runtime!TypeOK'
  OBVIOUS
<1>2. LockOK'
  OBVIOUS
<1>3. PhaseOK'
  BY DEF PhaseOK, OpenOK
<1>4. OpenOK'
  BY DEF PhaseOK, OpenOK, Runtime!OneOpenContainer
<1>5. LoopOK'
  BY DEF PhaseOK, OpenOK, LoopOK
<1>6. QED
  BY <1>1, <1>2, <1>3, <1>4, <1>5

LEMMA LimitInCleanupIInv ==
  ASSUME RuntimeIInv, NEW t \in Call, Runtime!LimitInCleanup(t)
  PROVE  RuntimeIInv'
<1> USE ThreadFacts DEF Inside, RuntimeIInv, Runtime!TypeOK, LockOK, Runtime!LimitInCleanup, Runtime!Strike, Runtime!Release
<1>1. Runtime!TypeOK'
  OBVIOUS
<1>2. LockOK'
  OBVIOUS
<1>3. PhaseOK'
  BY DEF PhaseOK, OpenOK
<1>4. OpenOK'
  BY DEF PhaseOK, OpenOK, Runtime!OneOpenContainer
<1>5. LoopOK'
  BY DEF PhaseOK, OpenOK, LoopOK
<1>6. QED
  BY <1>1, <1>2, <1>3, <1>4, <1>5

LEMMA RecordIInv ==
  ASSUME RuntimeIInv, NEW t \in Call, Runtime!Record(t)
  PROVE  RuntimeIInv'
<1> USE ThreadFacts DEF Inside, RuntimeIInv, Runtime!TypeOK, LockOK, Runtime!Record, Runtime!Submit
<1>1. Runtime!TypeOK'
  OBVIOUS
<1>2. LockOK'
  OBVIOUS
<1>3. PhaseOK'
  BY DEF PhaseOK, OpenOK
<1>4. OpenOK'
  BY DEF PhaseOK, OpenOK, Runtime!OneOpenContainer
<1>5. LoopOK'
  BY DEF PhaseOK, OpenOK, LoopOK
<1>6. QED
  BY <1>1, <1>2, <1>3, <1>4, <1>5

LEMMA LimitInRecordingIInv ==
  ASSUME RuntimeIInv, NEW t \in Call, Runtime!LimitInRecording(t)
  PROVE  RuntimeIInv'
<1> USE ThreadFacts DEF Inside, RuntimeIInv, Runtime!TypeOK, LockOK, Runtime!LimitInRecording, Runtime!Strike, Runtime!Release
<1>1. Runtime!TypeOK'
  OBVIOUS
<1>2. LockOK'
  OBVIOUS
<1>3. PhaseOK'
  BY DEF PhaseOK, OpenOK
<1>4. OpenOK'
  BY DEF PhaseOK, OpenOK, Runtime!OneOpenContainer
<1>5. LoopOK'
  BY DEF PhaseOK, OpenOK, LoopOK
<1>6. QED
  BY <1>1, <1>2, <1>3, <1>4, <1>5

LEMMA RunIInv ==
  ASSUME RuntimeIInv, NEW t \in Call, Runtime!Run(t)
  PROVE  RuntimeIInv'
<1> USE ThreadFacts DEF Inside, RuntimeIInv, Runtime!TypeOK, LockOK, Runtime!Run, Runtime!Submit
<1>1. Runtime!TypeOK'
  OBVIOUS
<1>2. LockOK'
  OBVIOUS
<1>3. PhaseOK'
  BY DEF PhaseOK, OpenOK
<1>4. OpenOK'
  BY DEF PhaseOK, OpenOK, Runtime!OneOpenContainer
<1>5. LoopOK'
  BY DEF PhaseOK, OpenOK, LoopOK
<1>6. QED
  BY <1>1, <1>2, <1>3, <1>4, <1>5

LEMMA ReturnIInv ==
  ASSUME RuntimeIInv, NEW t \in Call, Runtime!Return(t)
  PROVE  RuntimeIInv'
<1> USE ThreadFacts DEF Inside, RuntimeIInv, Runtime!TypeOK, LockOK, Runtime!Return, Runtime!Release
<1>1. Runtime!TypeOK'
  OBVIOUS
<1>2. LockOK'
  OBVIOUS
<1>3. PhaseOK'
  BY DEF PhaseOK, OpenOK
<1>4. OpenOK'
  BY DEF PhaseOK, OpenOK, Runtime!OneOpenContainer
<1>5. LoopOK'
  BY DEF PhaseOK, OpenOK, LoopOK
<1>6. QED
  BY <1>1, <1>2, <1>3, <1>4, <1>5

LEMMA SoftTimeLimitIInv ==
  ASSUME RuntimeIInv, NEW t \in Call, Runtime!SoftTimeLimit(t)
  PROVE  RuntimeIInv'
<1> USE ThreadFacts DEF Inside, RuntimeIInv, Runtime!TypeOK, LockOK, Runtime!SoftTimeLimit, Runtime!Strike, Runtime!Release
<1>1. Runtime!TypeOK'
  OBVIOUS
<1>2. LockOK'
  OBVIOUS
<1>3. PhaseOK'
  BY DEF PhaseOK, OpenOK
<1>4. OpenOK'
  BY DEF PhaseOK, OpenOK, Runtime!OneOpenContainer
<1>5. LoopOK'
  BY DEF PhaseOK, OpenOK, LoopOK
<1>6. QED
  BY <1>1, <1>2, <1>3, <1>4, <1>5

LEMMA OrphanEndsIInv ==
  ASSUME RuntimeIInv, NEW t \in Call, Runtime!OrphanEnds(t)
  PROVE  RuntimeIInv'
<1> USE ThreadFacts DEF Inside, RuntimeIInv, Runtime!TypeOK, LockOK, Runtime!OrphanEnds
<1>1. Runtime!TypeOK'
  OBVIOUS
<1>2. LockOK'
  OBVIOUS
<1>3. PhaseOK'
  BY DEF PhaseOK, OpenOK
<1>4. OpenOK'
  BY DEF PhaseOK, OpenOK, Runtime!OneOpenContainer
<1>5. LoopOK'
  BY DEF PhaseOK, OpenOK, LoopOK
<1>6. QED
  BY <1>1, <1>2, <1>3, <1>4, <1>5

LEMMA BeginCloseIInv ==
  ASSUME RuntimeIInv, Runtime!BeginClose
  PROVE  RuntimeIInv'
<1> USE ThreadFacts DEF Inside, RuntimeIInv, Runtime!TypeOK, LockOK, Runtime!BeginClose, Runtime!Release
<1>1. Runtime!TypeOK'
  OBVIOUS
<1>2. LockOK'
  OBVIOUS
<1>3. PhaseOK'
  BY DEF PhaseOK, OpenOK
<1>4. OpenOK'
  BY DEF PhaseOK, OpenOK, Runtime!OneOpenContainer
<1>5. LoopOK'
  BY DEF PhaseOK, OpenOK, LoopOK
<1>6. QED
  BY <1>1, <1>2, <1>3, <1>4, <1>5

LEMMA FinishCloseIInv ==
  ASSUME RuntimeIInv, Runtime!FinishClose
  PROVE  RuntimeIInv'
<1> USE ThreadFacts DEF Inside, RuntimeIInv, Runtime!TypeOK, LockOK, Runtime!FinishClose, Runtime!LoopAfterClose, Runtime!Release
<1>1. Runtime!TypeOK'
  OBVIOUS
<1>2. LockOK'
  OBVIOUS
<1>3. PhaseOK'
  BY DEF PhaseOK, OpenOK
<1>4. OpenOK'
  BY DEF PhaseOK, OpenOK, Runtime!OneOpenContainer
<1>5. LoopOK'
  BY DEF PhaseOK, OpenOK, LoopOK
<1>6. QED
  BY <1>1, <1>2, <1>3, <1>4, <1>5

\* A step that changes nothing.
LEMMA StutterRuntimeIInv == RuntimeIInv /\ UNCHANGED Runtime!vars => RuntimeIInv'
BY DEF RuntimeIInv, Runtime!vars, Runtime!TypeOK, LockOK, Inside, PhaseOK, OpenOK,
   Runtime!OneOpenContainer, LoopOK

LEMMA NextRuntimeIInv == RuntimeIInv /\ [Runtime!Next]_(Runtime!vars) => RuntimeIInv'
<1>1. SUFFICES ASSUME RuntimeIInv, [Runtime!Next]_(Runtime!vars) PROVE RuntimeIInv'
  OBVIOUS
<1>2. CASE UNCHANGED Runtime!vars
  BY <1>1, <1>2, StutterRuntimeIInv
<1>3. CASE \E t \in Runtime!Thread : Runtime!Enter(t)
  BY <1>1, <1>3, EnterIInv
<1>4. CASE Runtime!BeginClose \/ Runtime!FinishClose
  BY <1>1, <1>4, BeginCloseIInv, FinishCloseIInv
<1>5. ASSUME NEW t \in Call,
             \/ Runtime!Refuse(t) \/ Runtime!BeginStart(t) \/ Runtime!Run(t)
             \/ Runtime!Goes(t) \/ Runtime!OrphanEnds(t)
      PROVE  RuntimeIInv'
  BY <1>1, <1>5, RefuseIInv, BeginStartIInv, StartReturnsIInv, StartFailsIInv, CleanedUpIInv,
     LimitInCleanupIInv, RecordIInv, LimitInRecordingIInv, RunIInv, ReturnIInv,
     SoftTimeLimitIInv, OrphanEndsIInv
  DEF Runtime!Goes
<1>6. QED
  BY <1>1, <1>2, <1>3, <1>4, <1>5 DEF Runtime!Next

-----------------------------------------------------------------------------
(* The theorems about WorkerRuntime *)

\* The inductive invariant holds in every state, wherever the time limit
\* strikes and however many starts fail.
THEOREM RuntimeInvariance == Runtime!Spec => []RuntimeIInv
<1>1. QED
  BY InitRuntimeIInv, NextRuntimeIInv, PTL DEF Runtime!Spec

\* Every variable keeps its type, and the lock is free exactly when no
\* thread is inside run or close.
THEOREM RuntimeTypeCorrectness == Runtime!Spec => []Runtime!TypeOK
<1>1. RuntimeIInv => Runtime!TypeOK
  BY DEF RuntimeIInv
<1>2. QED
  BY <1>1, RuntimeInvariance, PTL

\* For every number of tasks, wherever the time limit strikes: a task that
\* runs has the open container that the runtime has recorded, no coroutine
\* survives the close, and no other container stays open when run() has come
\* back, a failed start's included, with the one exception of a time limit
\* that struck in the cleanup of a failed start or between the end of start
\* and its record (_ensure_started has no container.close() of its own).
THEOREM TasksOwnTheirContainer == Runtime!Spec => []ContainerOwned
<1>1. RuntimeIInv => ContainerOwned
  <2>1. SUFFICES ASSUME RuntimeIInv PROVE ContainerOwned
    OBVIOUS
  <2>2. Runtime!OneOpenContainer
    BY <2>1 DEF RuntimeIInv, OpenOK
  <2>3. Runtime!TasksHaveContainer
    BY <2>1 DEF RuntimeIInv, OpenOK, PhaseOK, Runtime!TasksHaveContainer
  <2>4. Runtime!NothingRunsAfterClose
    BY <2>1 DEF RuntimeIInv, PhaseOK, LoopOK, Runtime!NothingRunsAfterClose
  <2>5. QED
    BY <2>2, <2>3, <2>4 DEF ContainerOwned, Runtime!ContainerOwned
<1>2. QED
  BY <1>1, RuntimeInvariance, PTL

-----------------------------------------------------------------------------
(* ToolExecutor: the inductive invariant *)

\* The steps of an attempt.
Trying == {"starting", "invoking", "recording", "retrying", "sleeping"}

\* The attempt that is counted, and who gets a second one.
AttemptOK ==
    /\ step = "registering" => attempt = 0
    /\ step \in Trying => attempt >= 1
    /\ step \in {"retrying", "sleeping"} => attempt < MaxAttempts /\ tool \in Idempotent
    /\ step = "recording" => outcome \in {"success", "timeout", "failed", "transient"}
    /\ step = "retrying" => outcome \in {"timeout", "transient"}
    /\ step = "returned" => outcome # "none"
    /\ tool \notin Idempotent => attempt <= 1

\* An attempt has its effect, or leaves one behind, at most once and not
\* before it is invoked.
EffectsOK ==
    effects + late <= IF step \in {"starting", "invoking"} THEN attempt - 1 ELSE attempt

\* The longest time that n attempts take, each with the wait after it.
Rounds(n) == n * (Timeout + MaxDelay)

\* The time that has passed, step by step.
TimeOK ==
    /\ step = "registering" => elapsed = 0
    /\ step = "starting" => elapsed <= Rounds(attempt - 1)
    /\ step = "invoking" => elapsed <= Rounds(attempt - 1) + clock /\ clock <= Timeout
    /\ step \in {"recording", "retrying"} => elapsed <= Rounds(attempt - 1) + Timeout
    /\ step = "sleeping" => elapsed <= Rounds(attempt - 1) + Timeout + clock /\ clock <= Tools!Delay(attempt)
    /\ elapsed <= Rounds(MaxAttempts - 1) + Timeout

\* What the last event says at every step.
Last == events[Len(events)]

EventsOK ==
    /\ step = "registering" => events = <<>>
    /\ step = "starting" => IF events = <<>> THEN attempt = 1
                                             ELSE Last.type = "retrying" /\ Last.attempt = attempt - 1
    /\ step \in {"invoking", "recording"} => events # <<>> /\ Last.type = "started" /\ Last.attempt = attempt
    /\ step = "retrying" => events # <<>> /\ Last.type \in {"failed", "timed_out"} /\ Last.attempt = attempt
    /\ step = "sleeping" => events # <<>> /\ Last.type = "retrying" /\ Last.attempt = attempt

\* The order of the events, of which the first one is "started".
Told(ev) ==
    /\ ev # <<>> => ev[1].type = "started"
    /\ \A i \in DOMAIN ev : i > 1 =>
         IF ev[i].type = "started"
           THEN ev[i - 1].type = "retrying" /\ ev[i].attempt = ev[i - 1].attempt + 1
           ELSE /\ ev[i].attempt = ev[i - 1].attempt
                /\ ev[i].type # "retrying" => ev[i - 1].type = "started"
                /\ ev[i].type = "retrying" => ev[i - 1].type \in {"failed", "timed_out"}

\* A response is the one of the last event.
ResponseOK ==
    step = "returned" /\ outcome # "invalid_input" => events # <<>> /\ Last.type = Tools!TerminalEvent

\* The inductive invariant of ToolExecutor.
ToolsIInv ==
    /\ Tools!TypeOK
    /\ AttemptOK /\ EffectsOK /\ TimeOK /\ EventsOK /\ ResponseOK /\ Told(events)

-----------------------------------------------------------------------------
(* ToolExecutor: its operators *)

Event == [type : Tools!EventType, attempt : 1 .. MaxAttempts]

\* What ToolSpec.__post_init__ has checked; and a delay stays within its limit.
LEMMA ToolNumbers ==
  /\ MaxAttempts \in Nat /\ MaxAttempts >= 1 /\ Timeout \in Nat /\ BaseDelay \in Nat /\ MaxDelay \in Nat
  /\ Idempotent \subseteq Tool
  /\ \A n \in 1 .. MaxAttempts : Tools!Delay(n) \in 0 .. MaxDelay
<1>1. /\ MaxAttempts \in Nat /\ MaxAttempts >= 1 /\ Timeout \in Nat /\ BaseDelay \in Nat /\ MaxDelay \in Nat
      /\ Idempotent \subseteq Tool /\ \A n \in 0 .. MaxAttempts : 2 ^ n \in Nat
  BY TasksAssumption DEF Tools!SpecAssumption
<1>2. ASSUME NEW n \in 1 .. MaxAttempts PROVE Tools!Delay(n) \in 0 .. MaxDelay
  <2>1. n - 1 \in 0 .. MaxAttempts
    BY <1>1
  <2>2. PICK k \in Nat : 2 ^ (n - 1) = k
    BY <1>1, <2>1
  <2>3. BaseDelay * k \in Nat
    BY <1>1
  <2>4. Tools!Delay(n) = IF BaseDelay * k <= MaxDelay THEN BaseDelay * k ELSE MaxDelay
    BY <2>2 DEF Tools!Delay
  <2>5. QED
    BY <1>1, <2>3, <2>4
<1>3. QED
  BY <1>1, <1>2

\* Rounds adds up, and grows.
LEMMA RoundsFacts ==
  /\ \A n \in Nat : Rounds(n) \in Nat
  /\ \A n \in Nat : n >= 1 => Rounds(n) = Rounds(n - 1) + Timeout + MaxDelay
  /\ \A m, n \in Nat : m <= n => Rounds(m) <= Rounds(n)
<1> DEFINE w == Timeout + MaxDelay
<1>1. w \in Nat
  BY ToolNumbers
<1>2. \A n : Rounds(n) = n * w
  BY DEF Rounds
<1> HIDE DEF w
<1>3. \A n \in Nat : n * w \in Nat
  BY <1>1
<1>4. ASSUME NEW n \in Nat, n >= 1 PROVE n * w = (n - 1) * w + w
  BY <1>1
<1>5. ASSUME NEW m \in Nat, NEW n \in Nat, m <= n PROVE m * w <= n * w
  <2>1. PICK k \in Nat : n = m + k
    <3>1. n - m \in Nat /\ n = m + (n - m)
      BY <1>5
    <3>2. QED
      BY <3>1
  <2>2. n * w = m * w + k * w /\ k * w \in Nat /\ m * w \in Nat
    BY <1>1, <2>1
  <2>3. QED
    BY <2>2
<1>6. \A n \in Nat : n >= 1 => Rounds(n) = Rounds(n - 1) + w
  BY <1>2, <1>4
<1>7. \A n \in Nat : n >= 1 => Rounds(n) = Rounds(n - 1) + Timeout + MaxDelay
  <2>1. TAKE n \in Nat
  <2>2. HAVE n >= 1
  <2>3. Rounds(n) = Rounds(n - 1) + w /\ Rounds(n - 1) \in Nat
    BY <1>2, <1>3, <1>6, <2>2
  <2>4. QED
    BY <2>3, ToolNumbers DEF w
<1>8. QED
  BY <1>2, <1>3, <1>5, <1>7

\* The bound of the specification is that of all rounds but the last wait.
LEMMA AllRounds == Rounds(MaxAttempts - 1) + Timeout = MaxAttempts * Timeout + (MaxAttempts - 1) * MaxDelay
<1>1. PICK m \in Nat : MaxAttempts = m + 1
  <2>1. MaxAttempts - 1 \in Nat /\ MaxAttempts = (MaxAttempts - 1) + 1
    BY ToolNumbers
  <2>2. QED
    BY <2>1
<1>2. m * (Timeout + MaxDelay) + Timeout = (m + 1) * Timeout + m * MaxDelay
  BY ToolNumbers
<1>3. MaxAttempts - 1 = m
  BY <1>1
<1>4. QED
  BY <1>1, <1>2, <1>3 DEF Rounds

\* What is appended to the events.
LEMMA EventAppended ==
  ASSUME NEW ev \in Seq(Event), NEW e \in Event, NEW new, new = Append(ev, e)
  PROVE  /\ new \in Seq(Event) /\ new # <<>> /\ Len(new) = Len(ev) + 1 /\ Len(ev) \in Nat
         /\ DOMAIN new = 1 .. Len(ev) + 1
         /\ new[Len(new)] = e
         /\ \A i \in 1 .. Len(ev) : new[i] = ev[i]
OBVIOUS

\* An event that follows from the last one keeps the story in order.
LEMMA ToldAppend ==
  ASSUME NEW ev \in Seq(Event), NEW e \in Event, NEW new, new = Append(ev, e), Told(ev),
         ev = <<>> => e.type = "started",
         ev # <<>> =>
           LET l == ev[Len(ev)]
           IN  IF e.type = "started"
                 THEN l.type = "retrying" /\ e.attempt = l.attempt + 1
                 ELSE /\ e.attempt = l.attempt
                      /\ e.type # "retrying" => l.type = "started"
                      /\ e.type = "retrying" => l.type \in {"failed", "timed_out"}
  PROVE  Told(new)
<1>1. /\ Len(new) = Len(ev) + 1 /\ Len(ev) \in Nat /\ DOMAIN new = 1 .. Len(ev) + 1 /\ DOMAIN ev = 1 .. Len(ev)
      /\ new[Len(ev) + 1] = e
      /\ \A i \in 1 .. Len(ev) : new[i] = ev[i]
  BY EventAppended
<1>2. new[1].type = "started"
  <2>1. CASE ev = <<>>
    BY <1>1, <2>1
  <2>2. CASE ev # <<>>
    <3>1. 1 \in 1 .. Len(ev)
      BY <1>1, <2>2
    <3>2. QED
      BY <1>1, <2>2, <3>1 DEF Told
  <2>3. QED
    BY <2>1, <2>2
<1>3. ASSUME NEW i \in DOMAIN new, i > 1
      PROVE  IF new[i].type = "started"
               THEN new[i - 1].type = "retrying" /\ new[i].attempt = new[i - 1].attempt + 1
               ELSE /\ new[i].attempt = new[i - 1].attempt
                    /\ new[i].type # "retrying" => new[i - 1].type = "started"
                    /\ new[i].type = "retrying" => new[i - 1].type \in {"failed", "timed_out"}
  <2>1. CASE i \in 1 .. Len(ev)
    <3>1. new[i] = ev[i] /\ new[i - 1] = ev[i - 1] /\ i \in DOMAIN ev
      BY <1>1, <1>3, <2>1
    <3>2. QED
      BY <1>3, <3>1 DEF Told
  <2>2. CASE i = Len(ev) + 1
    <3>1. new[i] = e /\ i - 1 = Len(ev) /\ Len(ev) \in 1 .. Len(ev) /\ Len(ev) # 0
      BY <1>1, <1>3, <2>2
    <3>2. ev # <<>>
      BY <3>1
    <3>3. new[i - 1] = ev[Len(ev)]
      BY <1>1, <3>1
    <3>4. QED
      BY <3>1, <3>2, <3>3
  <2>3. QED
    BY <1>1, <1>3, <2>1, <2>2
<1>4. QED
  BY <1>2, <1>3 DEF Told

-----------------------------------------------------------------------------
(* ToolExecutor: the invariant holds initially and is preserved *)

\* The type of the state, in terms of Event.
LEMMA ToolsType ==
  Tools!TypeOK <=>
    /\ tools \subseteq Tool /\ tool \in Tool
    /\ step \in {"registering", "returned", "raised"} \cup Trying
    /\ attempt \in 0 .. MaxAttempts
    /\ outcome \in Tools!Outcome
    /\ clock \in 0 .. (IF Timeout > MaxDelay THEN Timeout ELSE MaxDelay)
    /\ elapsed \in Nat
    /\ effects \in 0 .. MaxAttempts /\ late \in 0 .. MaxAttempts
    /\ events \in Seq(Event)
BY DEF Tools!TypeOK, Tools!Finished, Trying, Event

LEMMA InitToolsIInv == Tools!Init => ToolsIInv
<1> SUFFICES ASSUME Tools!Init PROVE ToolsIInv
  OBVIOUS
<1>1. events \in Seq(Event) /\ events = <<>> /\ DOMAIN events = {}
  BY DEF Tools!Init
<1>2. Tools!TypeOK
  BY <1>1, ToolNumbers, ToolsType DEF Tools!Init, Tools!Outcome
<1>3. AttemptOK /\ EffectsOK /\ EventsOK /\ ResponseOK
  BY <1>1 DEF Tools!Init, AttemptOK, EffectsOK, EventsOK, ResponseOK, Trying
<1>4. TimeOK
  <2>1. MaxAttempts - 1 \in Nat
    BY ToolNumbers
  <2>2. Rounds(MaxAttempts - 1) \in Nat
    BY <2>1, RoundsFacts
  <2>3. QED
    BY <2>2, ToolNumbers DEF Tools!Init, TimeOK
<1>5. Told(events)
  BY <1>1 DEF Told
<1>6. QED
  BY <1>2, <1>3, <1>4, <1>5 DEF ToolsIInv

\* Two counts that stay together within a number.
LEMMA CountsWithin ==
  ASSUME NEW e \in Nat, NEW l \in Nat, NEW a \in Nat, NEW m \in Nat, e + l <= a, a <= m
  PROVE  e \in 0 .. m /\ l \in 0 .. m
OBVIOUS

\* One more of them is still within.
LEMMA CountsGrow ==
  ASSUME NEW e \in Nat, NEW l \in Nat, NEW f \in Nat, NEW k \in Nat, NEW a \in Nat, NEW m \in Nat,
         e + l <= a - 1, f + k <= e + l + 1, a <= m
  PROVE  f + k <= a /\ f \in 0 .. m /\ k \in 0 .. m
<1>1. f + k <= a
  OBVIOUS
<1>2. QED
  BY <1>1, CountsWithin

\* The numbers that the invariant is about.
LEMMA ToolState ==
  ASSUME ToolsIInv
  PROVE  /\ attempt \in Nat /\ attempt <= MaxAttempts /\ elapsed \in Nat /\ effects \in Nat /\ late \in Nat
         /\ clock \in Nat /\ events \in Seq(Event) /\ Rounds(MaxAttempts - 1) \in Nat
         /\ attempt >= 1 => /\ attempt - 1 \in Nat /\ attempt \in 1 .. MaxAttempts
                            /\ Rounds(attempt - 1) \in Nat /\ Rounds(attempt) \in Nat
                            /\ Rounds(attempt) = Rounds(attempt - 1) + Timeout + MaxDelay
                            /\ Rounds(attempt - 1) <= Rounds(MaxAttempts - 1)
                            /\ attempt < MaxAttempts => Rounds(attempt) <= Rounds(MaxAttempts - 1)
<1>1. /\ attempt \in 0 .. MaxAttempts /\ elapsed \in Nat /\ effects \in 0 .. MaxAttempts /\ late \in 0 .. MaxAttempts
      /\ clock \in 0 .. (IF Timeout > MaxDelay THEN Timeout ELSE MaxDelay) /\ events \in Seq(Event)
  BY ToolsType DEF ToolsIInv
<1>2. attempt \in Nat /\ effects \in Nat /\ late \in Nat /\ clock \in Nat /\ MaxAttempts - 1 \in Nat /\ attempt <= MaxAttempts
  BY <1>1, ToolNumbers
<1>3. ASSUME attempt >= 1
      PROVE  /\ attempt - 1 \in Nat /\ attempt \in 1 .. MaxAttempts /\ attempt - 1 <= MaxAttempts - 1
             /\ attempt < MaxAttempts => attempt <= MaxAttempts - 1
  BY <1>2, <1>3, ToolNumbers
<1>4. QED
  BY <1>1, <1>2, <1>3, RoundsFacts

LEMMA ExecuteIInv ==
  ASSUME ToolsIInv, Tools!Execute
  PROVE  ToolsIInv'
<1>0. /\ step = "registering" /\ attempt = 0 /\ elapsed = 0 /\ events = <<>> /\ effects + late <= 0
      /\ effects \in Nat /\ late \in Nat
  BY ToolState DEF Tools!Execute, ToolsIInv, AttemptOK, TimeOK, EventsOK, EffectsOK
<1>1. /\ UNCHANGED <<tools, tool, clock, elapsed, effects, late, events>>
      /\ \/ step' = "raised" /\ attempt' = 0 /\ outcome' = outcome
         \/ step' = "returned" /\ attempt' = 0 /\ outcome' = "invalid_input"
         \/ step' = "starting" /\ attempt' = 1 /\ outcome' = outcome
  BY <1>0 DEF Tools!Execute
<1>2. Tools!TypeOK'
  <2>1. attempt' \in 0 .. MaxAttempts
    BY <1>1, ToolNumbers
  <2>2. QED
    BY <1>1, <2>1 DEF ToolsIInv, Tools!TypeOK, Tools!Finished, Tools!Outcome
<1>3. AttemptOK' /\ EffectsOK'
  BY <1>0, <1>1 DEF AttemptOK, EffectsOK, Trying
<1>4. TimeOK'
  <2>1. 0 \in Nat /\ Rounds(0) \in Nat /\ 1 - 1 = 0
    BY RoundsFacts
  <2>2. elapsed' = 0 /\ (step' = "starting" => elapsed' <= Rounds(attempt' - 1))
    BY <1>0, <1>1, <2>1
  <2>3. 0 <= Rounds(MaxAttempts - 1) + Timeout
    BY ToolState, ToolNumbers
  <2>4. QED
    BY <1>1, <2>2, <2>3 DEF TimeOK
<1>5. EventsOK' /\ ResponseOK' /\ Told(events)'
  BY <1>0, <1>1 DEF ToolsIInv, EventsOK, ResponseOK, Told
<1>6. QED
  BY <1>2, <1>3, <1>4, <1>5 DEF ToolsIInv

\* An event is recorded: what the events say afterwards.
LEMMA RecordedEvent ==
  ASSUME ToolsIInv, attempt >= 1, NEW type \in Tools!EventType,
         events' = Append(events, [type |-> type, attempt |-> attempt]),
         events = <<>> => type = "started",
         events # <<>> /\ type = "started" => Last.type = "retrying" /\ attempt = Last.attempt + 1,
         type # "started" => attempt = Last.attempt,
         type \notin {"started", "retrying"} => Last.type = "started",
         type = "retrying" => Last.type \in {"failed", "timed_out"}
  PROVE  /\ events' \in Seq(Event) /\ events' # <<>> /\ Told(events)'
         /\ Last'.type = type /\ Last'.attempt = attempt
<1> DEFINE e == [type |-> type, attempt |-> attempt]
<1>1. e \in Event /\ e.type = type /\ e.attempt = attempt
  BY ToolState DEF Event
<1>2. events' = Append(events, e) /\ events \in Seq(Event)
  BY ToolState
<1> HIDE DEF e
<1>3. events' \in Seq(Event) /\ events' # <<>> /\ events'[Len(events')] = e
  BY <1>1, <1>2, EventAppended
<1>4. events # <<>> =>
           LET l == events[Len(events)]
           IN  IF e.type = "started"
                 THEN l.type = "retrying" /\ e.attempt = l.attempt + 1
                 ELSE /\ e.attempt = l.attempt
                      /\ e.type # "retrying" => l.type = "started"
                      /\ e.type = "retrying" => l.type \in {"failed", "timed_out"}
  BY <1>1 DEF Last
<1>5. Told(events')
  <2>1. Told(events) /\ (events = <<>> => e.type = "started")
    BY <1>1 DEF ToolsIInv
  <2>2. QED
    BY <1>1, <1>2, <1>4, <2>1, ToldAppend
<1>6. QED
  BY <1>1, <1>3, <1>5 DEF Last, Told

LEMMA RecordStartedIInv ==
  ASSUME ToolsIInv, Tools!RecordStarted
  PROVE  ToolsIInv'
<1>0. /\ step = "starting" /\ step' = "invoking" /\ clock' = 0 /\ attempt >= 1
      /\ UNCHANGED <<tools, tool, attempt, outcome, elapsed, effects, late>>
      /\ events' = Append(events, [type |-> "started", attempt |-> attempt])
  BY DEF Tools!RecordStarted, Tools!Recorded, ToolsIInv, AttemptOK, Trying
<1>1. events # <<>> => Last.type = "retrying" /\ attempt = Last.attempt + 1
  <2>1. events # <<>> => Last.type = "retrying" /\ Last.attempt = attempt - 1
    BY <1>0 DEF ToolsIInv, EventsOK
  <2>2. QED
    BY <2>1, ToolState
<1>2. /\ events' \in Seq(Event) /\ events' # <<>> /\ Told(events)'
      /\ Last'.type = "started" /\ Last'.attempt = attempt
  BY <1>0, <1>1, RecordedEvent DEF Tools!EventType
<1>3. Tools!TypeOK'
  BY <1>0, <1>2, ToolNumbers DEF ToolsIInv, Tools!TypeOK, Tools!Finished, Event
<1>4. AttemptOK' /\ EffectsOK' /\ EventsOK' /\ ResponseOK'
  BY <1>0, <1>2 DEF ToolsIInv, AttemptOK, EffectsOK, EventsOK, ResponseOK, Trying
<1>5. TimeOK'
  BY <1>0, ToolState, ToolNumbers DEF ToolsIInv, TimeOK
<1>6. QED
  BY <1>2, <1>3, <1>4, <1>5 DEF ToolsIInv

\* An invocation ends: the tool has returned or timed out, or the caller goes.
LEMMA InvokeEndsIInv ==
  ASSUME ToolsIInv, step = "invoking", step' = "recording" \/ step' = "raised",
         UNCHANGED <<tools, tool, attempt, clock, elapsed, events>>,
         outcome' \in Tools!Outcome, step' = "recording" => outcome' \in {"success", "timeout", "failed", "transient"},
         \/ effects' \in {effects, effects + 1} /\ late' = late
         \/ effects' = effects /\ late' = late + 1
  PROVE  ToolsIInv'
<1>1. attempt >= 1 /\ effects + late <= attempt - 1
  BY DEF ToolsIInv, AttemptOK, EffectsOK, Trying
<1>2. effects' + late' <= attempt /\ effects' \in 0 .. MaxAttempts /\ late' \in 0 .. MaxAttempts
  <2>1. attempt \in Nat /\ MaxAttempts \in Nat /\ attempt <= MaxAttempts /\ effects \in Nat /\ late \in Nat
    BY ToolState, ToolNumbers
  <2>2. effects' \in Nat /\ late' \in Nat /\ effects' + late' <= effects + late + 1
    BY <2>1
  <2>3. QED
    BY <1>1, <2>1, <2>2, CountsGrow
<1>3. Tools!TypeOK'
  BY <1>2 DEF ToolsIInv, Tools!TypeOK, Tools!Finished
<1>4. AttemptOK' /\ EffectsOK'
  BY <1>1, <1>2 DEF ToolsIInv, AttemptOK, EffectsOK, Trying
<1>5. EventsOK' /\ ResponseOK' /\ Told(events)'
  BY DEF ToolsIInv, EventsOK, ResponseOK, Told, Last
<1>6. TimeOK'
  <2>1. /\ Rounds(attempt - 1) \in Nat /\ clock \in Nat /\ Timeout \in Nat /\ elapsed \in Nat
        /\ elapsed <= Rounds(attempt - 1) + clock /\ clock <= Timeout
        /\ elapsed <= Rounds(MaxAttempts - 1) + Timeout
    <3>1. elapsed <= Rounds(attempt - 1) + clock /\ clock <= Timeout /\ elapsed <= Rounds(MaxAttempts - 1) + Timeout
      BY DEF ToolsIInv, TimeOK
    <3>2. QED
      BY <1>1, <3>1, ToolState, ToolNumbers
  <2>2. elapsed <= Rounds(attempt - 1) + Timeout
    BY <2>1
  <2>3. QED
    BY <2>1, <2>2 DEF TimeOK
<1>7. QED
  BY <1>3, <1>4, <1>5, <1>6 DEF ToolsIInv

LEMMA RecordTerminalIInv ==
  ASSUME ToolsIInv, Tools!RecordTerminal
  PROVE  ToolsIInv'
<1>0. /\ step = "recording" /\ attempt >= 1 /\ outcome \in {"success", "timeout", "failed", "transient"}
      /\ UNCHANGED <<tools, tool, attempt, outcome, clock, elapsed, effects, late>>
      /\ events' = Append(events, [type |-> Tools!TerminalEvent, attempt |-> attempt])
      /\ step' = (IF Tools!ShouldRetry THEN "retrying" ELSE "returned")
      /\ events # <<>> /\ Last.type = "started" /\ Last.attempt = attempt
  BY DEF Tools!RecordTerminal, Tools!Recorded, ToolsIInv, AttemptOK, EventsOK, Trying
<1>1. PICK type \in {"succeeded", "timed_out", "failed"} : Tools!TerminalEvent = type /\ Tools!TerminalEvent' = type
  BY <1>0 DEF Tools!TerminalEvent
<1>2. Tools!ShouldRetry => type \in {"timed_out", "failed"} /\ tool \in Idempotent /\ attempt < MaxAttempts
                             /\ outcome \in {"timeout", "transient"}
  BY <1>1 DEF Tools!ShouldRetry, Tools!TerminalEvent
<1>3. /\ events' \in Seq(Event) /\ events' # <<>> /\ Told(events)'
      /\ Last'.type = type /\ Last'.attempt = attempt
  <2>1. events' = Append(events, [type |-> type, attempt |-> attempt]) /\ type \in Tools!EventType
    BY <1>0, <1>1 DEF Tools!EventType
  <2>2. QED
    BY <1>0, <2>1, RecordedEvent
<1>4. Tools!TypeOK'
  BY <1>0, <1>3 DEF ToolsIInv, Tools!TypeOK, Tools!Finished, Event
<1>5. AttemptOK'
  BY <1>0, <1>2 DEF ToolsIInv, AttemptOK, Trying
<1>6. EffectsOK'
  BY <1>0 DEF ToolsIInv, EffectsOK
<1>7. EventsOK' /\ ResponseOK'
  BY <1>0, <1>1, <1>2, <1>3 DEF EventsOK, ResponseOK
<1>8. TimeOK'
  BY <1>0 DEF ToolsIInv, TimeOK
<1>9. QED
  BY <1>3, <1>4, <1>5, <1>6, <1>7, <1>8 DEF ToolsIInv

LEMMA RecordRetryingIInv ==
  ASSUME ToolsIInv, Tools!RecordRetrying
  PROVE  ToolsIInv'
<1>0. /\ step = "retrying" /\ step' = "sleeping" /\ clock' = 0 /\ attempt >= 1
      /\ UNCHANGED <<tools, tool, attempt, outcome, elapsed, effects, late>>
      /\ events' = Append(events, [type |-> "retrying", attempt |-> attempt])
      /\ events # <<>> /\ Last.type \in {"failed", "timed_out"} /\ Last.attempt = attempt
  BY DEF Tools!RecordRetrying, Tools!Recorded, ToolsIInv, AttemptOK, EventsOK, Trying
<1>1. /\ events' \in Seq(Event) /\ events' # <<>> /\ Told(events)'
      /\ Last'.type = "retrying" /\ Last'.attempt = attempt
  BY <1>0, RecordedEvent DEF Tools!EventType
<1>2. Tools!TypeOK'
  BY <1>0, <1>1, ToolNumbers DEF ToolsIInv, Tools!TypeOK, Tools!Finished, Event
<1>3. AttemptOK' /\ EffectsOK' /\ EventsOK' /\ ResponseOK'
  BY <1>0, <1>1 DEF ToolsIInv, AttemptOK, EffectsOK, EventsOK, ResponseOK, Trying
<1>4. TimeOK'
  <2>1. Tools!Delay(attempt) \in 0 .. MaxDelay
    BY <1>0, ToolState, ToolNumbers
  <2>2. Tools!Delay(attempt)' = Tools!Delay(attempt)
    BY <1>0 DEF Tools!Delay
  <2>3. elapsed <= Rounds(attempt - 1) + Timeout + 0 /\ 0 <= Tools!Delay(attempt)
    BY <1>0, <2>1, ToolState, ToolNumbers DEF ToolsIInv, TimeOK
  <2>4. QED
    BY <1>0, <2>2, <2>3 DEF ToolsIInv, TimeOK
<1>5. QED
  BY <1>1, <1>2, <1>3, <1>4 DEF ToolsIInv

LEMMA WakeIInv ==
  ASSUME ToolsIInv, Tools!Wake
  PROVE  ToolsIInv'
<1>0. /\ step = "sleeping" /\ step' = "starting" /\ attempt' = attempt + 1 /\ attempt >= 1
      /\ attempt < MaxAttempts /\ tool \in Idempotent /\ clock = Tools!Delay(attempt)
      /\ UNCHANGED <<tools, tool, outcome, clock, elapsed, effects, late, events>>
      /\ events # <<>> /\ Last.type = "retrying" /\ Last.attempt = attempt
  BY DEF Tools!Wake, ToolsIInv, AttemptOK, EventsOK, Trying
<1>1. attempt' \in 0 .. MaxAttempts /\ attempt' - 1 = attempt /\ attempt' >= 1
  <2>1. attempt \in Nat /\ MaxAttempts \in Nat
    BY ToolState, ToolNumbers
  <2>2. QED
    BY <1>0, <2>1
<1>2. Tools!TypeOK'
  BY <1>0, <1>1 DEF ToolsIInv, Tools!TypeOK, Tools!Finished
<1>3. AttemptOK' /\ EffectsOK' /\ EventsOK' /\ ResponseOK' /\ Told(events)'
  BY <1>0, <1>1 DEF ToolsIInv, AttemptOK, EffectsOK, EventsOK, ResponseOK, Trying, Told, Last
<1>4. TimeOK'
  <2>1. Tools!Delay(attempt) \in 0 .. MaxDelay
    BY <1>0, ToolState, ToolNumbers
  <2>2. elapsed <= Rounds(attempt - 1) + Timeout + clock
    BY <1>0 DEF ToolsIInv, TimeOK
  <2>3. elapsed <= Rounds(attempt)
    <3>1. PICK t \in Nat, k \in Nat : t = Rounds(attempt - 1) /\ k = clock
      BY <1>0, ToolState
    <3>2. Rounds(attempt) = t + Timeout + MaxDelay
      BY <1>0, <3>1, ToolState
    <3>3. elapsed \in Nat /\ Timeout \in Nat /\ MaxDelay \in Nat
      BY ToolState, ToolNumbers
    <3>4. k <= MaxDelay /\ elapsed <= t + Timeout + k
      BY <1>0, <2>1, <2>2, <3>1, <3>3
    <3>5. QED
      BY <3>1, <3>2, <3>3, <3>4
  <2>4. QED
    BY <1>0, <1>1, <2>3 DEF ToolsIInv, TimeOK
<1>5. QED
  BY <1>2, <1>3, <1>4 DEF ToolsIInv

LEMMA ToolsTickIInv ==
  ASSUME ToolsIInv, Tools!Tick
  PROVE  ToolsIInv'
<1>0. /\ UNCHANGED <<tools, tool, step, attempt, outcome, effects, late, events>>
      /\ clock' = clock + 1 /\ elapsed' = elapsed + 1
      /\ step \in {"invoking", "sleeping"} /\ attempt >= 1
      /\ step = "invoking" => clock < Timeout
      /\ step = "sleeping" => clock < Tools!Delay(attempt) /\ attempt < MaxAttempts
  BY DEF Tools!Tick, ToolsIInv, AttemptOK, Trying
<1>1. Tools!Delay(attempt) \in 0 .. MaxDelay /\ Tools!Delay(attempt)' = Tools!Delay(attempt)
  <2>1. Tools!Delay(attempt)' = Tools!Delay(attempt)
    BY <1>0 DEF Tools!Delay
  <2>2. QED
    BY <1>0, <2>1, ToolState, ToolNumbers
<1>2. /\ clock' \in 0 .. (IF Timeout > MaxDelay THEN Timeout ELSE MaxDelay) /\ elapsed' \in Nat
      /\ step = "invoking" => clock' <= Timeout
      /\ step = "sleeping" => clock' <= Tools!Delay(attempt)
  <2>1. clock \in Nat /\ elapsed \in Nat /\ Timeout \in Nat /\ MaxDelay \in Nat
    BY ToolState, ToolNumbers
  <2>2. PICK d \in 0 .. MaxDelay : Tools!Delay(attempt) = d
    BY <1>1
  <2>3. (step = "invoking" /\ clock < Timeout) \/ (step = "sleeping" /\ clock < d)
    BY <1>0, <2>2
  <2>4. (step = "invoking" /\ clock' <= Timeout) \/ (step = "sleeping" /\ clock' <= d /\ clock' <= MaxDelay)
    BY <1>0, <2>1, <2>3
  <2>5. clock' \in 0 .. (IF Timeout > MaxDelay THEN Timeout ELSE MaxDelay) /\ elapsed' \in Nat
    BY <1>0, <2>1, <2>4
  <2>6. QED
    BY <2>2, <2>4, <2>5
<1>3. Tools!TypeOK'
  BY <1>0, <1>2 DEF ToolsIInv, Tools!TypeOK, Tools!Finished
<1>4. AttemptOK' /\ EffectsOK' /\ EventsOK' /\ ResponseOK' /\ Told(events)'
  BY <1>0 DEF ToolsIInv, AttemptOK, EffectsOK, EventsOK, ResponseOK, Trying, Told, Last
<1>5. TimeOK'
  <2>0. PICK r \in Nat, m \in Nat : r = Rounds(attempt - 1) /\ m = Rounds(MaxAttempts - 1) /\ r <= m
    BY <1>0, ToolState
  <2>1. clock \in Nat /\ elapsed \in Nat /\ Timeout \in Nat /\ MaxDelay \in Nat
    BY ToolState, ToolNumbers
  <2>2. CASE step = "invoking"
    <3>1. elapsed <= r + clock
      BY <2>0, <2>2 DEF ToolsIInv, TimeOK
    <3>2. elapsed' <= r + clock' /\ elapsed' <= m + Timeout
      BY <1>0, <1>2, <2>0, <2>1, <2>2, <3>1
    <3>3. QED
      BY <1>0, <1>2, <2>0, <2>2, <3>2 DEF TimeOK
  <2>3. CASE step = "sleeping"
    <3>1. elapsed <= r + Timeout + clock
      BY <2>0, <2>3 DEF ToolsIInv, TimeOK
    <3>2. PICK d \in 0 .. MaxDelay : Tools!Delay(attempt) = d
      BY <1>1
    <3>3. r + Timeout + MaxDelay <= m
      <4>1. Rounds(attempt) = r + Timeout + MaxDelay /\ Rounds(attempt) <= m
        BY <1>0, <2>0, <2>3, ToolState
      <4>2. QED
        BY <4>1
    <3>4. elapsed' <= r + Timeout + clock' /\ clock' <= d
      BY <1>0, <1>2, <2>0, <2>1, <2>3, <3>1, <3>2
    <3>5. elapsed' <= m + Timeout
      BY <1>0, <2>0, <2>1, <3>2, <3>3, <3>4
    <3>6. QED
      BY <1>0, <1>1, <2>0, <2>3, <3>2, <3>4, <3>5 DEF TimeOK
  <2>4. QED
    BY <1>0, <2>2, <2>3
<1>6. QED
  BY <1>3, <1>4, <1>5 DEF ToolsIInv

LEMMA LateEffectIInv ==
  ASSUME ToolsIInv, Tools!LateEffect
  PROVE  ToolsIInv'
<1>0. /\ UNCHANGED <<tools, tool, step, attempt, outcome, clock, elapsed, events>>
      /\ late > 0 /\ late' = late - 1 /\ effects' = effects + 1
  BY DEF Tools!LateEffect
<1>1. effects + late <= attempt
  BY ToolState DEF ToolsIInv, EffectsOK
<1>2. effects' + late' = effects + late /\ effects' \in 0 .. MaxAttempts /\ late' \in 0 .. MaxAttempts
  <2>1. attempt \in Nat /\ MaxAttempts \in Nat /\ attempt <= MaxAttempts /\ effects \in Nat /\ late \in Nat
    BY ToolState, ToolNumbers
  <2>2. late' \in Nat /\ effects' \in Nat /\ effects' + late' = effects + late
    BY <1>0, <2>1
  <2>3. effects' + late' <= attempt
    BY <1>1, <2>2
  <2>4. QED
    BY <2>1, <2>2, <2>3, CountsWithin
<1>3. Tools!TypeOK'
  BY <1>0, <1>2 DEF ToolsIInv, Tools!TypeOK, Tools!Finished
<1>4. AttemptOK' /\ EffectsOK' /\ EventsOK' /\ ResponseOK' /\ Told(events)'
  BY <1>0, <1>2 DEF ToolsIInv, AttemptOK, EffectsOK, EventsOK, ResponseOK, Trying, Told, Last, Tools!TerminalEvent
<1>5. TimeOK'
  BY <1>0 DEF ToolsIInv, TimeOK, Tools!Delay
<1>6. QED
  BY <1>3, <1>4, <1>5 DEF ToolsIInv

\* A step that only ends the execution, or only registers a tool.
LEMMA QuietIInv ==
  ASSUME ToolsIInv, UNCHANGED <<tool, attempt, outcome, clock, elapsed, effects, late, events>>,
         tools' \subseteq Tool, step' = step \/ (step' = "raised" /\ step # "registering")
  PROVE  ToolsIInv'
<1>1. effects + late <= attempt
  BY ToolState DEF ToolsIInv, EffectsOK
<1>2. Tools!TypeOK'
  BY DEF ToolsIInv, Tools!TypeOK, Tools!Finished
<1>3. AttemptOK' /\ EffectsOK' /\ EventsOK' /\ ResponseOK' /\ Told(events)'
  BY <1>1 DEF ToolsIInv, AttemptOK, EffectsOK, EventsOK, ResponseOK, Trying, Told, Last, Tools!TerminalEvent
<1>4. TimeOK'
  BY DEF ToolsIInv, TimeOK, Tools!Delay
<1>5. QED
  BY <1>2, <1>3, <1>4 DEF ToolsIInv

LEMMA NextToolsIInv == ToolsIInv /\ [Tools!Next]_(Tools!vars) => ToolsIInv'
<1> SUFFICES ASSUME ToolsIInv, [Tools!Next]_(Tools!vars) PROVE ToolsIInv'
  OBVIOUS
<1>0. tools \subseteq Tool /\ outcome \in Tools!Outcome
  BY DEF ToolsIInv, Tools!TypeOK
<1>1. ASSUME NEW t \in Tool, Tools!Register(t) PROVE ToolsIInv'
  BY <1>0, <1>1, QuietIInv DEF Tools!Register
<1>2. CASE Tools!InvokeReturns
  BY <1>2, InvokeEndsIInv DEF Tools!InvokeReturns, Tools!Outcome
<1>3. CASE Tools!InvokeTimesOut
  BY <1>3, InvokeEndsIInv DEF Tools!InvokeTimesOut, Tools!Outcome
<1>4. CASE Tools!Executor
  BY <1>2, <1>3, <1>4, ExecuteIInv, RecordStartedIInv, RecordTerminalIInv, RecordRetryingIInv, WakeIInv, ToolsTickIInv
     DEF Tools!Executor
<1>5. CASE Tools!LateEffect
  BY <1>5, LateEffectIInv
<1>6. CASE Tools!Raise
  <2>1. /\ step \in Trying /\ step' = "raised"
        /\ UNCHANGED <<tools, tool, attempt, outcome, clock, elapsed, events>>
        /\ \/ UNCHANGED <<effects, late>>
           \/ step = "invoking" /\ effects' = effects + 1 /\ late' = late
           \/ step = "invoking" /\ late' = late + 1 /\ effects' = effects
    BY <1>6 DEF Tools!Raise, Trying
  <2>2. CASE UNCHANGED <<effects, late>>
    BY <1>0, <2>1, <2>2, QuietIInv DEF Trying
  <2>3. CASE step = "invoking"
    BY <1>0, <2>1, <2>3, InvokeEndsIInv
  <2>4. QED
    BY <2>1, <2>2, <2>3
<1>7. CASE UNCHANGED Tools!vars
  BY <1>0, <1>7, QuietIInv DEF Tools!vars
<1>8. QED
  BY <1>1, <1>4, <1>5, <1>6, <1>7 DEF Tools!Next

-----------------------------------------------------------------------------
(* The theorems about ToolExecutor *)

\* The inductive invariant holds in every state of an execution, whenever the
\* tool fails, times out or has its effect late, and wherever it is cancelled.
THEOREM ToolsInvariance == Tools!Spec => []ToolsIInv
BY InitToolsIInv, NextToolsIInv, PTL DEF Tools!Spec

\* What the invariant says of effects, waits and events.
LEMMA Accounted == ToolsIInv => ExecutionAccounted
<1> SUFFICES ASSUME ToolsIInv PROVE Tools!ExecutionAccounted
  BY DEF ExecutionAccounted
<1>1. Tools!EffectAtMostOnce
  BY ToolState DEF ToolsIInv, AttemptOK, EffectsOK, Tools!EffectAtMostOnce
<1>2. Tools!WaitsBounded
  BY AllRounds DEF ToolsIInv, TimeOK, Tools!WaitsBounded
<1>3. Tools!EventsTellTheStory
  <2>1. events \in Seq(Event) /\ Told(events)
    BY ToolState DEF ToolsIInv
  <2>2. \A i \in DOMAIN events : i > 1 =>
         IF events[i].type = "started"
           THEN events[i - 1].type = "retrying" /\ events[i].attempt = events[i - 1].attempt + 1
           ELSE events[i].attempt = events[i - 1].attempt
                  /\ events[i - 1].type =
                       IF events[i].type = "retrying" THEN events[i - 1].type ELSE "started"
    BY <2>1 DEF Told
  <2>3. \A i \in Tools!At("retrying") : events[i - 1].type \in {"failed", "timed_out"}
    <3>1. TAKE i \in Tools!At("retrying")
    <3>2. i \in DOMAIN events /\ events[i].type = "retrying" /\ events # <<>>
      BY DEF Tools!At
    <3>3. i # 1
      BY <2>1, <3>2 DEF Told
    <3>4. i > 1
      BY <2>1, <3>2, <3>3
    <3>5. QED
      BY <2>1, <3>2, <3>4 DEF Told
  <2>4. QED
    BY <2>2, <2>3 DEF Tools!EventsTellTheStory, ToolsIInv, ResponseOK, Last
<1>4. QED
  BY <1>1, <1>2, <1>3 DEF Tools!ExecutionAccounted

\* A tool that is not idempotent has its effect at most once, late effects
\* included, the waits add up to no more than the specification allows, and
\* the events tell what happened: for every ToolSpec (ToolExecutor.execute).
THEOREM ExecutionsAreAccountedFor == Tools!Spec => []ExecutionAccounted
BY ToolsInvariance, Accounted, PTL

-----------------------------------------------------------------------------
(* DocumentElements: the inductive invariant *)

\* The texts of the element, in the order in which they are scanned.
Src == Elements!Sources(element)

\* Texts that are scanned, of which no two have the same field and identifier.
SourceSet ==
    [field : {"text", "caption", "ocr_text", "title", "cell.text"}, id : CellId \cup {None},
     text : Seq(Elements!Character)]

SourcesOK(S) ==
    /\ S \in Seq(SourceSet) /\ Len(S) <= MaxCells + 2
    /\ \A i, j \in DOMAIN S : S[i].field = S[j].field /\ S[i].id = S[j].id => i = j

\* The element, from the cells of a table to what is scanned.
Gathering == element \in [kind : {"table"}, cells : Seq(Elements!Cell)] /\ Len(element.cells) <= MaxCells

Scanned == {"scan", "done"}

ElementOK ==
    /\ stage \notin {"cells", "rejected"} \cup Scanned => element = None
    /\ stage = "cells" => Gathering
    /\ stage \in Scanned => element.kind \in {"text", "picture", "table"} /\ SourcesOK(Src)

\* The position, as long as something looks at it.
PositionOK ==
    /\ stage \in {"box", "position"} => position = None
    /\ stage \in {"position", "normalize"} => box \in Elements!Box /\ Elements!ValidBox(box)
    /\ stage = "normalize" => position \in Elements!Position /\ Elements!ValidPosition(position) /\ position.box = box

\* A symbol starts at character i of a text and ends at the character EndOf.
StartsAt(text, i) ==
    /\ <<text[i]>> \in DOMAIN Elements!Operator
    /\ ~(text[i] = "=" /\ i > 1 /\ text[i - 1] \in {">", "<"})

EndOf(text, i) == IF text[i] \in {">", "<"} /\ i < Len(text) /\ text[i + 1] = "=" THEN i + 1 ELSE i

MatchOf(src, i) ==
    [field |-> src.field, id |-> src.id, start |-> i - 1, end |-> EndOf(src.text, i),
     raw |-> SubSeq(src.text, i, EndOf(src.text, i)),
     operator |-> Elements!Operator[SubSeq(src.text, i, EndOf(src.text, i))]]

Match ==
    [field : {"text", "caption", "ocr_text", "title", "cell.text"}, id : CellId \cup {None},
     start : Nat, end : Nat, raw : DOMAIN Elements!Operator, operator : {"GT", "LT", "EQ", "NE", "GE", "LE"}]

\* The scan has not stopped inside a compound symbol.
Aligned(text, n) == n >= 1 /\ n < Len(text) /\ text[n] \in {">", "<"} => text[n + 1] # "="

\* Symbol k was found, in a source before the current one or before the offset.
FoundAt(k, j, i) ==
    /\ StartsAt(Src[j].text, i) /\ symbols[k] = MatchOf(Src[j], i)
    /\ j < source \/ (j = source /\ EndOf(Src[j].text, i) <= offset)

\* What was found is there, and what is there up to here was found, in order.
FoundOK ==
    /\ \A k \in DOMAIN symbols : \E j \in DOMAIN Src : \E i \in DOMAIN Src[j].text : FoundAt(k, j, i)
    /\ \A j \in DOMAIN Src : \A i \in DOMAIN Src[j].text :
         StartsAt(Src[j].text, i) /\ (j < source \/ (j = source /\ i <= offset)) =>
           \E k \in DOMAIN symbols : symbols[k] = MatchOf(Src[j], i)
    /\ \A k, l \in DOMAIN symbols :
         k < l /\ symbols[k].field = symbols[l].field /\ symbols[k].id = symbols[l].id =>
           symbols[k].end <= symbols[l].start

ScanOK ==
    /\ symbols \in Seq(Match) /\ offset \in Nat
    /\ stage \notin Scanned => symbols = <<>> /\ source = 1 /\ offset = 0
    /\ stage \in Scanned =>
         /\ source \in 1 .. Len(Src) + 1
         /\ source <= Len(Src) => offset <= Len(Src[source].text) /\ Aligned(Src[source].text, offset)
         /\ FoundOK
    /\ stage = "done" => source = Len(Src) + 1

\* The inductive invariant of DocumentElements.
ElementsIInv == Elements!TypeOK /\ ElementOK /\ PositionOK /\ ScanOK

-----------------------------------------------------------------------------
(* DocumentElements: its operators *)

\* What is assumed of the values that a parser may report.
LEMMA ElementNumbers ==
  /\ PageCoord \subseteq Int /\ MaxCells \in Nat /\ None \notin Text \cup TableText
  /\ Text \subseteq Seq(Elements!Character) /\ TableText \subseteq Seq(Elements!Character)
BY TasksAssumption DEF Elements!ElementAssumption

\* The symbols that have an operator.
LEMMA OperatorFacts ==
  /\ \A c : <<c>> \in DOMAIN Elements!Operator <=> c \in {">", "<", "=", "ne", "ge", "le"}
  /\ \A c, d : <<c, d>> \in DOMAIN Elements!Operator <=> c \in {">", "<"} /\ d = "="
  /\ \A g \in DOMAIN Elements!Operator : Elements!Operator[g] \in {"GT", "LT", "EQ", "NE", "GE", "LE"}
<1>1. DOMAIN Elements!Operator
        = {<<">">>, <<"<">>, <<">", "=">>, <<"<", "=">>, <<"ge">>, <<"le">>, <<"=">>, <<"ne">>}
  BY DEF Elements!Operator
<1>2. ASSUME NEW c PROVE <<c>> \in DOMAIN Elements!Operator <=> c \in {">", "<", "=", "ne", "ge", "le"}
  BY <1>1
<1>3. ASSUME NEW c, NEW d PROVE <<c, d>> \in DOMAIN Elements!Operator <=> c \in {">", "<"} /\ d = "="
  BY <1>1
<1>4. ASSUME NEW g \in DOMAIN Elements!Operator
      PROVE  Elements!Operator[g] \in {"GT", "LT", "EQ", "NE", "GE", "LE"}
  BY <1>1 DEF Elements!Operator
<1>5. QED
  BY <1>2, <1>3, <1>4

\* One and two characters of a text.
LEMMA Characters ==
  ASSUME NEW S, NEW text \in Seq(S), NEW i \in 1 .. Len(text)
  PROVE  /\ i \in Nat /\ i >= 1 /\ Len(text) \in Nat
         /\ SubSeq(text, i, i) = <<text[i]>>
         /\ i < Len(text) => SubSeq(text, i, i + 1) = <<text[i], text[i + 1]>>
<1>1. i \in Nat /\ i >= 1 /\ Len(text) \in Nat
  OBVIOUS
<1>2. SubSeq(text, i, i) = <<text[i]>>
  <2>1. /\ SubSeq(text, i, i) \in Seq(S) /\ Len(SubSeq(text, i, i)) = 1
        /\ SubSeq(text, i, i)[1] = text[i]
    <3>1. i - i + 1 = 1 /\ i + 1 - 1 = i
      BY <1>1
    <3>2. QED
      BY <1>1, <3>1, SubSeqProperties
  <2>2. <<text[i]>> \in Seq(S) /\ Len(<<text[i]>>) = 1 /\ <<text[i]>>[1] = text[i]
    OBVIOUS
  <2>3. \A n \in 1 .. 1 : SubSeq(text, i, i)[n] = <<text[i]>>[n]
    BY <2>1, <2>2
  <2>4. QED
    BY <2>1, <2>2, <2>3, SeqEqual
<1>3. ASSUME i < Len(text) PROVE SubSeq(text, i, i + 1) = <<text[i], text[i + 1]>>
  <2>0. i + 1 \in 1 .. Len(text) /\ text[i] \in S /\ text[i + 1] \in S
    BY <1>1, <1>3
  <2>1. /\ SubSeq(text, i, i + 1) \in Seq(S) /\ Len(SubSeq(text, i, i + 1)) = 2
        /\ SubSeq(text, i, i + 1)[1] = text[i] /\ SubSeq(text, i, i + 1)[2] = text[i + 1]
    <3>1. (i + 1) - i + 1 = 2 /\ i + 1 - 1 = i /\ i + 2 - 1 = i + 1 /\ i <= i + 1
      BY <1>1
    <3>2. QED
      BY <1>1, <2>0, <3>1, SubSeqProperties
  <2>2. /\ <<text[i], text[i + 1]>> \in Seq(S) /\ Len(<<text[i], text[i + 1]>>) = 2
        /\ <<text[i], text[i + 1]>>[1] = text[i] /\ <<text[i], text[i + 1]>>[2] = text[i + 1]
    BY <2>0
  <2>3. \A n \in 1 .. 2 : SubSeq(text, i, i + 1)[n] = <<text[i], text[i + 1]>>[n]
    BY <2>1, <2>2
  <2>4. QED
    BY <2>1, <2>2, <2>3, SeqEqual
<1>4. QED
  BY <1>1, <1>2, <1>3

\* _COMPARISON_PATTERN finds the symbol that starts here, and nothing else.
LEMMA MatchFacts ==
  ASSUME NEW text \in Seq(Elements!Character), NEW i \in 1 .. Len(text), Aligned(text, i - 1)
  PROVE  /\ EndOf(text, i) \in {i, i + 1} /\ EndOf(text, i) <= Len(text)
         /\ Aligned(text, EndOf(text, i))
         /\ EndOf(text, i) = i + 1 => StartsAt(text, i) /\ ~StartsAt(text, i + 1)
         /\ ~StartsAt(text, i) => Elements!MatchAt(text, i) = <<>>
         /\ StartsAt(text, i) =>
              /\ Elements!MatchAt(text, i) = SubSeq(text, i, EndOf(text, i))
              /\ SubSeq(text, i, EndOf(text, i)) \in DOMAIN Elements!Operator
              /\ Len(SubSeq(text, i, EndOf(text, i))) = EndOf(text, i) - i + 1
              /\ SubSeq(text, i, EndOf(text, i)) # <<>>
<1>1. /\ i \in Nat /\ i >= 1 /\ Len(text) \in Nat /\ i <= Len(text)
      /\ SubSeq(text, i, i) = <<text[i]>>
      /\ i < Len(text) => SubSeq(text, i, i + 1) = <<text[i], text[i + 1]>>
  BY Characters
<1> DEFINE compound == text[i] \in {">", "<"} /\ i < Len(text) /\ text[i + 1] = "="
<1>2. i < Len(text) => (SubSeq(text, i, i + 1) \in DOMAIN Elements!Operator <=> compound)
  BY <1>1, OperatorFacts
<1>3. compound <=> i < Len(text) /\ SubSeq(text, i, i + 1) \in DOMAIN Elements!Operator
  BY <1>2
<1>4. StartsAt(text, i) <=> <<text[i]>> \in DOMAIN Elements!Operator
  <2>1. i > 1 /\ text[i - 1] \in {">", "<"} => text[i] # "="
    <3>1. i > 1 => i - 1 >= 1 /\ i - 1 < Len(text) /\ (i - 1) + 1 = i
      BY <1>1
    <3>2. QED
      BY <3>1 DEF Aligned
  <2>2. QED
    BY <2>1 DEF StartsAt
<1>5. CASE compound
  <2>1. EndOf(text, i) = i + 1
    BY <1>5 DEF EndOf
  <2>2. StartsAt(text, i)
    BY <1>4, <1>5, OperatorFacts
  <2>3. ~StartsAt(text, i + 1)
    <3>1. text[i + 1] = "=" /\ i + 1 > 1 /\ (i + 1) - 1 = i /\ text[i] \in {">", "<"}
      BY <1>1, <1>5
    <3>2. QED
      BY <3>1 DEF StartsAt
  <2>4. Elements!MatchAt(text, i) = SubSeq(text, i, i + 1)
    BY <1>3, <1>5 DEF Elements!MatchAt
  <2>5. Aligned(text, i + 1)
    BY <1>5 DEF Aligned
  <2>6. Len(SubSeq(text, i, i + 1)) = 2 /\ SubSeq(text, i, i + 1) # <<>>
    BY <1>1, <1>5
  <2>7. SubSeq(text, i, i + 1) \in DOMAIN Elements!Operator /\ (i + 1) - i + 1 = 2 /\ i + 1 <= Len(text)
    BY <1>1, <1>3, <1>5
  <2>8. QED
    BY <2>1, <2>2, <2>3, <2>4, <2>5, <2>6, <2>7
<1>6. CASE ~compound
  <2>1. EndOf(text, i) = i /\ i # i + 1
    BY <1>1, <1>6 DEF EndOf
  <2>2. Aligned(text, i)
    BY <1>6 DEF Aligned
  <2>3. Elements!MatchAt(text, i) = IF <<text[i]>> \in DOMAIN Elements!Operator THEN <<text[i]>> ELSE <<>>
    BY <1>3, <1>6 DEF Elements!MatchAt
  <2>4. Len(<<text[i]>>) = i - i + 1 /\ <<text[i]>> # <<>>
    BY <1>1
  <2>5. QED
    BY <1>1, <1>4, <2>1, <2>2, <2>3, <2>4
<1>7. QED
  BY <1>5, <1>6

\* What the scan must find, in terms of where symbols start.
LEMMA ExpectedIs ==
  ASSUME NEW j
  PROVE  Elements!Expected(j) = {MatchOf(Src[j], i) : i \in {n \in DOMAIN Src[j].text : StartsAt(Src[j].text, n)}}
BY DEF Elements!Expected, MatchOf, StartsAt, EndOf, Src

-----------------------------------------------------------------------------
(* DocumentElements: the sources of an element *)

\* What is known of the sources.
LEMMA SourceFacts ==
  ASSUME NEW S, SourcesOK(S)
  PROVE  /\ Len(S) \in Nat /\ DOMAIN S = 1 .. Len(S) /\ Len(S) <= MaxCells + 2
         /\ \A j \in DOMAIN S : S[j] \in SourceSet /\ S[j].text \in Seq(Elements!Character)
         /\ \A i, j \in DOMAIN S : S[i].field = S[j].field /\ S[i].id = S[j].id => i = j
<1>1. S \in Seq(SourceSet)
  BY DEF SourcesOK
<1>2. \A j \in DOMAIN S : S[j] \in SourceSet
  BY <1>1
<1>3. \A s \in SourceSet : s.text \in Seq(Elements!Character)
  BY DEF SourceSet
<1>4. Len(S) \in Nat /\ DOMAIN S = 1 .. Len(S)
  BY <1>1
<1>5. QED
  BY <1>2, <1>3, <1>4 DEF SourcesOK

\* The source of a text that may be absent.
LEMMA PresentFacts ==
  ASSUME NEW f \in {"text", "caption", "ocr_text", "title", "cell.text"}, NEW t, t = None \/ t \in Seq(Elements!Character)
  PROVE  /\ Elements!Present(f, t) \in Seq(SourceSet) /\ Len(Elements!Present(f, t)) \in 0 .. 1
         /\ t # None => Len(Elements!Present(f, t)) = 1
         /\ \A i \in DOMAIN Elements!Present(f, t) :
              i = 1 /\ Elements!Present(f, t)[i].field = f /\ Elements!Present(f, t)[i].id = None
<1>1. CASE t = None
  <2>1. Elements!Present(f, t) = <<>>
    BY <1>1 DEF Elements!Present
  <2>2. QED
    BY <1>1, <2>1
<1>2. CASE t # None
  <2> DEFINE s == [field |-> f, id |-> None, text |-> t]
  <2>1. s \in SourceSet /\ s.field = f /\ s.id = None
    BY <1>2 DEF SourceSet
  <2>2. Elements!Present(f, t) = <<s>>
    BY <1>2 DEF Elements!Present
  <2> HIDE DEF s
  <2>3. QED
    BY <2>1, <2>2
<1>3. QED
  BY <1>1, <1>2

\* Two sequences of sources, one after the other.
LEMMA Concatenated ==
  ASSUME NEW S, NEW p \in Seq(S), NEW q \in Seq(S)
  PROVE  /\ p \o q \in Seq(S) /\ Len(p \o q) = Len(p) + Len(q) /\ Len(p) \in Nat /\ Len(q) \in Nat
         /\ DOMAIN (p \o q) = 1 .. Len(p) + Len(q)
         /\ \A i \in 1 .. Len(p) + Len(q) : (p \o q)[i] = IF i <= Len(p) THEN p[i] ELSE q[i - Len(p)]
OBVIOUS

\* The sources of each kind of element have an identity of their own: fields
\* differ, and so do the identifiers of cells (TableElement.__post_init__).
LEMMA TextSources ==
  ASSUME NEW e, e.kind = "text", e.text \in Text
  PROVE  SourcesOK(Elements!Sources(e))
<1>1. Elements!Sources(e) = Elements!Present("text", e.text)
  BY DEF Elements!Sources
<1>2. e.text \in Seq(Elements!Character)
  BY ElementNumbers
<1>3. QED
  BY <1>1, <1>2, PresentFacts, ElementNumbers DEF SourcesOK

LEMMA PictureSources ==
  ASSUME NEW e, e.kind = "picture", e.caption \in Text \cup {None}, e.ocr \in Text \cup {None}
  PROVE  SourcesOK(Elements!Sources(e))
<1> DEFINE p == Elements!Present("caption", e.caption)
           q == Elements!Present("ocr_text", e.ocr)
<1>1. Elements!Sources(e) = p \o q
  BY DEF Elements!Sources
<1>2. /\ p \in Seq(SourceSet) /\ Len(p) \in 0 .. 1 /\ \A i \in DOMAIN p : i = 1 /\ p[i].field = "caption"
      /\ q \in Seq(SourceSet) /\ Len(q) \in 0 .. 1 /\ \A i \in DOMAIN q : i = 1 /\ q[i].field = "ocr_text"
  <2>1. e.caption = None \/ e.caption \in Seq(Elements!Character)
    BY ElementNumbers
  <2>2. e.ocr = None \/ e.ocr \in Seq(Elements!Character)
    BY ElementNumbers
  <2>3. QED
    BY <2>1, <2>2, PresentFacts
<1> HIDE DEF p, q
<1> DEFINE S == p \o q
<1>3. /\ S \in Seq(SourceSet) /\ Len(S) = Len(p) + Len(q) /\ DOMAIN S = 1 .. Len(p) + Len(q)
      /\ \A i \in 1 .. Len(p) + Len(q) : S[i] = IF i <= Len(p) THEN p[i] ELSE q[i - Len(p)]
  BY <1>2, Concatenated
<1> HIDE DEF S
<1>4. \A i \in DOMAIN S : /\ i <= Len(p) => i = 1 /\ S[i].field = "caption"
                          /\ i > Len(p) => i = Len(p) + 1 /\ S[i].field = "ocr_text"
  <2>1. TAKE i \in DOMAIN S
  <2>2. ASSUME i <= Len(p) PROVE i = 1 /\ S[i].field = "caption"
    <3>1. i \in DOMAIN p /\ S[i] = p[i]
      BY <1>2, <1>3, <2>2
    <3>2. QED
      BY <1>2, <3>1
  <2>3. ASSUME i > Len(p) PROVE i = Len(p) + 1 /\ S[i].field = "ocr_text"
    <3>1. i - Len(p) \in DOMAIN q /\ S[i] = q[i - Len(p)]
      BY <1>2, <1>3, <2>3
    <3>2. i - Len(p) = 1 /\ S[i].field = "ocr_text"
      BY <1>2, <3>1
    <3>3. QED
      BY <1>2, <1>3, <3>2
  <2>4. QED
    BY <2>2, <2>3
<1>5. \A i, j \in DOMAIN S : S[i].field = S[j].field => i = j
  BY <1>2, <1>3, <1>4
<1>6. Len(S) <= MaxCells + 2
  BY <1>2, <1>3, ElementNumbers
<1>7. QED
  BY <1>1, <1>3, <1>5, <1>6 DEF SourcesOK, S

LEMMA TableSources ==
  ASSUME NEW e, e.kind = "table", e.title \in TableText \cup {None},
         e.cells \in Seq(Elements!Cell), Len(e.cells) <= MaxCells,
         \A i, j \in DOMAIN e.cells : e.cells[i].id = e.cells[j].id => i = j
  PROVE  SourcesOK(Elements!Sources(e))
<1> DEFINE p == Elements!Present("title", e.title)
           cell(i) == [field |-> "cell.text", id |-> e.cells[i].id, text |-> e.cells[i].text]
           q == [i \in DOMAIN e.cells |-> cell(i)]
<1>1. Elements!Sources(e) = p \o q
  BY DEF Elements!Sources
<1>2. /\ p \in Seq(SourceSet) /\ Len(p) \in 0 .. 1 /\ \A i \in DOMAIN p : i = 1 /\ p[i].field = "title"
  <2>1. e.title = None \/ e.title \in Seq(Elements!Character)
    BY ElementNumbers
  <2>2. QED
    BY <2>1, PresentFacts
<1>3. /\ q \in Seq(SourceSet) /\ Len(q) = Len(e.cells) /\ DOMAIN q = DOMAIN e.cells /\ Len(q) \in Nat
      /\ \A i \in DOMAIN q : q[i].field = "cell.text" /\ q[i].id = e.cells[i].id
  <2>1. ASSUME NEW i \in DOMAIN e.cells
        PROVE  cell(i) \in SourceSet /\ cell(i).field = "cell.text" /\ cell(i).id = e.cells[i].id
    <3>1. e.cells[i] \in Elements!Cell
      OBVIOUS
    <3>2. e.cells[i].id \in CellId /\ e.cells[i].text \in TableText
      BY <3>1 DEF Elements!Cell
    <3>3. QED
      BY <3>2, ElementNumbers DEF SourceSet
  <2> HIDE DEF cell
  <2>2. DOMAIN e.cells = 1 .. Len(e.cells) /\ Len(e.cells) \in Nat
    OBVIOUS
  <2>3. q \in Seq(SourceSet) /\ Len(q) = Len(e.cells)
    BY <2>1, <2>2
  <2>4. QED
    BY <2>1, <2>2, <2>3
<1> HIDE DEF p, q
<1> DEFINE S == p \o q
<1>4. /\ S \in Seq(SourceSet) /\ Len(S) = Len(p) + Len(q) /\ DOMAIN S = 1 .. Len(p) + Len(q)
      /\ \A i \in 1 .. Len(p) + Len(q) : S[i] = IF i <= Len(p) THEN p[i] ELSE q[i - Len(p)]
  <2>1. p \in Seq(SourceSet) /\ q \in Seq(SourceSet)
    BY <1>2, <1>3
  <2>2. QED
    BY <2>1, Concatenated
<1> HIDE DEF S
<1>5. \A i \in DOMAIN S : /\ i <= Len(p) => i = 1 /\ S[i].field = "title"
                          /\ i > Len(p) => /\ i - Len(p) \in DOMAIN e.cells /\ S[i].field = "cell.text"
                                           /\ S[i].id = e.cells[i - Len(p)].id
  <2>1. TAKE i \in DOMAIN S
  <2>2. ASSUME i <= Len(p) PROVE i = 1 /\ S[i].field = "title"
    <3>1. i \in DOMAIN p /\ S[i] = p[i]
      BY <1>2, <1>4, <2>2
    <3>2. QED
      BY <1>2, <3>1
  <2>3. ASSUME i > Len(p)
        PROVE  i - Len(p) \in DOMAIN e.cells /\ S[i].field = "cell.text" /\ S[i].id = e.cells[i - Len(p)].id
    <3>1. i - Len(p) \in DOMAIN q /\ S[i] = q[i - Len(p)]
      BY <1>2, <1>3, <1>4, <2>3
    <3>2. QED
      BY <1>3, <3>1
  <2>4. QED
    BY <2>2, <2>3
<1>6. ASSUME NEW i \in DOMAIN S, NEW j \in DOMAIN S, S[i].field = S[j].field, S[i].id = S[j].id PROVE i = j
  <2>1. Len(p) \in Nat /\ i \in Nat /\ j \in Nat
    BY <1>2, <1>3, <1>4
  <2>2. CASE i <= Len(p)
    BY <1>5, <1>6, <2>1, <2>2
  <2>3. CASE i > Len(p)
    <3>1. j > Len(p)
      BY <1>5, <1>6, <2>1, <2>3
    <3>2. i - Len(p) = j - Len(p)
      BY <1>5, <1>6, <2>3, <3>1
    <3>3. QED
      BY <2>1, <3>2
  <2>4. QED
    BY <2>1, <2>2, <2>3
<1>7. Len(S) <= MaxCells + 2
  <2>1. Len(p) \in 0 .. 1 /\ Len(q) \in Nat /\ Len(q) <= MaxCells /\ MaxCells \in Nat
    BY <1>2, <1>3, ElementNumbers
  <2>2. QED
    BY <1>4, <2>1
<1>8. QED
  BY <1>1, <1>4, <1>6, <1>7 DEF SourcesOK, S

-----------------------------------------------------------------------------
(* DocumentElements: the invariant holds initially and is preserved *)

LEMMA InitElementsIInv == Elements!Init => ElementsIInv
<1> SUFFICES ASSUME Elements!Init PROVE ElementsIInv
  OBVIOUS
<1>1. symbols = <<>> /\ symbols \in Seq(Match) /\ DOMAIN symbols = {} /\ 1 \in 1 .. MaxCells + 3
  BY ElementNumbers DEF Elements!Init
<1>2. Elements!TypeOK
  BY <1>1 DEF Elements!Init, Elements!TypeOK
<1>3. ElementOK /\ PositionOK /\ ScanOK
  BY <1>1 DEF Elements!Init, ElementOK, PositionOK, ScanOK, Scanned
<1>4. QED
  BY <1>2, <1>3 DEF ElementsIInv

\* A constructor that comes before the element: it changes the box or the position.
LEMMA EarlyIInv ==
  ASSUME ElementsIInv, stage \in {"box", "position", "normalize", "confidence", "review"},
         stage' \in {"position", "normalize", "confidence", "review", "element", "rejected"},
         UNCHANGED <<element, source, offset, symbols>>,
         PositionOK', box' = None \/ (box' \in Elements!Box /\ Elements!ValidBox(box')),
         position' = None \/ position'.box = box'
  PROVE  ElementsIInv'
<1>1. element = None /\ symbols \in Seq(Match) /\ symbols = <<>> /\ source = 1 /\ offset = 0 /\ offset \in Nat
  BY DEF ElementsIInv, ElementOK, ScanOK, Scanned
<1>2. Elements!TypeOK'
  BY <1>1 DEF ElementsIInv, Elements!TypeOK, Elements!Box, Elements!ValidBox
<1>3. ElementOK' /\ ScanOK'
  BY <1>1 DEF ElementOK, ScanOK, Scanned
<1>4. QED
  BY <1>2, <1>3 DEF ElementsIInv

LEMMA MakeBoxIInv ==
  ASSUME ElementsIInv, NEW b \in Elements!Box, Elements!MakeBox(b)
  PROVE  ElementsIInv'
<1>1. /\ stage = "box" /\ position = None /\ position' = None /\ UNCHANGED <<element, source, offset, symbols>>
      /\ \/ stage' = "position" /\ Elements!ValidBox(b) /\ box' = b
         \/ stage' = "rejected" /\ box' = box
  BY DEF Elements!MakeBox, Elements!Check, Elements!Made, ElementsIInv, PositionOK
<1>2. box = None \/ (box \in Elements!Box /\ Elements!ValidBox(box))
  BY DEF ElementsIInv, Elements!TypeOK
<1>3. box' = None \/ (box' \in Elements!Box /\ Elements!ValidBox(box'))
  BY <1>1, <1>2
<1>4. PositionOK'
  BY <1>1 DEF PositionOK, Elements!Box, Elements!ValidBox
<1>5. QED
  BY <1>1, <1>3, <1>4, EarlyIInv

LEMMA MakePositionIInv ==
  ASSUME ElementsIInv, stage = "position",
         NEW p \in [index : PageCoord, width : PageCoord, height : PageCoord, box : {box}, order : PageCoord \cup {None}],
         Elements!MakePosition(p)
  PROVE  ElementsIInv'
<1>1. /\ position = None /\ box' = box /\ box \in Elements!Box /\ Elements!ValidBox(box)
      /\ UNCHANGED <<element, source, offset, symbols>>
      /\ \/ stage' = "normalize" /\ Elements!ValidPosition(p) /\ position' = p
         \/ stage' = "rejected" /\ position' = position
  BY DEF Elements!MakePosition, Elements!Check, Elements!Made, ElementsIInv, PositionOK
<1>2. p \in Elements!Position /\ p.box = box
  BY <1>1 DEF Elements!Position
<1>3. stage' \in {"normalize", "rejected"}
  BY <1>1
<1>4. box' \in Elements!Box /\ Elements!ValidBox(box')
  BY <1>1
<1>5. position' = None \/ position'.box = box'
  BY <1>1, <1>2
<1>6. PositionOK'
  <2>1. stage' = "normalize" => position' \in Elements!Position /\ Elements!ValidPosition(position') /\ position'.box = box'
    BY <1>1, <1>2
  <2>2. QED
    BY <1>3, <1>4, <2>1 DEF PositionOK, Elements!Position, Elements!Box, Elements!ValidPosition, Elements!ValidBox
<1>7. QED
  BY <1>1, <1>3, <1>4, <1>5, <1>6, EarlyIInv

LEMMA NormalizeIInv ==
  ASSUME ElementsIInv, Elements!Normalize
  PROVE  ElementsIInv'
<1>1. /\ stage = "normalize" /\ box' = None /\ position' = None /\ stage' \in {"confidence", "rejected"}
      /\ UNCHANGED <<element, source, offset, symbols>>
  BY DEF Elements!Normalize, Elements!Check
<1>2. PositionOK'
  BY <1>1 DEF PositionOK
<1>3. QED
  BY <1>1, <1>2, EarlyIInv

\* A constructor that leaves everything but the stage.
LEMMA ValidationIInv ==
  ASSUME ElementsIInv, stage \in {"confidence", "review"}, stage' \in {"confidence", "review", "element", "rejected"},
         UNCHANGED <<box, position, element, source, offset, symbols>>
  PROVE  ElementsIInv'
<1>1. /\ box = None \/ (box \in Elements!Box /\ Elements!ValidBox(box))
      /\ position = None \/ position.box = box
  BY DEF ElementsIInv, Elements!TypeOK
<1>2. /\ box' = None \/ (box' \in Elements!Box /\ Elements!ValidBox(box'))
      /\ position' = None \/ position'.box = box'
  BY <1>1
<1>3. PositionOK'
  BY DEF PositionOK
<1>4. QED
  BY <1>2, <1>3, EarlyIInv

\* A constructor of the element: of an element that is scanned next, or of
\* one of its parts.
LEMMA MadeIInv ==
  ASSUME ElementsIInv, stage \in {"element", "cells"}, stage' \in {"cells", "scan", "rejected"},
         UNCHANGED <<box, position, source, offset, symbols>>,
         stage' = "rejected" => element' = element,
         stage' = "cells" => Gathering',
         stage' = "scan" => element'.kind \in {"text", "picture", "table"} /\ SourcesOK(Elements!Sources(element'))
  PROVE  ElementsIInv'
<1>1. /\ symbols \in Seq(Match) /\ symbols = <<>> /\ source = 1 /\ offset = 0 /\ offset \in Nat /\ DOMAIN symbols = {}
  BY DEF ElementsIInv, ScanOK, Scanned
<1>2. element # None => element.kind \in {"text", "picture", "table"}
  BY DEF ElementsIInv, Elements!TypeOK
<1>3. element' # None => element'.kind \in {"text", "picture", "table"}
  BY <1>2 DEF Gathering
<1>4. Elements!TypeOK'
  BY <1>1, <1>3 DEF ElementsIInv, Elements!TypeOK, Elements!Box, Elements!ValidBox
<1>5. ElementOK'
  BY DEF ElementOK, Scanned, Src
<1>6. PositionOK'
  BY DEF PositionOK
<1>7. ASSUME stage' = "scan"
      PROVE  /\ source \in 1 .. Len(Src') + 1
             /\ source <= Len(Src') => offset <= Len(Src'[source].text) /\ Aligned(Src'[source].text, offset)
             /\ FoundOK'
  <2>1. SourcesOK(Src')
    BY <1>7 DEF Src
  <2>2. Len(Src') \in Nat /\ DOMAIN Src' = 1 .. Len(Src')
    BY <2>1, SourceFacts
  <2>3. \A j \in DOMAIN Src' : Src'[j].text \in Seq(Elements!Character)
    BY <2>1, SourceFacts
  <2>4. ASSUME 1 <= Len(Src') PROVE 0 <= Len(Src'[1].text)
    <3>1. 1 \in DOMAIN Src'
      BY <2>2, <2>4
    <3>2. QED
      BY <2>3, <3>1
  <2>5. \A text : Aligned(text, 0)
    BY DEF Aligned
  <2>6. \A j \in DOMAIN Src' : \A i \in DOMAIN Src'[j].text : ~(j < 1) /\ ~(i <= 0)
    BY <2>2, <2>3
  <2>7. FoundOK'
    <3>1. DOMAIN symbols' = {} /\ source' = 1 /\ offset' = 0
      BY <1>1
    <3>2. ASSUME NEW j \in DOMAIN Src', NEW i \in DOMAIN Src'[j].text PROVE ~(j < source' \/ (j = source' /\ i <= offset'))
      BY <2>6, <3>1
    <3>3. QED
      BY <3>1, <3>2 DEF FoundOK
  <2>8. 1 \in 1 .. Len(Src') + 1
    BY <2>2
  <2>9. QED
    BY <1>1, <2>4, <2>5, <2>7, <2>8
<1>8. ScanOK'
  BY <1>1, <1>7 DEF ScanOK, Scanned
<1>9. QED
  BY <1>4, <1>5, <1>6, <1>8 DEF ElementsIInv

LEMMA MakeElementIInv ==
  ASSUME ElementsIInv, stage = "element", Elements!Element
  PROVE  ElementsIInv'
<1>1. ASSUME NEW t \in Text, Elements!MakeText([kind |-> "text", text |-> t]) PROVE ElementsIInv'
  <2> DEFINE e == [kind |-> "text", text |-> t]
  <2>1. e.kind = "text" /\ e.text \in Text
    OBVIOUS
  <2>2. SourcesOK(Elements!Sources(e))
    BY <2>1, TextSources
  <2>3. Elements!MakeText(e)
    BY <1>1
  <2> HIDE DEF e
  <2>4. /\ stage' \in {"scan", "rejected"} /\ UNCHANGED <<box, position, source, offset, symbols>>
        /\ element' = IF stage' = "rejected" THEN element ELSE e
    BY <2>3 DEF Elements!MakeText, Elements!Check, Elements!Made
  <2>5. QED
    BY <2>1, <2>2, <2>4, MadeIInv
<1>2. ASSUME NEW c \in Text \cup {None}, NEW o \in Text \cup {None}, NEW w \in PageCoord,
             Elements!MakePicture([kind |-> "picture", caption |-> c, ocr |-> o, width |-> w, height |-> 1])
      PROVE  ElementsIInv'
  <2> DEFINE e == [kind |-> "picture", caption |-> c, ocr |-> o, width |-> w, height |-> 1]
  <2>1. e.kind = "picture" /\ e.caption \in Text \cup {None} /\ e.ocr \in Text \cup {None}
    OBVIOUS
  <2>2. SourcesOK(Elements!Sources(e))
    BY <2>1, PictureSources
  <2>3. Elements!MakePicture(e)
    BY <1>2
  <2> HIDE DEF e
  <2>4. /\ stage' \in {"scan", "rejected"} /\ UNCHANGED <<box, position, source, offset, symbols>>
        /\ element' = IF stage' = "rejected" THEN element ELSE e
    BY <2>3 DEF Elements!MakePicture, Elements!Check, Elements!Made
  <2>5. QED
    BY <2>1, <2>2, <2>4, MadeIInv
<1>3. ASSUME NEW k \in Elements!Continuation, Elements!MakeContinuation(k) PROVE ElementsIInv'
  <2> DEFINE e == [kind |-> "table", cells |-> <<>>]
  <2>1. e \in [kind : {"table"}, cells : Seq(Elements!Cell)] /\ Len(e.cells) <= MaxCells
    BY ElementNumbers
  <2>2. /\ stage' \in {"cells", "rejected"} /\ UNCHANGED <<box, position, source, offset, symbols>>
        /\ element' = IF stage' = "rejected" THEN element ELSE e
    BY <1>3 DEF Elements!MakeContinuation, Elements!Check, Elements!Made
  <2> HIDE DEF e
  <2>3. stage' = "cells" => Gathering'
    BY <2>1, <2>2 DEF Gathering
  <2>4. QED
    BY <2>2, <2>3, MadeIInv
<1>4. QED
  BY <1>1, <1>2, <1>3 DEF Elements!Element

LEMMA MakeCellIInv ==
  ASSUME ElementsIInv, stage = "cells", NEW c \in Elements!Cell, Elements!MakeCell(c)
  PROVE  ElementsIInv'
<1> DEFINE s == Append(element.cells, c)
           e == [element EXCEPT !.cells = s]
<1>1. element \in [kind : {"table"}, cells : Seq(Elements!Cell)] /\ Len(element.cells) < MaxCells
  BY DEF ElementsIInv, ElementOK, Gathering, Elements!MakeCell
<1>2. /\ stage' \in {"cells", "rejected"} /\ UNCHANGED <<box, position, source, offset, symbols>>
      /\ element' = IF stage' = "rejected" THEN element ELSE e
  BY DEF Elements!MakeCell, Elements!Check, Elements!Made
<1>3. s \in Seq(Elements!Cell) /\ Len(s) <= MaxCells
  BY <1>1, ElementNumbers
<1> HIDE DEF s
<1>4. e \in [kind : {"table"}, cells : Seq(Elements!Cell)] /\ e.cells = s
  BY <1>1, <1>3
<1> HIDE DEF e
<1>5. stage' = "cells" => Gathering'
  BY <1>2, <1>3, <1>4 DEF Gathering
<1>6. QED
  BY <1>2, <1>5, MadeIInv

LEMMA MakeTableIInv ==
  ASSUME ElementsIInv, stage = "cells", NEW m, NEW n, NEW t \in TableText \cup {None}, NEW h,
         Elements!MakeTable(m, n, t, h)
  PROVE  ElementsIInv'
<1> DEFINE e == [kind |-> "table", cells |-> element.cells, title |-> t, rows |-> m, columns |-> n, html |-> h]
<1>1. element.cells \in Seq(Elements!Cell) /\ Len(element.cells) <= MaxCells
  BY DEF ElementsIInv, ElementOK, Gathering
<1>2. e.kind = "table" /\ e.title \in TableText \cup {None} /\ e.cells \in Seq(Elements!Cell) /\ Len(e.cells) <= MaxCells
  BY <1>1
<1>3. /\ UNCHANGED <<box, position, source, offset, symbols>>
      /\ stage' = IF Elements!ValidTable(e) THEN "scan" ELSE "rejected"
      /\ element' = IF stage' = "rejected" THEN element ELSE e
  BY DEF Elements!MakeTable, Elements!Check, Elements!Made
<1> HIDE DEF e
<1>4. stage' = "scan" => SourcesOK(Elements!Sources(e))
  <2>1. Elements!ValidTable(e) => \A i, j \in DOMAIN e.cells : e.cells[i].id = e.cells[j].id => i = j
    BY DEF Elements!ValidTable
  <2>2. QED
    BY <1>2, <1>3, <2>1, TableSources
<1>5. QED
  BY <1>2, <1>3, <1>4, MadeIInv

\* A match says where it comes from.
LEMMA MatchFields ==
  ASSUME NEW src, NEW i
  PROVE  /\ MatchOf(src, i).field = src.field /\ MatchOf(src, i).id = src.id
         /\ MatchOf(src, i).start = i - 1 /\ MatchOf(src, i).end = EndOf(src.text, i)
         /\ MatchOf(src, i).raw = SubSeq(src.text, i, EndOf(src.text, i))
BY DEF MatchOf

\* The scan passes character i of the current source, and what it finds there.
LEMMA PassedFound ==
  ASSUME FoundOK, SourcesOK(Src), Src' = Src, source' = source, source \in DOMAIN Src, symbols \in Seq(Match),
         offset \in Nat, NEW i \in 1 .. Len(Src[source].text), i = offset + 1,
         offset' \in {i, i + 1}, offset' = EndOf(Src[source].text, i),
         offset' = i + 1 => ~StartsAt(Src[source].text, i + 1),
         NEW match \in Match, match = MatchOf(Src[source], i) \/ ~StartsAt(Src[source].text, i),
         symbols' = IF StartsAt(Src[source].text, i) THEN Append(symbols, match) ELSE symbols
  PROVE  FoundOK'
<1> DEFINE found == StartsAt(Src[source].text, i)
           n == Len(symbols)
<1>1. /\ n \in Nat /\ DOMAIN symbols = 1 .. n
      /\ DOMAIN symbols' = IF found THEN 1 .. n + 1 ELSE 1 .. n
      /\ \A k \in 1 .. n : symbols'[k] = symbols[k]
      /\ found => symbols'[n + 1] = match /\ match = MatchOf(Src[source], i)
  <2>1. n \in Nat /\ DOMAIN symbols = 1 .. n
    OBVIOUS
  <2>2. CASE found
    BY <2>1, <2>2, AppendProperties
  <2>3. CASE ~found
    BY <2>1, <2>3
  <2>4. QED
    BY <2>1, <2>2, <2>3
<1>2. i \in Nat /\ i >= 1 /\ offset = i - 1 /\ offset' \in Nat /\ offset < offset'
  OBVIOUS
<1>s. DOMAIN Src = 1 .. Len(Src) /\ Len(Src) \in Nat /\ source \in Nat
  BY SourceFacts
<1>3. ASSUME NEW k \in DOMAIN symbols'
      PROVE  \E j \in DOMAIN Src' : \E m \in DOMAIN Src'[j].text : FoundAt(k, j, m)'
  <2>1. CASE k \in 1 .. n
    <3>1. PICK j \in DOMAIN Src : \E m \in DOMAIN Src[j].text : FoundAt(k, j, m)
      BY <1>1, <2>1 DEF FoundOK
    <3>2. PICK m \in DOMAIN Src[j].text : FoundAt(k, j, m)
      BY <3>1
    <3>3. Src[j].text \in Seq(Elements!Character)
      BY SourceFacts
    <3>4. m \in Nat /\ EndOf(Src[j].text, m) \in Nat
      BY <3>3 DEF EndOf
    <3>5. j < source \/ (j = source /\ EndOf(Src[j].text, m) <= offset')
      BY <1>2, <3>2, <3>4 DEF FoundAt
    <3>6. FoundAt(k, j, m)'
      BY <1>1, <2>1, <3>2, <3>5 DEF FoundAt
    <3>7. QED
      BY <3>6
  <2>2. CASE found /\ k = n + 1
    <3>1. symbols'[k] = MatchOf(Src'[source], i) /\ StartsAt(Src'[source].text, i) /\ EndOf(Src'[source].text, i) <= offset'
      BY <1>1, <1>2, <2>2
    <3>2. FoundAt(k, source, i)'
      BY <3>1 DEF FoundAt
    <3>3. source \in DOMAIN Src' /\ i \in DOMAIN Src'[source].text
      BY SourceFacts
    <3>4. QED
      BY <3>2, <3>3
  <2>3. QED
    BY <1>1, <1>3, <2>1, <2>2
<1>4. ASSUME NEW j \in DOMAIN Src, NEW m \in DOMAIN Src[j].text, StartsAt(Src[j].text, m),
             j < source \/ (j = source /\ m <= offset')
      PROVE  \E k \in DOMAIN symbols' : symbols'[k] = MatchOf(Src[j], m)
  <2>0. m \in Nat
    BY SourceFacts
  <2>1. CASE j < source \/ (j = source /\ m <= offset)
    <3>1. PICK k \in DOMAIN symbols : symbols[k] = MatchOf(Src[j], m)
      BY <1>4, <2>1 DEF FoundOK
    <3>2. k \in DOMAIN symbols' /\ symbols'[k] = symbols[k]
      BY <1>1
    <3>3. QED
      BY <3>1, <3>2
  <2>2. CASE j = source /\ m > offset
    <3>1. m = i
      <4>1. m > i - 1 /\ m <= offset'
        BY <1>2, <1>4, <1>s, <2>2
      <4>2. CASE offset' = i
        BY <1>2, <2>0, <4>1, <4>2
      <4>3. CASE offset' = i + 1
        <5>1. m # i + 1
          BY <1>4, <2>2, <4>3
        <5>2. QED
          BY <1>2, <2>0, <4>1, <4>3, <5>1
      <4>4. QED
        BY <4>2, <4>3
    <3>2. found
      BY <1>4, <2>2, <3>1
    <3>3. n + 1 \in DOMAIN symbols' /\ symbols'[n + 1] = MatchOf(Src[j], m)
      BY <1>1, <2>2, <3>1, <3>2
    <3>4. QED
      BY <3>3
  <2>3. QED
    BY <1>2, <1>4, <2>0, <2>1, <2>2, <1>s
<1>5. ASSUME NEW k \in DOMAIN symbols', NEW l \in DOMAIN symbols', k < l,
             symbols'[k].field = symbols'[l].field, symbols'[k].id = symbols'[l].id
      PROVE  symbols'[k].end <= symbols'[l].start
  <2>1. CASE l \in 1 .. n
    <3>1. k \in 1 .. n /\ symbols'[k] = symbols[k] /\ symbols'[l] = symbols[l]
      BY <1>1, <1>5, <2>1
    <3>2. QED
      BY <1>1, <1>5, <2>1, <3>1 DEF FoundOK
  <2>2. CASE found /\ l = n + 1
    <3>1. k \in 1 .. n /\ symbols'[k] = symbols[k] /\ symbols'[l] = MatchOf(Src[source], i)
      BY <1>1, <1>5, <2>2
    <3>2. PICK j \in DOMAIN Src : \E m \in DOMAIN Src[j].text : FoundAt(k, j, m)
      BY <1>1, <3>1 DEF FoundOK
    <3>3. PICK m \in DOMAIN Src[j].text : FoundAt(k, j, m)
      BY <3>2
    <3>4. symbols[k] = MatchOf(Src[j], m)
      BY <3>3 DEF FoundAt
    <3>5. symbols'[l].start = offset /\ symbols'[l].field = Src[source].field /\ symbols'[l].id = Src[source].id
      BY <1>2, <3>1, MatchFields
    <3>6. symbols[k].end = EndOf(Src[j].text, m) /\ symbols[k].field = Src[j].field /\ symbols[k].id = Src[j].id
      BY <3>4, MatchFields
    <3>7. j = source
      BY <1>5, <3>1, <3>5, <3>6, SourceFacts
    <3>8. EndOf(Src[j].text, m) <= offset
      BY <3>3, <3>7, <1>s DEF FoundAt
    <3>9. QED
      BY <3>1, <3>5, <3>6, <3>8
  <2>3. QED
    BY <1>1, <1>5, <2>1, <2>2
<1>6. QED
  BY <1>3, <1>4, <1>5 DEF FoundOK

LEMMA ScanStepIInv ==
  ASSUME ElementsIInv, Elements!ScanStep
  PROVE  ElementsIInv'
<1> DEFINE src == Src[source]
           text == src.text
           raw == Elements!MatchAt(text, offset + 1)
           match == [field |-> src.field, id |-> src.id, start |-> offset, end |-> offset + Len(raw),
                     raw |-> raw, operator |-> Elements!Operator[raw]]
<1>1. /\ stage = "scan" /\ source <= Len(Src) /\ offset < Len(text)
      /\ IF raw = <<>> THEN offset' = offset + 1 /\ symbols' = symbols
                       ELSE offset' = match.end /\ symbols' = Append(symbols, match)
      /\ UNCHANGED <<stage, box, position, element, source>>
  BY DEF Elements!ScanStep, Src
<1>2. /\ SourcesOK(Src) /\ source \in 1 .. Len(Src) + 1 /\ Aligned(text, offset) /\ FoundOK
      /\ symbols \in Seq(Match) /\ offset \in Nat /\ element.kind \in {"text", "picture", "table"}
  BY <1>1 DEF ElementsIInv, ElementOK, ScanOK, Scanned
<1>3. source \in DOMAIN Src /\ src \in SourceSet /\ text \in Seq(Elements!Character)
  <2>1. source \in DOMAIN Src
    BY <1>1, <1>2, SourceFacts
  <2>2. QED
    BY <1>2, <2>1, SourceFacts
<1>4. PICK i \in 1 .. Len(text) : i = offset + 1 /\ offset = i - 1 /\ i \in Nat
  <2>1. offset + 1 \in 1 .. Len(text) /\ offset = (offset + 1) - 1
    BY <1>1, <1>2, <1>3
  <2>2. QED
    BY <1>2, <2>1
<1>5. /\ EndOf(text, i) \in {i, i + 1} /\ EndOf(text, i) <= Len(text)
      /\ Aligned(text, EndOf(text, i))
      /\ EndOf(text, i) = i + 1 => StartsAt(text, i) /\ ~StartsAt(text, i + 1)
      /\ ~StartsAt(text, i) => raw = <<>>
      /\ StartsAt(text, i) =>
              /\ raw = SubSeq(text, i, EndOf(text, i))
              /\ raw \in DOMAIN Elements!Operator
              /\ Len(raw) = EndOf(text, i) - i + 1
              /\ raw # <<>>
  <2>1. Aligned(text, i - 1)
    BY <1>2, <1>4
  <2>2. raw = Elements!MatchAt(text, i)
    BY <1>4
  <2>3. text \in Seq(Elements!Character) /\ i \in 1 .. Len(text)
    BY <1>3, <1>4
  <2> HIDE DEF text, raw
  <2>4. /\ EndOf(text, i) \in {i, i + 1} /\ EndOf(text, i) <= Len(text)
        /\ Aligned(text, EndOf(text, i))
        /\ EndOf(text, i) = i + 1 => StartsAt(text, i) /\ ~StartsAt(text, i + 1)
        /\ ~StartsAt(text, i) => Elements!MatchAt(text, i) = <<>>
        /\ StartsAt(text, i) =>
              /\ Elements!MatchAt(text, i) = SubSeq(text, i, EndOf(text, i))
              /\ SubSeq(text, i, EndOf(text, i)) \in DOMAIN Elements!Operator
              /\ Len(SubSeq(text, i, EndOf(text, i))) = EndOf(text, i) - i + 1
              /\ SubSeq(text, i, EndOf(text, i)) # <<>>
    BY <2>1, <2>3, MatchFacts
  <2>5. QED
    BY <2>2, <2>4
<1>6. StartsAt(text, i) => match = MatchOf(src, i) /\ match \in Match
  <2>1. SUFFICES ASSUME StartsAt(text, i) PROVE match = MatchOf(src, i) /\ match \in Match
    OBVIOUS
  <2>2. offset + Len(raw) = EndOf(text, i) /\ EndOf(text, i) \in Nat
    BY <1>2, <1>4, <1>5, <2>1
  <2>3. raw = SubSeq(text, i, EndOf(text, i)) /\ raw \in DOMAIN Elements!Operator
    BY <1>5, <2>1
  <2>4. match = MatchOf(src, i)
    BY <1>4, <2>2, <2>3 DEF MatchOf
  <2>5. src.field \in {"text", "caption", "ocr_text", "title", "cell.text"} /\ src.id \in CellId \cup {None}
    BY <1>3 DEF SourceSet
  <2>6. Elements!Operator[raw] \in {"GT", "LT", "EQ", "NE", "GE", "LE"}
    BY <2>3, OperatorFacts
  <2> HIDE DEF raw, src
  <2>7. match \in Match
    BY <1>2, <2>2, <2>3, <2>5, <2>6 DEF Match
  <2>8. QED
    BY <2>4, <2>7
<1>7. /\ offset' = EndOf(text, i) /\ offset' \in Nat
      /\ symbols' = IF StartsAt(text, i) THEN Append(symbols, match) ELSE symbols
  <2>1. CASE StartsAt(text, i)
    <3>1. match.end = EndOf(text, i)
      BY <1>6, <2>1, MatchFields
    <3>2. QED
      BY <1>1, <1>4, <1>5, <2>1, <3>1
  <2>2. CASE ~StartsAt(text, i)
    BY <1>1, <1>4, <1>5, <2>2
  <2>3. QED
    BY <2>1, <2>2
<1> HIDE DEF match
<1>8. Src' = Src
  BY <1>1 DEF Src
<1>9. FoundOK' /\ symbols' \in Seq(Match)
  <2>1. CASE StartsAt(text, i)
    <3>1. match \in Match /\ match = MatchOf(src, i)
      BY <1>6, <2>1
    <3>2. FoundOK'
      BY <1>1, <1>2, <1>3, <1>4, <1>5, <1>7, <1>8, <3>1, PassedFound
    <3>3. QED
      BY <1>2, <1>7, <3>1, <3>2
  <2>2. CASE ~StartsAt(text, i)
    <3>1. PICK m : m \in Match
      <4>1. [field |-> "text", id |-> None, start |-> 0, end |-> 0, raw |-> <<"=">>, operator |-> "EQ"] \in Match
        BY OperatorFacts DEF Match
      <4>2. QED
        BY <4>1
    <3>2. symbols' = IF StartsAt(text, i) THEN Append(symbols, m) ELSE symbols
      BY <1>7, <2>2
    <3>3. FoundOK'
      BY <1>1, <1>2, <1>3, <1>4, <1>5, <1>7, <1>8, <2>2, <3>1, <3>2, PassedFound
    <3>4. QED
      BY <1>2, <1>7, <2>2, <3>3
  <2>3. QED
    BY <2>1, <2>2
<1>10. ScanOK'
  <2>1. /\ source' \in 1 .. Len(Src') + 1 /\ source' <= Len(Src')
        /\ offset' <= Len(Src'[source'].text) /\ Aligned(Src'[source'].text, offset')
    BY <1>1, <1>2, <1>5, <1>7, <1>8
  <2>2. QED
    BY <1>1, <1>7, <1>9, <2>1 DEF ScanOK, Scanned
<1>11. Elements!TypeOK'
  <2>1. \A k \in DOMAIN symbols' : symbols'[k].raw \in DOMAIN Elements!Operator
    <3>1. \A m \in Match : m.raw \in DOMAIN Elements!Operator
      BY DEF Match
    <3>2. \A k \in DOMAIN symbols' : symbols'[k] \in Match
      BY <1>9
    <3>3. QED
      BY <3>1, <3>2
  <2>2. QED
    BY <1>1, <1>7, <2>1 DEF ElementsIInv, Elements!TypeOK, Elements!Box, Elements!ValidBox
<1>12. ElementOK' /\ PositionOK'
  BY <1>1, <1>2, <1>8 DEF ElementOK, PositionOK, Scanned
<1>13. QED
  BY <1>10, <1>11, <1>12 DEF ElementsIInv

LEMMA NextSourceIInv ==
  ASSUME ElementsIInv, Elements!NextSource
  PROVE  ElementsIInv'
<1>1. /\ stage = "scan" /\ UNCHANGED <<box, position, element, symbols>>
      /\ \/ source > Len(Src) /\ stage' = "done" /\ source' = source /\ offset' = offset
         \/ ~(source > Len(Src)) /\ offset = Len(Src[source].text) /\ source' = source + 1 /\ offset' = 0 /\ stage' = "scan"
  BY DEF Elements!NextSource, Src
<1>2. /\ SourcesOK(Src) /\ source \in 1 .. Len(Src) + 1 /\ FoundOK
      /\ symbols \in Seq(Match) /\ offset \in Nat /\ element.kind \in {"text", "picture", "table"}
  BY <1>1 DEF ElementsIInv, ElementOK, ScanOK, Scanned
<1>3. Len(Src) \in Nat /\ DOMAIN Src = 1 .. Len(Src) /\ Len(Src) <= MaxCells + 2 /\ source \in Nat /\ source >= 1
  BY <1>2, SourceFacts
<1>4. Src' = Src
  BY <1>1 DEF Src
<1>5. source' \in 1 .. Len(Src) + 1 /\ offset' \in Nat
  BY <1>1, <1>2, <1>3
<1>6. FoundOK'
  <2>1. CASE source' = source /\ offset' = offset
    BY <1>1, <1>2, <1>4, <2>1 DEF FoundOK, FoundAt
  <2>2. CASE source' = source + 1 /\ source <= Len(Src) /\ offset = Len(Src[source].text)
    <3>1. \A j \in DOMAIN Src : j < source \/ j = source => j < source'
      BY <1>3, <2>2
    <3>2. ASSUME NEW k \in DOMAIN symbols'
          PROVE  \E j \in DOMAIN Src' : \E m \in DOMAIN Src'[j].text : FoundAt(k, j, m)'
      <4>1. PICK j \in DOMAIN Src : \E m \in DOMAIN Src[j].text : FoundAt(k, j, m)
        BY <1>1, <1>2 DEF FoundOK
      <4>2. PICK m \in DOMAIN Src[j].text : FoundAt(k, j, m)
        BY <4>1
      <4>3. FoundAt(k, j, m)'
        BY <1>1, <1>4, <3>1, <4>2 DEF FoundAt
      <4>4. QED
        BY <1>4, <4>3
    <3>3. ASSUME NEW j \in DOMAIN Src, NEW m \in DOMAIN Src[j].text, StartsAt(Src[j].text, m),
                 j < source' \/ (j = source' /\ m <= offset')
          PROVE  \E k \in DOMAIN symbols' : symbols'[k] = MatchOf(Src[j], m)
      <4>1. Src[j].text \in Seq(Elements!Character)
        BY <1>2, SourceFacts
      <4>2. m \in Nat /\ m >= 1 /\ m <= Len(Src[j].text) /\ offset' = 0
        BY <1>1, <1>3, <2>2, <4>1
      <4>3. j < source'
        BY <3>3, <4>2
      <4>4. j < source \/ (j = source /\ m <= offset)
        BY <1>3, <2>2, <4>2, <4>3
      <4>5. QED
        BY <1>1, <1>2, <3>3, <4>4 DEF FoundOK
    <3>4. QED
      BY <1>1, <1>2, <1>4, <3>2, <3>3 DEF FoundOK
  <2>3. QED
    BY <1>1, <1>3, <2>1, <2>2
<1>7. source' <= Len(Src) => offset' <= Len(Src[source'].text) /\ Aligned(Src[source'].text, offset')
  <2>1. SUFFICES ASSUME source' <= Len(Src) PROVE offset' <= Len(Src[source'].text) /\ Aligned(Src[source'].text, offset')
    OBVIOUS
  <2>2. offset' = 0
    BY <1>1, <1>3, <2>1
  <2>3. source' \in DOMAIN Src
    BY <1>3, <1>5, <2>1
  <2>4. Src[source'].text \in Seq(Elements!Character)
    BY <1>2, <2>3, SourceFacts
  <2>5. QED
    BY <2>2, <2>4 DEF Aligned
<1>8. ScanOK'
  <2>1. stage' \in Scanned /\ (stage' = "done" => source' = Len(Src) + 1)
    BY <1>1, <1>2, <1>3 DEF Scanned
  <2>2. QED
    BY <1>1, <1>2, <1>4, <1>5, <1>6, <1>7, <2>1 DEF ScanOK
<1>9. Elements!TypeOK'
  <2>1. source' \in 1 .. MaxCells + 3
    BY <1>3, <1>5, ElementNumbers
  <2>2. QED
    BY <1>1, <1>5, <2>1 DEF ElementsIInv, Elements!TypeOK, Elements!Box, Elements!ValidBox
<1>10. ElementOK' /\ PositionOK'
  BY <1>1, <1>2, <1>4 DEF ElementOK, PositionOK, Scanned
<1>11. QED
  BY <1>8, <1>9, <1>10 DEF ElementsIInv

LEMMA StutterElementsIInv == ElementsIInv /\ UNCHANGED Elements!vars => ElementsIInv'
<1> SUFFICES ASSUME ElementsIInv, UNCHANGED Elements!vars PROVE ElementsIInv'
  OBVIOUS
<1>1. UNCHANGED <<stage, box, position, element, source, offset, symbols>> /\ Src' = Src
  BY DEF Elements!vars, Src
<1>2. ElementOK' /\ PositionOK' /\ Elements!TypeOK'
  BY <1>1 DEF ElementsIInv, ElementOK, PositionOK, Gathering, Elements!TypeOK, Elements!Box, Elements!ValidBox
<1>3. FoundOK' <=> FoundOK
  BY <1>1 DEF FoundOK, FoundAt
<1>4. ScanOK'
  BY <1>1, <1>3 DEF ElementsIInv, ScanOK
<1>5. QED
  BY <1>2, <1>4 DEF ElementsIInv

LEMMA NextElementsIInv == ElementsIInv /\ [Elements!Next]_(Elements!vars) => ElementsIInv'
<1> SUFFICES ASSUME ElementsIInv, [Elements!Next]_(Elements!vars) PROVE ElementsIInv'
  OBVIOUS
<1>1. CASE stage = "box" /\ \E b \in Elements!Box : Elements!MakeBox(b)
  BY <1>1, MakeBoxIInv
<1>2. CASE stage = "position" /\ \E p \in [index : PageCoord, width : PageCoord, height : PageCoord,
                                      box : {box}, order : PageCoord \cup {None}] : Elements!MakePosition(p)
  BY <1>2, MakePositionIInv
<1>3. CASE Elements!Normalize
  BY <1>3, NormalizeIInv
<1>4. CASE stage = "confidence" /\ ((\E r \in Elements!Recognition : Elements!MakeRecognition(r))
                                      \/ (\E c \in Elements!Confidence : Elements!MakeConfidence(c)))
  <2>1. stage = "confidence" /\ stage' \in {"confidence", "review", "rejected"}
        /\ UNCHANGED <<box, position, element, source, offset, symbols>>
    BY <1>4 DEF Elements!MakeRecognition, Elements!MakeConfidence, Elements!Check
  <2>2. QED
    BY <2>1, ValidationIInv
<1>5. CASE stage = "review" /\ \E r \in Elements!Review : Elements!MakeReview(r)
  <2>1. stage = "review" /\ stage' \in {"element", "rejected"}
        /\ UNCHANGED <<box, position, element, source, offset, symbols>>
    BY <1>5 DEF Elements!MakeReview, Elements!Check
  <2>2. QED
    BY <2>1, ValidationIInv
<1>6. CASE stage = "element" /\ Elements!Element
  BY <1>6, MakeElementIInv
<1>7. CASE stage = "cells" /\ \E c \in Elements!Cell : Elements!MakeCell(c)
  BY <1>7, MakeCellIInv
<1>8. CASE stage = "cells" /\ \E m, n \in GridCoord, t \in TableText \cup {None}, h \in BOOLEAN :
                                Elements!MakeTable(m, n, t, h)
  BY <1>8, MakeTableIInv
<1>9. CASE Elements!ScanStep
  BY <1>9, ScanStepIInv
<1>10. CASE Elements!NextSource
  BY <1>10, NextSourceIInv
<1>11. CASE UNCHANGED Elements!vars
  BY <1>11, StutterElementsIInv
<1>12. QED
  BY <1>1, <1>2, <1>3, <1>4, <1>5, <1>6, <1>7, <1>8, <1>9, <1>10, <1>11 DEF Elements!Next

\* The inductive invariant holds in every state, whatever the parser reports.
THEOREM ElementsInvariance == Elements!Spec => []ElementsIInv
BY InitElementsIInv, NextElementsIInv, PTL DEF Elements!Spec

-----------------------------------------------------------------------------
(* DocumentElements: what follows *)

\* Fractions with the same denominator.
LEMMA FractionsOrdered ==
  ASSUME NEW a \in Int, NEW b \in Int, NEW w \in Int, a < b, w >= 1
  PROVE  a * w < b * w
<1>1. PICK d \in Nat : b = a + d + 1
  <2>1. b - a - 1 \in Nat /\ b = a + (b - a - 1) + 1
    OBVIOUS
  <2>2. QED
    BY <2>1
<1>2. d * w >= 0
  OBVIOUS
<1>3. b * w = a * w + d * w + w /\ a * w \in Int /\ d * w \in Int
  BY <1>1
<1>4. QED
  BY <1>2, <1>3

\* A box inside a page of positive size has a normalized form.
LEMMA NeverRaises == ElementsIInv => Elements!NormalizedNeverRaises
<1> SUFFICES ASSUME ElementsIInv, stage = "normalize" PROVE Elements!ValidNormalized(Elements!Normalized(position))
  BY DEF Elements!NormalizedNeverRaises
<1>1. position \in Elements!Position /\ Elements!ValidPosition(position) /\ Elements!ValidBox(position.box) /\ position.box \in Elements!Box
  BY DEF ElementsIInv, PositionOK
<1>2. PICK w \in Int, h \in Int, x1 \in Int, y1 \in Int, x2 \in Int, y2 \in Int :
        /\ w = position.width /\ h = position.height
        /\ x1 = position.box.x1 /\ y1 = position.box.y1 /\ x2 = position.box.x2 /\ y2 = position.box.y2
  BY <1>1, ElementNumbers DEF Elements!Position, Elements!Box
<1>3. /\ w >= 1 /\ h >= 1 /\ x1 >= 0 /\ y1 >= 0 /\ x2 > x1 /\ y2 > y1 /\ x2 <= w /\ y2 <= h
  BY <1>1, <1>2 DEF Elements!ValidPosition, Elements!ValidBox
<1>4. x1 * w < x2 * w /\ y1 * h < y2 * h
  BY <1>3, FractionsOrdered
<1>5. x1 <= w /\ y1 <= h /\ x2 >= 0 /\ y2 >= 0
  BY <1>3
<1> DEFINE b == Elements!Normalized(position)
<1>6. b.x1 = <<x1, w>> /\ b.y1 = <<y1, h>> /\ b.x2 = <<x2, w>> /\ b.y2 = <<y2, h>>
  BY <1>2 DEF Elements!Normalized
<1> HIDE DEF b
<1>7. Elements!Less(b.x1, b.x2) /\ Elements!Less(b.y1, b.y2)
  BY <1>4, <1>6 DEF Elements!Less
<1>8. \A f \in {b.x1, b.y1, b.x2, b.y2} : f[1] >= 0 /\ f[1] <= f[2]
  BY <1>3, <1>5, <1>6
<1>9. Elements!ValidNormalized(b)
  BY <1>7, <1>8 DEF Elements!ValidNormalized
<1>10. QED
  BY <1>9 DEF b

\* At the end of the last source all that is there was found.
LEMMA EverySymbolFound == ElementsIInv => Elements!FindsEverySymbol
<1> SUFFICES ASSUME ElementsIInv, stage = "done"
             PROVE  /\ {symbols[i] : i \in DOMAIN symbols} = UNION {Elements!Expected(j) : j \in DOMAIN Src}
                    /\ \A i, j \in DOMAIN symbols :
                         i < j /\ symbols[i].field = symbols[j].field /\ symbols[i].id = symbols[j].id =>
                           symbols[i].end <= symbols[j].start
  BY DEF Elements!FindsEverySymbol, Src
<1>1. FoundOK /\ SourcesOK(Src) /\ source = Len(Src) + 1
  BY DEF ElementsIInv, ScanOK, ElementOK, Scanned
<1>2. \A j \in DOMAIN Src : j < source
  BY <1>1, SourceFacts
<1>3. ASSUME NEW k \in DOMAIN symbols PROVE symbols[k] \in UNION {Elements!Expected(j) : j \in DOMAIN Src}
  <2>1. PICK j \in DOMAIN Src : \E m \in DOMAIN Src[j].text : FoundAt(k, j, m)
    BY <1>1 DEF FoundOK
  <2>2. PICK m \in DOMAIN Src[j].text : FoundAt(k, j, m)
    BY <2>1
  <2>3. symbols[k] \in Elements!Expected(j)
    BY <2>2, ExpectedIs DEF FoundAt
  <2>4. QED
    BY <2>3
<1>4. ASSUME NEW j \in DOMAIN Src, NEW m \in Elements!Expected(j) PROVE \E k \in DOMAIN symbols : symbols[k] = m
  <2>1. PICK i \in DOMAIN Src[j].text : StartsAt(Src[j].text, i) /\ m = MatchOf(Src[j], i)
    BY ExpectedIs
  <2>2. QED
    BY <1>1, <1>2, <2>1 DEF FoundOK
<1>5. {symbols[i] : i \in DOMAIN symbols} = UNION {Elements!Expected(j) : j \in DOMAIN Src}
  BY <1>3, <1>4
<1>6. QED
  BY <1>1, <1>5 DEF FoundOK

\* The cardinality of the instance is that of the standard module.
LEMMA SameCardinality == \A S : Elements!Cardinality(S) = Cardinality(S)
BY DEF Elements!Cardinality, Cardinality

\* The field and the identifier of a symbol lead back to one source.
LEMMA EverySymbolTraceable == ElementsIInv => Elements!EvidenceTraceable
<1> SUFFICES ASSUME ElementsIInv, NEW k \in DOMAIN symbols
             PROVE  LET origins == {j \in DOMAIN Src : Src[j].field = symbols[k].field /\ Src[j].id = symbols[k].id}
                    IN  /\ Elements!Cardinality(origins) = 1
                        /\ \A j \in origins :
                             SubSeq(Src[j].text, symbols[k].start + 1, symbols[k].end) = symbols[k].raw
  BY DEF Elements!EvidenceTraceable, Src
<1> DEFINE origins == {j \in DOMAIN Src : Src[j].field = symbols[k].field /\ Src[j].id = symbols[k].id}
<1>1. stage \in Scanned
  BY DEF ElementsIInv, ScanOK
<1>2. FoundOK /\ SourcesOK(Src)
  BY <1>1 DEF ElementsIInv, ScanOK, ElementOK
<1>3. PICK j \in DOMAIN Src : \E m \in DOMAIN Src[j].text : FoundAt(k, j, m)
  BY <1>2 DEF FoundOK
<1>4. PICK m \in DOMAIN Src[j].text : FoundAt(k, j, m)
  BY <1>3
<1>5. symbols[k] = MatchOf(Src[j], m)
  BY <1>4 DEF FoundAt
<1>6. /\ symbols[k].field = Src[j].field /\ symbols[k].id = Src[j].id
      /\ symbols[k].start = m - 1 /\ symbols[k].end = EndOf(Src[j].text, m)
      /\ symbols[k].raw = SubSeq(Src[j].text, m, EndOf(Src[j].text, m))
  BY <1>5, MatchFields
<1>7. origins = {j}
  BY <1>2, <1>6, SourceFacts
<1>8. Cardinality(origins) = 1
  BY <1>7, FS_Singleton
<1>9. m \in Nat
  BY <1>2, SourceFacts
<1>10. (m - 1) + 1 = m
  BY <1>9
<1>11. SubSeq(Src[j].text, symbols[k].start + 1, symbols[k].end) = symbols[k].raw
  BY <1>6, <1>10
<1>12. QED
  BY <1>7, <1>8, <1>11, SameCardinality

\* Accepted positions can be normalized; the scan finds every symbol of every
\* text, compound forms whole and in order; and each leads back to the one
\* source that has it at its offsets: for all texts, boxes and tables
\* (PagePosition, extract_comparison_symbols, TableElement).
THEOREM EvidenceIsSound == Elements!Spec => []EvidenceSound
<1>1. ElementsIInv => EvidenceSound
  BY NeverRaises, EverySymbolFound, EverySymbolTraceable DEF EvidenceSound, Elements!EvidenceSound
<1>2. QED
  BY <1>1, ElementsInvariance, PTL

-----------------------------------------------------------------------------
(* The composition *)

\* A behaviour of MCWorkerTasks is one of each of its parts: the four share
\* no state, and a step of one leaves the others alone.
THEOREM WorkerComposes == MCSpec => Spec /\ Runtime!Spec /\ Tools!Spec /\ Elements!Spec
<1>1. MCInit => Init /\ Runtime!Init /\ Tools!Init /\ Elements!Init
  BY DEF MCInit
<1>2. [MCNext]_<<part, vars, runtime, execution, elements>> =>
         /\ [Next]_vars /\ [Runtime!Next]_(Runtime!vars)
         /\ [Tools!Next]_(Tools!vars) /\ [Elements!Next]_(Elements!vars)
  BY DEF MCNext, runtime, execution, elements, Runtime!vars, Tools!vars, Elements!vars
<1>3. QED
  BY <1>1, <1>2, PTL DEF MCSpec, Spec, Runtime!Spec, Tools!Spec, Elements!Spec

\* Type correctness of the four parts of MCWorkerTasks.
THEOREM WorkerTypeCorrectness == MCSpec => []WellTyped
<1>1. TypeOK /\ Runtime!TypeOK /\ ToolsIInv /\ ElementsIInv => WellTyped
  BY DEF WellTyped, ToolsIInv, ElementsIInv
<1>2. QED
  BY <1>1, WorkerComposes, TypeCorrectness, RuntimeTypeCorrectness, ToolsInvariance, ElementsInvariance, PTL
=============================================================================

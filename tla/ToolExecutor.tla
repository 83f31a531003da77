---------------------------- MODULE ToolExecutor ----------------------------
(***************************************************************************)
(* One call of ToolExecutor.execute: a registered tool is invoked under a  *)
(* timeout, its failures are mapped to safe responses, and idempotent      *)
(* tools are tried again after a growing delay.  A tool that is cancelled  *)
(* by its timeout may already have had its effect, or have it later, in a  *)
(* thread or a service that does not notice.  The recorder of events may   *)
(* fail, and the caller may be cancelled at any await.                     *)
(***************************************************************************)
EXTENDS Naturals, Sequences

CONSTANTS
    Tool,                  \* names of tools
    Idempotent,            \* the tools whose specification says idempotent
    MaxAttempts, Timeout, BaseDelay, MaxDelay    \* of every ToolSpec

\* ToolSpec.__post_init__; and powers of two are natural numbers, of which the
\* provers know no rule.
SpecAssumption ==
    /\ MaxAttempts \in Nat \ {0} /\ Timeout \in Nat \ {0} /\ BaseDelay \in Nat \ {0}
    /\ MaxDelay \in Nat /\ MaxDelay >= BaseDelay
    /\ Idempotent \subseteq Tool
    /\ \A n \in 0 .. MaxAttempts : 2 ^ n \in Nat

VARIABLES
    tools,       \* the tools in the registry
    tool,        \* the tool that is executed
    pc,          \* where the executor is
    attempt,     \* the number of the attempt
    outcome,     \* how the attempt ended
    clock,       \* time the current wait has taken
    elapsed,     \* time all waits have taken
    effects,     \* effects that the tool has had
    late,        \* effects of abandoned attempts that are still to come
    events       \* what the recorder has been told

vars == <<tools, tool, pc, attempt, outcome, clock, elapsed, effects, late, events>>

\* Outcomes of an attempt; the failures that a tool reports itself carry
\* its word on whether they are retryable.
Outcome == {"success", "timeout", "failed", "transient", "invalid_input", "none"}

EventType == {"started", "succeeded", "timed_out", "failed", "retrying"}

Finished == {"returned", "raised"}

\* _retry_delay
Delay(n) == LET d == BaseDelay * 2 ^ (n - 1) IN IF d <= MaxDelay THEN d ELSE MaxDelay

TypeOK ==
    /\ tools \subseteq Tool /\ tool \in Tool
    /\ pc \in {"registering", "starting", "invoking", "recording", "retrying", "sleeping"} \cup Finished
    /\ attempt \in 0 .. MaxAttempts
    /\ outcome \in Outcome
    /\ clock \in 0 .. (IF Timeout > MaxDelay THEN Timeout ELSE MaxDelay)
    /\ elapsed \in Nat
    /\ effects \in 0 .. MaxAttempts /\ late \in 0 .. MaxAttempts
    /\ events \in Seq([type : EventType, attempt : 1 .. MaxAttempts])

Init ==
    /\ tools = {}
    /\ tool \in Tool
    /\ pc = "registering"
    /\ attempt = 0
    /\ outcome = "none"
    /\ clock = 0 /\ elapsed = 0
    /\ effects = 0 /\ late = 0
    /\ events = <<>>

\* Told to the recorder.
Recorded(type) == events' = Append(events, [type |-> type, attempt |-> attempt])

-----------------------------------------------------------------------------
\* ToolRegistry.register; a name that is taken raises DuplicateToolError.
Register(t) ==
    /\ pc = "registering" /\ t \notin tools
    /\ tools' = tools \cup {t}
    /\ UNCHANGED <<tool, pc, attempt, outcome, clock, elapsed, effects, late, events>>

\* The tool is looked up and the schema of the input compared.
Execute ==
    /\ pc = "registering"
    /\ \/ tool \notin tools /\ pc' = "raised" /\ UNCHANGED <<attempt, outcome>>
       \/ tool \in tools /\ pc' = "returned" /\ outcome' = "invalid_input" /\ UNCHANGED attempt
       \/ tool \in tools /\ pc' = "starting" /\ attempt' = 1 /\ UNCHANGED outcome
    /\ UNCHANGED <<tools, tool, clock, elapsed, effects, late, events>>

RecordStarted ==
    /\ pc = "starting"
    /\ Recorded("started")
    /\ pc' = "invoking" /\ clock' = 0
    /\ UNCHANGED <<tools, tool, attempt, outcome, elapsed, effects, late>>

\* _invoke_attempt: invoke returns a value or an error, raises, or returns a
\* value of another schema; all but a value may come with or without effect.
InvokeReturns ==
    /\ pc = "invoking"
    /\ pc' = "recording"
    /\ outcome' \in {"success", "failed", "transient"}
    /\ effects' \in {effects + 1} \cup (IF outcome' = "success" THEN {} ELSE {effects})
    /\ UNCHANGED <<tools, tool, attempt, clock, elapsed, late, events>>

\* TimeoutError, of asyncio.timeout or of the tool itself.
InvokeTimesOut ==
    /\ pc = "invoking"
    /\ pc' = "recording"
    /\ outcome' = "timeout"
    /\ \/ effects' \in {effects, effects + 1} /\ UNCHANGED late
       \/ late' = late + 1 /\ UNCHANGED effects
    /\ UNCHANGED <<tools, tool, attempt, clock, elapsed, events>>

LateEffect ==
    /\ late > 0
    /\ late' = late - 1 /\ effects' = effects + 1
    /\ UNCHANGED <<tools, tool, pc, attempt, outcome, clock, elapsed, events>>

\* Variant: every tool is tried again.
ShouldRetryAny == outcome \in {"timeout", "transient"} /\ attempt < MaxAttempts

\* _should_retry
ShouldRetry ==
    tool \in Idempotent /\ outcome \in {"timeout", "transient"} /\ attempt < MaxAttempts

TerminalEvent ==
    CASE outcome = "success" -> "succeeded"
      [] outcome = "timeout" -> "timed_out"
      [] outcome \in {"failed", "transient"} -> "failed"

RecordTerminal ==
    /\ pc = "recording"
    /\ Recorded(TerminalEvent)
    /\ pc' = IF ShouldRetry THEN "retrying" ELSE "returned"
    /\ UNCHANGED <<tools, tool, attempt, outcome, clock, elapsed, effects, late>>

RecordRetrying ==
    /\ pc = "retrying"
    /\ Recorded("retrying")
    /\ pc' = "sleeping" /\ clock' = 0
    /\ UNCHANGED <<tools, tool, attempt, outcome, elapsed, effects, late>>

Wake ==
    /\ pc = "sleeping" /\ clock = Delay(attempt)
    /\ pc' = "starting" /\ attempt' = attempt + 1
    /\ UNCHANGED <<tools, tool, outcome, clock, elapsed, effects, late, events>>

\* Time passes in a wait, not beyond its end.
Tick ==
    /\ \/ pc = "invoking" /\ clock < Timeout
       \/ pc = "sleeping" /\ clock < Delay(attempt)
    /\ clock' = clock + 1 /\ elapsed' = elapsed + 1
    /\ UNCHANGED <<tools, tool, pc, attempt, outcome, effects, late, events>>

\* The recorder raises, or the caller is cancelled: nothing is caught, and
\* an invocation that is cancelled is abandoned like one that timed out.
Raise ==
    /\ pc \in {"starting", "invoking", "recording", "retrying", "sleeping"}
    /\ pc' = "raised"
    /\ \/ UNCHANGED <<effects, late>>
       \/ pc = "invoking" /\ effects' = effects + 1 /\ UNCHANGED late
       \/ pc = "invoking" /\ late' = late + 1 /\ UNCHANGED effects
    /\ UNCHANGED <<tools, tool, attempt, outcome, clock, elapsed, events>>

Executor ==
    \/ Execute \/ RecordStarted \/ InvokeReturns \/ InvokeTimesOut
    \/ RecordTerminal \/ RecordRetrying \/ Wake \/ Tick

Next == (\E t \in Tool : Register(t)) \/ Executor \/ LateEffect \/ Raise

Spec == Init /\ [][Next]_vars

\* The event loop runs, timers fire, and a tool gives way to its cancellation.
FairSpec == Spec /\ WF_vars(Executor)

-----------------------------------------------------------------------------
(* Properties *)

\* A tool that is not idempotent has its effect at most once per execution,
\* counting the effect that comes after the timeout (_should_retry).
EffectAtMostOnce == tool \notin Idempotent => effects + late <= 1

\* The invocations and the delays together stay within the limits of the
\* specification ("without allowing unbounded retries or waits",
\* ToolExecutor).  Time spent in the recorder or the tracer is not counted:
\* nothing in the code bounds it.
WaitsBounded == elapsed <= MaxAttempts * Timeout + (MaxAttempts - 1) * MaxDelay

\* Positions of the events of one type.
At(type) == {i \in DOMAIN events : events[i].type = type}

\* The recorded events tell the story of the execution: every attempt starts
\* once and ends at most once, in this order, an attempt follows only a
\* retry that was announced, and a response is the one of the last event.
EventsTellTheStory ==
    /\ \A i \in DOMAIN events : i > 1 =>
         IF events[i].type = "started"
           THEN events[i - 1].type = "retrying" /\ events[i].attempt = events[i - 1].attempt + 1
           ELSE events[i].attempt = events[i - 1].attempt
                  /\ events[i - 1].type =
                       IF events[i].type = "retrying" THEN events[i - 1].type ELSE "started"
    /\ \A i \in At("retrying") : events[i - 1].type \in {"failed", "timed_out"}
    /\ pc = "returned" /\ outcome # "invalid_input" =>
         events[Len(events)].type = TerminalEvent

\* An execution ends, with a response or an exception.
ExecutionEnds == pc = "starting" ~> pc \in Finished

\* An execution is safe to account for: no effect happens twice that must
\* not, the waits are bounded and the events tell what happened.
ExecutionAccounted == EffectAtMostOnce /\ WaitsBounded /\ EventsTellTheStory
=============================================================================

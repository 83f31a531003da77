---------------------------- MODULE MCWorkerTasks ----------------------------
(***************************************************************************)
(* A documents.parse task on its way: from the broker to a worker          *)
(* (TaskDelivery), on the event loop of the pool process (WorkerRuntime),  *)
(* through the tools it may call (ToolExecutor), to the elements that the  *)
(* parser reports (DocumentElements).  The parts share no state; one of    *)
(* them moves in each behaviour, so that their state spaces add up.        *)
(***************************************************************************)
EXTENDS TaskDelivery, Integers, TLC

CONSTANTS
    Call, NoTask, Exit,                     \* WorkerRuntime
    Tool, Idempotent, MaxAttempts, Timeout, BaseDelay, MaxDelay,    \* ToolExecutor
    PageCoord, GridCoord, Score, CellScore, Full, Text, TableText, CellId, MaxCells, None
                                            \* DocumentElements

VARIABLES
    part,
    state, lock, current, container, pc, loop, limit,
    tools, tool, step, attempt, outcome, clock, elapsed, effects, late, events,
    stage, box, position, element, source, offset, symbols

runtime == <<state, lock, current, container, pc, loop, limit>>
execution == <<tools, tool, step, attempt, outcome, clock, elapsed, effects, late, events>>
elements == <<stage, box, position, element, source, offset, symbols>>

Runtime == INSTANCE WorkerRuntime WITH Task <- Call

Tools == INSTANCE ToolExecutor WITH pc <- step

Elements == INSTANCE DocumentElements

\* What a parser may report: small and out of range, texts up to four characters.
Coordinates == -1 .. 2
Cells == -1 .. 1
Scores == {-1, 0, 2, 3}
CellScores == {3}
Texts ==
    UNION {[1 .. n -> {">", "<", "=", "ne", "x"}] : n \in 0 .. 2}
      \cup UNION {[1 .. n -> {">", "="}] : n \in 3 .. 4}
TableTexts == {<<" ">>, <<"x", ">">>, <<"<", "=">>}

ASSUME TasksAssumption ==
    Runtime!RuntimeAssumption /\ Tools!SpecAssumption /\ Elements!ElementAssumption

MCInit ==
    /\ part \in {"delivery", "runtime", "tools", "elements"}
    /\ Init /\ Runtime!Init /\ Tools!Init /\ Elements!Init
    /\ part # "tools" => tool = CHOOSE t \in Tool : TRUE

MCNext ==
    \/ part = "delivery" /\ Next /\ UNCHANGED <<part, runtime, execution, elements>>
    \/ part = "runtime" /\ Runtime!Next /\ UNCHANGED <<part, vars, execution, elements>>
    \/ part = "tools" /\ Tools!Next /\ UNCHANGED <<part, vars, runtime, elements>>
    \/ part = "elements" /\ Elements!Next /\ UNCHANGED <<part, vars, runtime, execution>>

MCSpec == MCInit /\ [][MCNext]_<<part, vars, runtime, execution, elements>>

\* Workers are interchangeable, and so are the calls of run.
Symmetry == Permutations(Worker) \cup Permutations(Call)

-----------------------------------------------------------------------------
\* The state of the four parts.
WellTyped == TypeOK /\ Runtime!TypeOK /\ Tools!TypeOK /\ Elements!TypeOK

\* Tasks run in the one container recorded, also after starts that failed; no
\* other stays open, save where the time limit struck in a cleanup or before
\* the record; and nothing outlives the close (WorkerRuntime).
ContainerOwned == Runtime!ContainerOwned

\* A tool that is not idempotent has its effect at most once, the waits are
\* bounded and the events tell what happened (ToolExecutor.execute).
ExecutionAccounted == Tools!ExecutionAccounted

\* Accepted positions can be normalized, every symbol is found and leads back
\* to its evidence (extract_comparison_symbols, TableElement).
EvidenceSound == Elements!EvidenceSound
=============================================================================

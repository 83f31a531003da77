------------------------- MODULE ApiProcess_proofs -------------------------
(***************************************************************************)
(* Proofs about the parts of an API process, for every list of resources,  *)
(* any number of cancellations, and any number of clients and threads:     *)
(* type correctness and ResourcesAccounted of ContainerLifecycle, then     *)
(* type correctness and ReadyIsFresh of Readiness, each from one inductive *)
(* invariant; and their composition.                                       *)
(***************************************************************************)
EXTENDS MCApiProcess, SequenceTheorems, FiniteSetTheorems, TLAPS

-----------------------------------------------------------------------------
(* ContainerLifecycle: the inductive invariant *)

\* How many of the resources, in their order, have been created.
Depth == Len(resources) + Len(closed)

\* What is open is the beginning of the order, and what was closed is the
\* part that follows, backwards.
ListsOK ==
    /\ Depth <= Len(Order)
    /\ \A i \in 1 .. Len(resources) : resources[i] = Order[i]
    /\ \A i \in 1 .. Len(closed) : closed[i] = Order[Depth + 1 - i]
    /\ created = {Order[i] : i \in 1 .. Depth}

\* Up to the stop nothing is closed, and everything but the resource that is
\* being probed has its probe behind it.
RisingOK ==
    /\ pc \in {"configure", "create", "probe", "provision", "serving"} => closed = <<>>
    /\ pc = "configure" => resources = <<>>
    /\ pc \in {"create", "provision", "serving"} => probed = created \ Lazy
    /\ pc = "probe" =>
          /\ resources # <<>> /\ waiting.on = resources[Len(resources)]
          /\ waiting.on \notin Lazy /\ probed = created \ (Lazy \cup {waiting.on})
    /\ pc \in {"provision", "serving"} => state = "started" /\ Len(resources) = Len(Order)

\* The container is new until start ends, and closed only when it has
\* nothing left to close.
StateOK ==
    /\ pc \in {"configure", "create", "probe", "cleanup"} => state = "new"
    /\ pc = "close" => state # "new" \/ cancels > 0
    /\ state = "closed" => resources = <<>> /\ waiting = Nobody

\* The process leaves with nothing open, unless its close was cancelled.
FallingOK ==
    /\ pc \notin {"probe", "cleanup", "close"} => waiting = Nobody
    /\ pc \in {"shutdown_metrics", "shutdown_tracing", "exited"} =>
          resources = <<>> \/ (cancels > 0 /\ state # "closed")

TelemetryOK ==
    /\ caller = "healthcheck" \/ pc = "configure" => telemetry = {}
    /\ pc \in {"shutdown_tracing", "exited"} => "metrics" \notin telemetry

IInv == TypeOK /\ ListsOK /\ RisingOK /\ StateOK /\ FallingOK /\ TelemetryOK

-----------------------------------------------------------------------------
(* The lists *)

LEMMA OrderFacts ==
  /\ Order \in Seq(Resource) /\ Len(Order) \in Nat
  /\ \A i \in 1 .. Len(Order) : i \in DOMAIN Order /\ Order[i] \in Resource
  /\ \A r \in Resource : \E i \in 1 .. Len(Order) : Order[i] = r
  /\ NoResource \notin Resource
<1>1. Order \in Seq(Resource) /\ NoResource \notin Resource
  BY OrderAssumption
<1>2. Len(Order) \in Nat /\ DOMAIN Order = 1 .. Len(Order)
  BY <1>1, LenProperties
<1>3. QED
  BY <1>1, <1>2 DEF Resource

LEMMA NobodyWaits == Nobody \in Waiting
BY DEF Nobody, Waiting

LEMMA InitIInv == Init => IInv
<1>1. SUFFICES ASSUME Init PROVE IInv
  OBVIOUS
<1>2. /\ resources = <<>> /\ closed = <<>> /\ created = {} /\ Len(resources) = 0 /\ Len(closed) = 0
      /\ resources \in Seq(Resource) /\ closed \in Seq(Resource)
  BY <1>1 DEF Init
<1>3. TypeOK
  <2>1. 0 \in 0 .. MaxCancels /\ "configure" \in Step
    BY OrderAssumption DEF Step
  <2>2. QED
    BY <1>1, <1>2, <2>1, NobodyWaits DEF Init, TypeOK
<1>4. ListsOK
  BY <1>2, OrderFacts DEF ListsOK, Depth
<1>5. QED
  BY <1>1, <1>2, <1>3, <1>4 DEF Init, IInv, RisingOK, StateOK, FallingOK, TelemetryOK

\* The resources of the order up to n + 1 are those up to n and one more.
LEMMA OneMoreCreated ==
  ASSUME NEW n \in Nat, n < Len(Order)
  PROVE  {Order[i] : i \in 1 .. n + 1} = {Order[i] : i \in 1 .. n} \cup {Order[n + 1]}
<1>1. 1 .. n + 1 = (1 .. n) \cup {n + 1}
  OBVIOUS
<1>2. QED
  BY <1>1

\* What the state says of a list of resources that is not empty: its end is
\* the deepest resource that is still open.
LEMMA ListFacts ==
  ASSUME TypeOK, ListsOK
  PROVE  /\ Len(resources) \in Nat /\ Len(closed) \in Nat /\ Depth \in Nat
         /\ DOMAIN resources = 1 .. Len(resources) /\ DOMAIN closed = 1 .. Len(closed)
         /\ resources = <<>> <=> Len(resources) = 0
         /\ closed = <<>> <=> Len(closed) = 0
         /\ resources # <<>> => /\ resources[Len(resources)] = Order[Len(resources)]
                                /\ resources[Len(resources)] \in created
         /\ created \subseteq Resource
<1>1. resources \in Seq(Resource) /\ closed \in Seq(Resource)
  BY DEF TypeOK
<1>2. /\ Len(resources) \in Nat /\ Len(closed) \in Nat
      /\ DOMAIN resources = 1 .. Len(resources) /\ DOMAIN closed = 1 .. Len(closed)
      /\ resources = <<>> <=> Len(resources) = 0
      /\ closed = <<>> <=> Len(closed) = 0
  BY <1>1, LenProperties, EmptySeq
<1>3. Depth \in Nat /\ Len(resources) <= Depth
  BY <1>2 DEF Depth
<1>4. resources # <<>> => /\ resources[Len(resources)] = Order[Len(resources)]
                          /\ Len(resources) \in 1 .. Depth
  BY <1>2, <1>3 DEF ListsOK
<1>5. QED
  BY <1>2, <1>3, <1>4 DEF ListsOK, TypeOK

\* Steps that leave the lists alone.
LEMMA ListsUnchanged ==
  ASSUME ListsOK, UNCHANGED <<resources, closed, created>>
  PROVE  ListsOK'
BY DEF ListsOK, Depth

-----------------------------------------------------------------------------
(* The actions, one lemma each *)

\* The next resource of the order joins the list.
LEMMA CreateIInv ==
  ASSUME IInv, Create
  PROVE  IInv'
<1> DEFINE m == Len(resources)
           r == Order[m + 1]
<1>1. /\ TypeOK /\ ListsOK /\ pc = "create" /\ m < Len(Order) /\ state = "new"
      /\ closed = <<>> /\ probed = created \ Lazy /\ waiting = Nobody
  BY DEF IInv, Create, RisingOK, StateOK, FallingOK
<1>2. m \in Nat /\ Len(closed) = 0 /\ Depth = m
  BY <1>1, ListFacts DEF Depth
<1>3. r \in Resource
  BY <1>1, <1>2, OrderFacts
<1>4. /\ resources' = Append(resources, r) /\ created' = created \cup {r}
      /\ UNCHANGED <<caller, state, probed, closed, telemetry, cancels, errors>>
      /\ \/ r \in Lazy /\ pc' = pc /\ waiting' = waiting
         \/ /\ r \notin Lazy /\ pc' = "probe"
            /\ \E hangs \in BOOLEAN : waiting' = [on |-> r, hangs |-> hangs]
  BY DEF Create
<1> HIDE DEF r
<1>5. /\ resources' \in Seq(Resource) /\ Len(resources') = m + 1 /\ resources'[m + 1] = r
      /\ \A i \in 1 .. m : resources'[i] = resources[i]
      /\ resources' # <<>>
  BY <1>1, <1>2, <1>3, <1>4, AppendProperties DEF TypeOK
<1>6. Len(closed') = 0 /\ Depth' = m + 1
  BY <1>2, <1>4, <1>5 DEF Depth
<1>7. r \notin created
  <2>1. m + 1 \in DOMAIN Order /\ \A i \in 1 .. m : i \in DOMAIN Order /\ i # m + 1
    BY <1>1, <1>2, OrderFacts
  <2> HIDE DEF m
  <2>2. \A i \in 1 .. m : Order[i] # Order[m + 1]
    BY <2>1, OrderAssumption
  <2>3. QED
    BY <1>1, <1>2, <2>2 DEF ListsOK, r
<1>8. ListsOK'
  <2>1. \A i \in 1 .. m + 1 : resources'[i] = Order[i]
    BY <1>1, <1>2, <1>5 DEF ListsOK, r
  <2>2. created' = {Order[i] : i \in 1 .. m + 1}
    BY <1>1, <1>2, <1>4, OneMoreCreated DEF ListsOK, r
  <2>3. \A i \in 1 .. Len(closed') : closed'[i] = Order[Depth' + 1 - i]
    BY <1>6
  <2>4. QED
    BY <1>1, <1>2, <1>5, <1>6, <2>1, <2>2, <2>3, OrderFacts DEF ListsOK
<1>9. waiting' \in Waiting /\ (pc' = "probe" => waiting'.on = r /\ r \notin Lazy)
      /\ (pc' # "probe" => r \in Lazy /\ waiting' = Nobody)
  BY <1>1, <1>3, <1>4 DEF TypeOK, Waiting
<1>10. pc' \in {"create", "probe"}
  BY <1>1, <1>4
<1>11. TypeOK'
  BY <1>1, <1>3, <1>4, <1>5, <1>9, <1>10 DEF TypeOK, Step
<1>12. RisingOK'
  BY <1>1, <1>4, <1>5, <1>7, <1>9, <1>10 DEF RisingOK
<1>13. StateOK' /\ FallingOK' /\ TelemetryOK'
  BY <1>1, <1>4, <1>9, <1>10 DEF IInv, StateOK, FallingOK, TelemetryOK
<1>14. QED
  BY <1>8, <1>11, <1>12, <1>13 DEF IInv

\* The last resource of the list is closed.
LEMMA BeginCloseIInv ==
  ASSUME IInv, BeginClose
  PROVE  IInv'
<1> DEFINE m == Len(resources)
           r == resources[m]
<1>1. /\ TypeOK /\ ListsOK /\ pc \in {"cleanup", "close"} /\ resources # <<>> /\ state # "closed"
  BY DEF IInv, StateOK, BeginClose, CanClose
<1>2. m \in Nat \ {0} /\ Len(closed) \in Nat /\ r = Order[m] /\ r \in Resource
  BY <1>1, ListFacts
<1>3. /\ resources' = SubSeq(resources, 1, m - 1) /\ closed' = Append(closed, r)
      /\ UNCHANGED <<caller, pc, state, created, probed, telemetry, cancels, errors>>
      /\ \E hangs \in BOOLEAN : waiting' = [on |-> r, hangs |-> hangs]
  BY DEF BeginClose, Popped
<1> HIDE DEF r
<1>4. /\ resources' \in Seq(Resource) /\ Len(resources') = m - 1
      /\ \A i \in 1 .. m - 1 : resources'[i] = resources[i]
  <2>1. m - 1 \in Int /\ 1 \in Int /\ \A i \in 1 .. m - 1 : resources[i] \in Resource
    BY <1>1, <1>2, ListFacts DEF TypeOK
  <2> DEFINE front == SubSeq(resources, 1, m - 1)
  <2>2. /\ front \in Seq(Resource)
        /\ Len(front) = IF 1 <= m - 1 THEN (m - 1) - 1 + 1 ELSE 0
        /\ \A i \in 1 .. (m - 1) - 1 + 1 : front[i] = resources[1 + i - 1]
    BY <2>1, SubSeqProperties
  <2> HIDE DEF front
  <2>3. Len(front) = m - 1 /\ \A i \in 1 .. m - 1 : front[i] = resources[i]
    <3>1. m \in Nat \ {0}
      BY <1>2
    <3> HIDE DEF m
    <3>2. (m - 1) - 1 + 1 = m - 1 /\ \A i \in 1 .. m - 1 : 1 + i - 1 = i
      BY <3>1
    <3>3. Len(front) = m - 1
      BY <2>2, <3>1
    <3>4. QED
      BY <2>2, <3>2, <3>3
  <2>4. QED
    BY <1>3, <2>2, <2>3 DEF front
<1>5. /\ closed' \in Seq(Resource) /\ Len(closed') = Len(closed) + 1 /\ closed'[Len(closed) + 1] = r
      /\ \A i \in 1 .. Len(closed) : closed'[i] = closed[i]
  BY <1>1, <1>2, <1>3, AppendProperties DEF TypeOK
<1>6. Depth' = Depth
  BY <1>2, <1>4, <1>5 DEF Depth
<1>7. ListsOK'
  <2>1. \A i \in 1 .. Len(resources') : resources'[i] = Order[i]
    BY <1>1, <1>2, <1>4 DEF ListsOK
  <2>2. Order[Depth + 1 - (Len(closed) + 1)] = r
    BY <1>2 DEF Depth
  <2>3. \A i \in 1 .. Len(closed') : closed'[i] = Order[Depth + 1 - i]
    BY <1>1, <1>2, <1>5, <2>2 DEF ListsOK
  <2>4. QED
    BY <1>1, <1>3, <1>6, <2>1, <2>3 DEF ListsOK
<1>8. waiting' \in Waiting
  BY <1>2, <1>3 DEF Waiting
<1>9. TypeOK'
  BY <1>1, <1>3, <1>4, <1>5, <1>8 DEF TypeOK
<1>10. RisingOK' /\ StateOK' /\ FallingOK' /\ TelemetryOK'
  BY <1>1, <1>3 DEF IInv, RisingOK, StateOK, FallingOK, TelemetryOK
<1>11. QED
  BY <1>7, <1>9, <1>10 DEF IInv

\* A close that returned or failed: the loop goes on with what is left.
LEMMA CloseStepIInv ==
  ASSUME IInv, CloseReturns \/ CloseFails
  PROVE  IInv'
<1>1. /\ TypeOK /\ ListsOK /\ pc \in {"cleanup", "close"} /\ waiting' = Nobody /\ errors' \in BOOLEAN
      /\ UNCHANGED <<caller, pc, state, resources, created, probed, closed, telemetry, cancels>>
  BY DEF IInv, TypeOK, CloseReturns, CloseFails, CanClose, Rest
<1>2. TypeOK'
  BY <1>1 DEF TypeOK, Waiting, Nobody
<1>3. RisingOK' /\ StateOK' /\ FallingOK' /\ TelemetryOK'
  BY <1>1 DEF IInv, RisingOK, StateOK, FallingOK, TelemetryOK
<1>4. QED
  BY <1>1, <1>2, <1>3, ListsUnchanged DEF IInv

\* The steps of start that create nothing.
LEMMA StartStepIInv ==
  ASSUME IInv, Configure \/ ConfigureFails \/ CreateFails \/ ProbeReturns \/ ProbeFails \/ Started
  PROVE  IInv'
<1>1. TypeOK /\ ListsOK /\ ListsOK' /\ UNCHANGED <<caller, resources, created, closed, cancels, errors>>
  BY ListsUnchanged DEF IInv, Configure, ConfigureFails, CreateFails, ProbeReturns, ProbeFails, Started
<1>2. resources # <<>> => resources[Len(resources)] \in created
  BY <1>1, ListFacts
<1>3. CASE Configure \/ ConfigureFails
  <2>1. created = {}
    <3>1. resources = <<>> /\ closed = <<>>
      BY <1>3 DEF IInv, RisingOK, Configure, ConfigureFails
    <3>2. Depth = 0
      BY <3>1 DEF Depth
    <3>3. QED
      BY <1>1, <3>2 DEF ListsOK
  <2>2. TypeOK'
    BY <1>1, <1>3 DEF TypeOK, Configure, ConfigureFails, Step
  <2>3. QED
    BY <1>1, <1>3, <2>1, <2>2
    DEF IInv, TypeOK, Configure, ConfigureFails, RisingOK, StateOK, FallingOK, TelemetryOK
<1>4. CASE CreateFails
  <2>1. TypeOK'
    BY <1>1, <1>4 DEF TypeOK, CreateFails, StateInCleanup, Step
  <2>2. QED
    BY <1>1, <1>4, <2>1
    DEF IInv, CreateFails, StateInCleanup, RisingOK, StateOK, FallingOK, TelemetryOK
<1>5. CASE ProbeReturns
  <2>1. waiting.on \in created \ Lazy /\ probed' = created \ Lazy /\ waiting' = Nobody /\ pc' = "create"
    BY <1>2, <1>5 DEF IInv, ProbeReturns, RisingOK
  <2>2. TypeOK'
    BY <1>1, <1>5, <2>1 DEF TypeOK, ProbeReturns, Step, Waiting, Nobody
  <2>3. QED
    BY <1>1, <1>5, <2>1, <2>2
    DEF IInv, ProbeReturns, RisingOK, StateOK, FallingOK, TelemetryOK
<1>6. CASE ProbeFails
  <2>1. TypeOK'
    BY <1>1, <1>6 DEF TypeOK, ProbeFails, StateInCleanup, AfterFailedProbe, Step, Waiting, Nobody
  <2>2. QED
    BY <1>1, <1>6, <2>1
    DEF IInv, ProbeFails, StateInCleanup, AfterFailedProbe, RisingOK, StateOK, FallingOK, TelemetryOK
<1>7. CASE Started
  <2>1. TypeOK' /\ resources # <<>>
    <3>1. resources # <<>>
      BY <1>1, <1>7, ListFacts, OrderFacts, OrderAssumption, EmptySeq DEF Started
    <3>2. QED
      BY <1>1, <1>7, <3>1 DEF TypeOK, Started, Step
  <2>2. QED
    BY <1>1, <1>7, <2>1 DEF IInv, Started, RisingOK, StateOK, FallingOK, TelemetryOK
<1>8. QED
  BY <1>3, <1>4, <1>5, <1>6, <1>7

\* The ends of a cleanup and of a close, and the rest of the lifespan.
LEMMA LeaveIInv ==
  ASSUME IInv, CleanedUp \/ CloseEnds \/ Provision \/ Stop \/ ShutdownMetrics \/ ShutdownTracing
  PROVE  IInv'
<1>1. /\ TypeOK /\ ListsOK'
      /\ UNCHANGED <<caller, resources, created, closed, probed, waiting, cancels, errors>>
  BY ListsUnchanged
  DEF IInv, CleanedUp, CloseEnds, Provision, Stop, ShutdownMetrics, ShutdownTracing
<1>2. CASE CleanedUp
  BY <1>1, <1>2 DEF IInv, TypeOK, Step, CleanedUp, RisingOK, StateOK, FallingOK, TelemetryOK
<1>3. CASE CloseEnds
  <2>1. TypeOK'
    BY <1>1, <1>3 DEF TypeOK, CloseEnds, AfterClose, Step
  <2>2. QED
    BY <1>1, <1>3, <2>1
    DEF IInv, CloseEnds, AfterClose, RisingOK, StateOK, FallingOK, TelemetryOK, TypeOK
<1>4. CASE Provision \/ Stop
  BY <1>1, <1>4 DEF IInv, TypeOK, Step, Provision, Stop, RisingOK, StateOK, FallingOK, TelemetryOK
<1>5. CASE ShutdownMetrics \/ ShutdownTracing
  BY <1>1, <1>5
  DEF IInv, TypeOK, Step, ShutdownMetrics, ShutdownTracing, SinkAfterFinally,
      RisingOK, StateOK, FallingOK, TelemetryOK
<1>6. QED
  BY <1>2, <1>3, <1>4, <1>5

\* A cancellation leaves the lists as they are, and is remembered.
LEMMA CancelIInv ==
  ASSUME IInv, Cancel
  PROVE  IInv'
<1>1. /\ TypeOK /\ ListsOK' /\ cancels' \in 1 .. MaxCancels /\ waiting' = Nobody /\ errors' = FALSE
      /\ UNCHANGED <<caller, state, resources, created, probed, closed, telemetry>>
  BY ListsUnchanged, OrderAssumption DEF IInv, TypeOK, Cancel
<1>2. pc' \in Step /\ cancels' > 0
  BY <1>1, OrderAssumption DEF Cancel, AfterClose, Step
<1>3. TypeOK'
  <2>1. cancels' \in 0 .. MaxCancels
    BY <1>1, OrderAssumption
  <2>2. QED
    BY <1>1, <1>2, <2>1, NobodyWaits DEF TypeOK
<1>4. RisingOK' /\ StateOK' /\ FallingOK' /\ TelemetryOK'
  BY <1>1, <1>2 DEF IInv, TypeOK, Cancel, AfterClose, RisingOK, StateOK, FallingOK, TelemetryOK
<1>5. QED
  BY <1>1, <1>3, <1>4 DEF IInv

LEMMA NextIInv == IInv /\ [Next]_vars => IInv'
<1>1. SUFFICES ASSUME IInv, [Next]_vars PROVE IInv'
  OBVIOUS
<1>2. CASE UNCHANGED vars
  BY <1>1, <1>2, ListsUnchanged
  DEF vars, IInv, TypeOK, RisingOK, StateOK, FallingOK, TelemetryOK
<1>3. CASE Next
  BY <1>1, <1>3, CreateIInv, BeginCloseIInv, CloseStepIInv, StartStepIInv, LeaveIInv, CancelIInv
  DEF Next, Container, Caller
<1>4. QED
  BY <1>1, <1>2, <1>3

-----------------------------------------------------------------------------
(* The theorems about ContainerLifecycle *)

\* The inductive invariant holds in every state, whatever fails, hangs or is
\* cancelled.
THEOREM Invariance == Spec => []IInv
<1>1. QED
  BY InitIInv, NextIInv, PTL DEF Spec

\* Every variable keeps its type, and a closed container owns nothing.
THEOREM TypeCorrectness == Spec => []TypeOK
<1>1. IInv => TypeOK
  BY DEF IInv
<1>2. QED
  BY <1>1, Invariance, PTL

\* When nothing is open, everything that was created has been closed.
LEMMA NothingLeft ==
  ASSUME IInv, resources = <<>>
  PROVE  \A r \in created : \E i \in DOMAIN closed : closed[i] = r
<1>1. Len(closed) \in Nat /\ DOMAIN closed = 1 .. Len(closed) /\ Depth = Len(closed)
  BY ListFacts DEF IInv, Depth
<1>2. SUFFICES ASSUME NEW k \in 1 .. Depth PROVE \E i \in DOMAIN closed : closed[i] = Order[k]
  BY DEF IInv, ListsOK
<1>3. Depth + 1 - k \in 1 .. Len(closed) /\ Depth + 1 - (Depth + 1 - k) = k
  BY <1>1
<1>4. closed[Depth + 1 - k] = Order[Depth + 1 - (Depth + 1 - k)]
  BY <1>3 DEF IInv, ListsOK
<1>5. QED
  BY <1>1, <1>3, <1>4

\* Every resource is accounted for, whatever fails, hangs or is cancelled:
\* probed while the process serves, closed once and in the reverse of the
\* order of creation when it leaves or when its start fails.
THEOREM ResourcesAreReleased == Spec => []ResourcesAccounted
<1>1. IInv => ResourcesAccounted
  <2>1. SUFFICES ASSUME IInv PROVE ResourcesAccounted
    OBVIOUS
  <2>2. ServesWithProbedResources
    <3>1. SUFFICES ASSUME pc = "serving" PROVE ServesWithProbedResources
      BY DEF ServesWithProbedResources
    <3>2. state = "started" /\ closed = <<>> /\ Len(resources) = Len(Order) /\ probed = created \ Lazy
      BY <2>1, <3>1 DEF IInv, RisingOK
    <3>3. Depth = Len(Order)
      BY <2>1, <3>2, ListFacts, OrderFacts DEF IInv, Depth
    <3>4. created = Resource
      BY <2>1, <3>3, OrderFacts DEF IInv, ListsOK
    <3>5. QED
      BY <3>2, <3>4 DEF ServesWithProbedResources
  <2>3. NoPartialPools
    BY <2>1, NothingLeft DEF IInv, FallingOK, NoPartialPools
  <2>4. FailedStartIsAtomic
    BY <2>1, NothingLeft DEF IInv, TypeOK, StateOK, FailedStartIsAtomic
  <2>5. ClosesInReverse
    <3>1. SUFFICES ASSUME NEW i \in DOMAIN closed, NEW j \in DOMAIN closed, i < j
                   PROVE  \E k, l \in DOMAIN Order :
                            k > l /\ Order[k] = closed[i] /\ Order[l] = closed[j]
      BY DEF ClosesInReverse
    <3>2. /\ Depth \in Nat /\ Len(closed) <= Depth /\ Depth <= Len(Order)
          /\ DOMAIN closed = 1 .. Len(closed) /\ Len(closed) \in Nat
      BY <2>1, ListFacts DEF IInv, ListsOK, Depth
    <3>3. /\ Depth + 1 - i \in 1 .. Len(Order) /\ Depth + 1 - j \in 1 .. Len(Order)
          /\ Depth + 1 - i > Depth + 1 - j
      <4>1. i \in 1 .. Len(closed) /\ j \in 1 .. Len(closed) /\ Len(Order) \in Nat
        BY <3>2, OrderFacts
      <4>2. QED
        BY <3>1, <3>2, <4>1
    <3>4. closed[i] = Order[Depth + 1 - i] /\ closed[j] = Order[Depth + 1 - j]
      BY <2>1, <3>2 DEF IInv, ListsOK
    <3>5. QED
      BY <3>3, <3>4, OrderFacts
  <2>6. SinkResetAtExit
    BY <2>1 DEF IInv, TelemetryOK, SinkResetAtExit
  <2>7. QED
    BY <2>2, <2>3, <2>4, <2>5, <2>6 DEF ResourcesAccounted
<1>2. QED
  BY <1>1, Invariance, PTL

-----------------------------------------------------------------------------
(* Readiness: the inductive invariant *)

\* The probes of the object store that have a thread.
Running == {r \in Request : probe[r]["object_store"] = "running"}

Jobs == IF job = "running" THEN 1 ELSE 0

\* No more threads are in use than there are.
ThreadsOK == stuck + Cardinality(Running) + Jobs <= Threads

\* While a request waits, what it found up has been seen up; afterwards none
\* of its probes goes on.
SeenOK ==
    \A r \in Request :
        /\ answer[r] = "pending" => \A d \in Probes!Dep : probe[r][d] = "up" => d \in seenUp[r]
        /\ answer[r] # "pending" =>
              \A d \in Probes!Dep : probe[r][d] \notin {"queued", "running"}
        /\ answer[r] = "ready" => seenUp[r] = Probes!Dep

ProbesIInv == Probes!TypeOK /\ ThreadsOK /\ SeenOK

-----------------------------------------------------------------------------
(* Facts about the states of the invariant *)

\* The instance of FiniteSets in Readiness is FiniteSets.
LEMMA SameFiniteSets ==
  ASSUME NEW S
  PROVE  /\ Probes!IsFiniteSet(S) <=> IsFiniteSet(S)
         /\ Probes!Cardinality(S) = Cardinality(S)
<1>1. Probes!IsFiniteSet(S) <=> IsFiniteSet(S)
  BY DEF Probes!IsFiniteSet, IsFiniteSet
<1>2. Probes!Cardinality(S) = Cardinality(S)
  BY DEF Probes!Cardinality, Cardinality
<1>3. QED
  BY <1>1, <1>2

\* Any set of requests has a size, which grows by one with a new member.
LEMMA SizeOfRequests ==
  /\ Threads \in Nat \ {0}
  /\ \A S \in SUBSET Request :
       /\ Cardinality(S) \in Nat
       /\ \A r \in S : Cardinality(S \ {r}) = Cardinality(S) - 1
       /\ \A r \in Request \ S : Cardinality(S \cup {r}) = Cardinality(S) + 1
<1>1. Threads \in Nat \ {0} /\ IsFiniteSet(Request)
  BY ProbesAssumption, SameFiniteSets DEF Probes!ThreadsAssumption
<1>2. \A S \in SUBSET Request : IsFiniteSet(S)
  BY <1>1, FS_Subset
<1>3. QED
  BY <1>1, <1>2, FS_CardinalityType, FS_AddElement, FS_RemoveElement

LEMMA Members == "object_store" \in Probes!Dep /\ Running \in SUBSET Request /\ Jobs \in {0, 1}
BY DEF Probes!Dep, Running, Jobs

\* What a request sees in a step.
LEMMA Seen ==
  ASSUME ProbesIInv, Probes!Observe
  PROVE  /\ seenUp' \in [Request -> SUBSET Probes!Dep]
         /\ \A r \in Request :
              /\ answer'[r] = "pending" => \A d \in Probes!Dep : dep'[d] = "up" => d \in seenUp'[r]
              /\ answer[r] = "pending" => seenUp[r] \subseteq seenUp'[r]
              /\ answer'[r] # "pending" => seenUp'[r] = seenUp[r]
BY DEF ProbesIInv, Probes!TypeOK, Probes!Observe

-----------------------------------------------------------------------------
(* The invariant is inductive: one lemma per action *)

LEMMA InitProbesIInv == Probes!Init => ProbesIInv
<1>1. SUFFICES ASSUME Probes!Init PROVE ProbesIInv
  OBVIOUS
<1>2. Probes!TypeOK
  BY <1>1, SizeOfRequests DEF Probes!Init, Probes!TypeOK
<1>3. Cardinality(Running) = 0
  <2>1. Running = {}
    BY <1>1, Members DEF Probes!Init, Running
  <2>2. QED
    BY <2>1, FS_EmptySet
<1>4. ThreadsOK
  BY <1>1, <1>3, SizeOfRequests DEF Probes!Init, ThreadsOK, Jobs
<1>5. SeenOK
  BY <1>1 DEF Probes!Init, SeenOK
<1>6. QED
  BY <1>2, <1>4, <1>5 DEF ProbesIInv

\* A step that leaves the requests alone.
LEMMA RequestsAlone ==
  ASSUME ProbesIInv, Probes!Observe, UNCHANGED <<probe, answer>>
  PROVE  SeenOK' /\ Running' = Running
<1>1. SeenOK'
  <2>1. SUFFICES ASSUME NEW r \in Request
                 PROVE  /\ answer[r] = "pending" => \A d \in Probes!Dep : probe[r][d] = "up" => d \in seenUp'[r]
                        /\ answer[r] # "pending" =>
                              \A d \in Probes!Dep : probe[r][d] \notin {"queued", "running"}
                        /\ answer[r] = "ready" => seenUp'[r] = Probes!Dep
    BY DEF SeenOK
  <2>2. QED
    BY Seen DEF ProbesIInv, SeenOK
<1>2. Running' = Running
  BY DEF Running
<1>3. QED
  BY <1>1, <1>2

LEMMA CallEndsIInv ==
  ASSUME ProbesIInv, Probes!CallEnds, Probes!Observe
  PROVE  ProbesIInv'
<1>1. SeenOK' /\ Running' = Running
  BY RequestsAlone DEF Probes!CallEnds
<1>2. Probes!TypeOK'
  BY Seen, SizeOfRequests DEF ProbesIInv, Probes!TypeOK, Probes!CallEnds
<1>3. ThreadsOK'
  BY <1>1, Members, SizeOfRequests DEF ProbesIInv, Probes!TypeOK, Probes!CallEnds, ThreadsOK, Jobs
<1>4. QED
  BY <1>1, <1>2, <1>3 DEF ProbesIInv

LEMMA JobStepsIInv ==
  ASSUME ProbesIInv, Probes!JobSteps, Probes!Observe
  PROVE  ProbesIInv'
<1>1. SeenOK' /\ Running' = Running
  BY RequestsAlone DEF Probes!JobSteps
<1>2. Probes!TypeOK'
  BY Seen DEF ProbesIInv, Probes!TypeOK, Probes!JobSteps
<1>3. ThreadsOK'
  BY <1>1, Members, SizeOfRequests DEF ProbesIInv, Probes!TypeOK, Probes!JobSteps, ThreadsOK, Jobs
<1>4. QED
  BY <1>1, <1>2, <1>3 DEF ProbesIInv

\* Threads in use, as the model counts them.
LEMMA BusyThreads == Probes!Busy = stuck + Cardinality(Running) + Jobs
BY SameFiniteSets DEF Probes!Busy, Running, Jobs

LEMMA JobStartsIInv ==
  ASSUME ProbesIInv, Probes!JobStarts, Probes!Observe
  PROVE  ProbesIInv'
<1>1. SeenOK' /\ Running' = Running
  BY RequestsAlone DEF Probes!JobStarts
<1>2. Probes!TypeOK'
  BY Seen DEF ProbesIInv, Probes!TypeOK, Probes!JobStarts
<1>3. /\ stuck \in Nat /\ Cardinality(Running) \in Nat /\ Threads \in Nat
      /\ Jobs = 0 /\ Jobs' = 1 /\ stuck' = stuck /\ stuck + Cardinality(Running) + Jobs < Threads
  BY Members, SizeOfRequests, BusyThreads DEF ProbesIInv, Probes!TypeOK, Probes!JobStarts, Jobs
<1>4. ThreadsOK'
  BY <1>1, <1>3 DEF ThreadsOK
<1>5. QED
  BY <1>1, <1>2, <1>4 DEF ProbesIInv

LEMMA DependencyChangesIInv ==
  ASSUME ProbesIInv, NEW d \in Probes!Dep, NEW s \in {"up", "down", "hung"},
         Probes!DependencyChanges(d, s), Probes!Observe
  PROVE  ProbesIInv'
<1>1. SeenOK' /\ Running' = Running
  BY RequestsAlone DEF Probes!DependencyChanges
<1>2. Probes!TypeOK'
  BY Seen DEF ProbesIInv, Probes!TypeOK, Probes!DependencyChanges
<1>3. ThreadsOK'
  BY <1>1 DEF ProbesIInv, Probes!DependencyChanges, ThreadsOK, Jobs
<1>4. QED
  BY <1>1, <1>2, <1>3 DEF ProbesIInv

\* A request that begins has no call in a thread.
LEMMA AskIInv ==
  ASSUME ProbesIInv, NEW r \in Request, Probes!Ask(r), Probes!Observe
  PROVE  ProbesIInv'
<1>1. Probes!TypeOK'
  BY Seen DEF ProbesIInv, Probes!TypeOK, Probes!Ask
<1>2. /\ answer' = [answer EXCEPT ![r] = "pending"] /\ answer[r] # "pending"
      /\ \A q \in Request \ {r} : probe'[q] = probe[q] /\ answer'[q] = answer[q]
      /\ \A d \in Probes!Dep : probe'[r][d] \in {"queued", "running"}
      /\ probe'[r]["object_store"] = "queued"
  BY Members DEF ProbesIInv, Probes!TypeOK, Probes!Ask
<1>3. Running' = Running
  BY <1>2, Members DEF ProbesIInv, SeenOK, Running
<1>4. ThreadsOK'
  BY <1>3 DEF ProbesIInv, Probes!Ask, ThreadsOK, Jobs
<1>5. SeenOK'
  BY <1>1, <1>2, Seen DEF ProbesIInv, SeenOK, Probes!TypeOK
<1>6. QED
  BY <1>1, <1>4, <1>5 DEF ProbesIInv

\* A probe of a waiting request changes its state: what it then reports as up
\* is up.
LEMMA ProbeSteps ==
  ASSUME ProbesIInv, NEW r \in Request, NEW d \in Probes!Dep, Probes!Observe,
         NEW v \in {"running", "up", "down"}, probe' = [probe EXCEPT ![r][d] = v],
         probe[r][d] \in {"queued", "running"}, v = "up" => dep[d] = "up",
         UNCHANGED <<dep, answer>>
  PROVE  SeenOK'
<1>1. answer[r] = "pending"
  BY DEF ProbesIInv, SeenOK
<1>2. \A q \in Request, e \in Probes!Dep : probe'[q][e] = IF q = r /\ e = d THEN v ELSE probe[q][e]
  BY DEF ProbesIInv, Probes!TypeOK
<1>3. SUFFICES ASSUME NEW q \in Request
               PROVE  /\ answer[q] = "pending" => \A e \in Probes!Dep : probe'[q][e] = "up" => e \in seenUp'[q]
                      /\ answer[q] # "pending" =>
                            \A e \in Probes!Dep : probe'[q][e] \notin {"queued", "running"}
                      /\ answer[q] = "ready" => seenUp'[q] = Probes!Dep
  BY DEF SeenOK
<1>4. CASE q = r
  BY <1>1, <1>2, <1>4, Seen DEF ProbesIInv, SeenOK
<1>5. CASE q # r
  BY <1>2, <1>5, Seen DEF ProbesIInv, SeenOK
<1>6. QED
  BY <1>4, <1>5

LEMMA StartCallIInv ==
  ASSUME ProbesIInv, NEW r \in Request, Probes!StartCall(r), Probes!Observe
  PROVE  ProbesIInv'
<1>1. Probes!TypeOK'
  BY Members, Seen DEF ProbesIInv, Probes!TypeOK, Probes!StartCall
<1>2. SeenOK'
  BY Members, ProbeSteps DEF Probes!StartCall
<1>3. Running' = Running \cup {r} /\ r \notin Running
  BY Members DEF ProbesIInv, Probes!TypeOK, Probes!StartCall, Running
<1>4. Cardinality(Running') = Cardinality(Running) + 1
  BY <1>3, Members, SizeOfRequests
<1>5. /\ stuck \in Nat /\ Cardinality(Running) \in Nat /\ Threads \in Nat /\ Jobs \in Nat
      /\ Jobs' = Jobs /\ stuck' = stuck /\ stuck + Cardinality(Running) + Jobs < Threads
  BY Members, SizeOfRequests, BusyThreads DEF ProbesIInv, Probes!TypeOK, Probes!StartCall, Jobs
<1>6. ThreadsOK'
  BY <1>4, <1>5 DEF ThreadsOK
<1>7. QED
  BY <1>1, <1>2, <1>6 DEF ProbesIInv

\* A probe that ends gives its thread back.
LEMMA ProbeEndsIInv ==
  ASSUME ProbesIInv, NEW r \in Request, NEW d \in Probes!Dep, Probes!ProbeEnds(r, d), Probes!Observe
  PROVE  ProbesIInv'
<1> DEFINE v == Probes!Verdict(dep[d])
<1>1. /\ probe' = [probe EXCEPT ![r][d] = v] /\ probe[r][d] = "running"
      /\ UNCHANGED <<dep, answer, stuck, job>>
  BY DEF Probes!ProbeEnds
<1>2. v \in {"up", "down"}
  BY DEF Probes!Verdict
<1> HIDE DEF v
<1>3. Probes!TypeOK'
  BY <1>1, <1>2, Seen DEF ProbesIInv, Probes!TypeOK
<1>4. SeenOK'
  <2>1. v = "up" => dep[d] = "up"
    BY DEF v, Probes!Verdict
  <2>2. QED
    BY <1>1, <1>2, <2>1, ProbeSteps
<1>5. Running' = IF d = "object_store" THEN Running \ {r} ELSE Running
  BY <1>1, <1>2, Members DEF ProbesIInv, Probes!TypeOK, Running
<1>6. Cardinality(Running') <= Cardinality(Running) /\ Cardinality(Running') \in Nat
  <2>1. CASE d = "object_store"
    <3>1. r \in Running /\ Running' = Running \ {r}
      BY <1>1, <1>5, <2>1 DEF Running
    <3>2. Cardinality(Running') = Cardinality(Running) - 1 /\ Running' \in SUBSET Request
      BY <3>1, Members, SizeOfRequests
    <3>3. QED
      BY <3>2, Members, SizeOfRequests
  <2>2. CASE d # "object_store"
    BY <1>5, <2>2, Members, SizeOfRequests
  <2>3. QED
    BY <2>1, <2>2
<1>7. ThreadsOK'
  <2>1. /\ stuck \in Nat /\ Cardinality(Running) \in Nat /\ Threads \in Nat /\ Jobs \in Nat
        /\ Jobs' = Jobs /\ stuck' = stuck /\ stuck + Cardinality(Running) + Jobs <= Threads
    BY <1>1, Members, SizeOfRequests DEF ProbesIInv, Probes!TypeOK, ThreadsOK, Jobs
  <2>2. QED
    BY <1>6, <2>1 DEF ThreadsOK
<1>8. QED
  BY <1>3, <1>4, <1>7 DEF ProbesIInv

\* A call that is abandoned keeps its thread, without a request.
LEMMA ProbeTimesOutIInv ==
  ASSUME ProbesIInv, NEW r \in Request, NEW d \in Probes!Dep,
         Probes!ProbeTimesOut(r, d), Probes!Observe
  PROVE  ProbesIInv'
<1> DEFINE abandoned == d = "object_store" /\ probe[r][d] = "running"
<1>1. /\ probe' = [probe EXCEPT ![r][d] = "down"] /\ probe[r][d] \in {"queued", "running"}
      /\ stuck' = IF abandoned THEN stuck + 1 ELSE stuck
      /\ UNCHANGED <<dep, answer, job>>
  BY DEF Probes!ProbeTimesOut, Probes!Verdict, Probes!WaitsTooLong
<1>2. SeenOK'
  BY <1>1, ProbeSteps
<1>3. Running' = IF abandoned THEN Running \ {r} ELSE Running
  BY <1>1, Members DEF ProbesIInv, Probes!TypeOK, Running
<1>4. abandoned => r \in Running
  BY DEF Running
<1>5. abandoned \in BOOLEAN
  OBVIOUS
<1> HIDE DEF abandoned
<1>6. stuck' + Cardinality(Running') = stuck + Cardinality(Running) /\ stuck' \in Nat
  <2>1. stuck \in Nat /\ Cardinality(Running) \in Nat
    BY Members, SizeOfRequests DEF ProbesIInv, Probes!TypeOK
  <2>2. CASE abandoned
    <3>1. Cardinality(Running') = Cardinality(Running) - 1
      BY <1>3, <1>4, <2>2, Members, SizeOfRequests
    <3>2. stuck' = stuck + 1
      BY <1>1, <2>2
    <3>3. QED
      BY <2>1, <3>1, <3>2
  <2>3. CASE ~abandoned
    BY <1>1, <1>3, <2>1, <2>3
  <2>4. QED
    BY <2>2, <2>3
<1>7. /\ stuck + Cardinality(Running) + Jobs <= Threads /\ Jobs \in Nat /\ Jobs' = Jobs
      /\ Running' \in SUBSET Request /\ Cardinality(Running') \in Nat
      /\ stuck \in Nat /\ Cardinality(Running) \in Nat /\ Threads \in Nat
  BY <1>1, <1>3, Members, SizeOfRequests DEF ProbesIInv, Probes!TypeOK, ThreadsOK, Jobs
<1>8. stuck' \in 0 .. Threads /\ ThreadsOK'
  BY <1>6, <1>7 DEF ThreadsOK
<1>9. Probes!TypeOK'
  BY <1>1, <1>8, Seen DEF ProbesIInv, Probes!TypeOK
<1>10. QED
  BY <1>2, <1>8, <1>9 DEF ProbesIInv

\* All probes of the request have ended; "ready" needs each of them up.
LEMMA AnswerIInv ==
  ASSUME ProbesIInv, NEW r \in Request, Probes!Answer(r), Probes!Observe
  PROVE  ProbesIInv'
<1>1. Probes!TypeOK'
  BY Seen DEF ProbesIInv, Probes!TypeOK, Probes!Answer
<1>2. Running' = Running /\ Jobs' = Jobs /\ stuck' = stuck
  BY DEF Probes!Answer, Running, Jobs
<1>3. ThreadsOK'
  BY <1>2 DEF ProbesIInv, ThreadsOK
<1>4. /\ answer[r] = "pending" /\ answer'[r] \in {"ready", "not_ready"} /\ probe' = probe
      /\ answer'[r] = "ready" => \A d \in Probes!Dep : probe[r][d] = "up"
      /\ \A d \in Probes!Dep : probe[r][d] \in {"up", "down"}
      /\ \A q \in Request \ {r} : answer'[q] = answer[q]
  BY DEF ProbesIInv, Probes!TypeOK, Probes!Answer
<1>5. seenUp'[r] = seenUp[r] /\ seenUp[r] \subseteq Probes!Dep
  BY <1>4, Seen DEF ProbesIInv, Probes!TypeOK
<1>6. answer'[r] = "ready" => seenUp'[r] = Probes!Dep
  BY <1>4, <1>5 DEF ProbesIInv, SeenOK
<1>7. SeenOK'
  <2>1. SUFFICES ASSUME NEW q \in Request
                 PROVE  /\ answer'[q] = "pending" => \A e \in Probes!Dep : probe[q][e] = "up" => e \in seenUp'[q]
                        /\ answer'[q] # "pending" =>
                              \A e \in Probes!Dep : probe[q][e] \notin {"queued", "running"}
                        /\ answer'[q] = "ready" => seenUp'[q] = Probes!Dep
    BY <1>4 DEF SeenOK
  <2>2. CASE q = r
    BY <1>4, <1>6, <2>2
  <2>3. CASE q # r
    BY <1>4, <2>3, Seen DEF ProbesIInv, SeenOK
  <2>4. QED
    BY <2>2, <2>3
<1>8. QED
  BY <1>1, <1>3, <1>7 DEF ProbesIInv

\* A step that changes nothing.
LEMMA StutterProbesIInv == ProbesIInv /\ UNCHANGED Probes!vars => ProbesIInv'
BY DEF ProbesIInv, Probes!vars, Probes!TypeOK, ThreadsOK, Running, Jobs, SeenOK

LEMMA NextProbesIInv == ProbesIInv /\ [Probes!Next]_(Probes!vars) => ProbesIInv'
<1>1. SUFFICES ASSUME ProbesIInv, Probes!Step, Probes!Observe PROVE ProbesIInv'
  BY StutterProbesIInv DEF Probes!Next
<1>2. CASE Probes!CallEnds \/ Probes!JobSteps \/ Probes!JobStarts
  BY <1>1, <1>2, CallEndsIInv, JobStepsIInv, JobStartsIInv
<1>3. ASSUME NEW r \in Request, Probes!Ask(r) \/ Probes!StartCall(r) \/ Probes!Handle(r)
      PROVE  ProbesIInv'
  BY <1>1, <1>3, AskIInv, StartCallIInv, AnswerIInv, ProbeEndsIInv, ProbeTimesOutIInv
     DEF Probes!Handle
<1>4. ASSUME NEW d \in Probes!Dep, NEW s \in {"up", "down", "hung"}, Probes!DependencyChanges(d, s)
      PROVE  ProbesIInv'
  BY <1>1, <1>4, DependencyChangesIInv
<1>5. QED
  BY <1>1, <1>2, <1>3, <1>4 DEF Probes!Step

-----------------------------------------------------------------------------
(* The theorems about Readiness, and about both parts *)

\* The inductive invariant of the probes holds in every state, whatever
\* dependencies hang and however many calls are abandoned.
THEOREM ProbesInvariance == Probes!Spec => []ProbesIInv
<1>1. QED
  BY InitProbesIInv, NextProbesIInv, PTL DEF Probes!Spec

\* "ready" is said only when every dependency was up at some time while the
\* request was handled: no verdict of an earlier or abandoned probe counts,
\* for any number of clients and threads (readiness).
THEOREM AnswersAreFresh == Probes!Spec => []ReadyIsFresh
<1>1. ProbesIInv => ReadyIsFresh
  BY DEF ProbesIInv, SeenOK, ReadyIsFresh, Probes!ReadyIsFresh
<1>2. QED
  BY <1>1, ProbesInvariance, PTL

\* A behaviour of the composition is one of each part: the part that does not
\* move stutters.
THEOREM ProcessComposes == MCSpec => Spec /\ Probes!Spec
<1>1. MCInit => Init /\ Probes!Init
  BY DEF MCInit
<1>2. [MCNext]_all => [Next]_vars /\ [Probes!Next]_(Probes!vars)
  BY DEF MCNext, OfContainer, OfReadiness, OfUploads, all, readiness, Probes!vars
<1>3. MCSpec => MCInit /\ [][MCNext]_all
  BY PTL DEF MCSpec
<1>4. QED
  BY <1>1, <1>2, <1>3, PTL DEF Spec, Probes!Spec

\* The container and the probes of an API process keep their types: no more
\* calls are abandoned than there are threads, and a closed container owns
\* nothing.
THEOREM PartsAreWellTyped == MCSpec => []WellTyped
<1>1. ProbesIInv /\ TypeOK => WellTyped
  BY DEF ProbesIInv, WellTyped
<1>2. QED
  BY <1>1, ProcessComposes, ProbesInvariance, TypeCorrectness, PTL
=============================================================================

------------------------- MODULE TaskDelivery_proofs -------------------------
(***************************************************************************)
(* Proofs about TaskDelivery, for every number of tasks and workers and    *)
(* every retry and delivery limit: type correctness and TasksAccountedFor. *)
(* The bound on executions is a counting argument: every retry goes back   *)
(* to an execution of its own.                                             *)
(***************************************************************************)
EXTENDS TaskDelivery, FiniteSetTheorems, SequenceTheorems, WellFoundedInduction, TLAPS

-----------------------------------------------------------------------------
(* Induction over a set of natural numbers, and recursive functions *)

LEMMA LeastElement ==
  ASSUME NEW T \in SUBSET Nat, T # {}
  PROVE  \E x \in T : \A y \in T : x <= y
<1> DEFINE R == OpToRel(<, Nat)
<1>1. IsWellFoundedOn(R, Nat)
  BY NatLessThanWellFounded
<1>2. \A x, y \in Nat : y < x => <<y, x>> \in R
  BY DEF OpToRel
<1> HIDE DEF R
<1>3. PICK x \in T : \A y \in T : ~(<<y, x>> \in R)
  BY <1>1, WFMin
<1>4. \A y \in T : y \in Nat /\ ~(y < x) /\ x \in Nat
  BY <1>2, <1>3
<1>5. \A y \in T : x <= y
  BY <1>4
<1>6. QED
  BY <1>5

LEMMA SetInduction ==
  ASSUME NEW S, 0 \in S, \A n \in Nat : n \in S => n + 1 \in S
  PROVE  \A n \in Nat : n \in S
<1>1. SUFFICES ASSUME NEW k \in Nat, k \notin S PROVE FALSE
  OBVIOUS
<1> DEFINE T == {n \in Nat : n \notin S}
<1>2. PICK x \in T : \A y \in T : x <= y
  BY <1>1, LeastElement
<1>3. x # 0 /\ x - 1 \in Nat /\ x - 1 \notin T
  BY <1>2
<1>4. x - 1 \in S /\ (x - 1) + 1 = x
  BY <1>2, <1>3
<1>5. QED
  BY <1>2, <1>3, <1>4

\* f is the beginning, up to n, of the sequence that starts with a and
\* continues by h.
Follows(f, n, a, h) ==
    f \in [0 .. n -> Nat] /\ f[0] = a /\ \A r \in 1 .. n : f[r] = h[r][f[r - 1]]

LEMMA RecursionExists ==
  ASSUME NEW a \in Nat, NEW h \in [Nat -> [Nat -> Nat]]
  PROVE  \A n \in Nat : \E f : Follows(f, n, a, h)
<1> DEFINE S == {n \in Nat : \E f : Follows(f, n, a, h)}
<1>1. 0 \in S
  <2>1. Follows([r \in 0 .. 0 |-> a], 0, a, h)
    BY DEF Follows
  <2>2. QED
    BY <2>1
<1>2. ASSUME NEW n \in Nat, n \in S PROVE n + 1 \in S
  <2>1. PICK f : Follows(f, n, a, h)
    BY <1>2
  <2> DEFINE g == [r \in 0 .. n + 1 |-> IF r = n + 1 THEN h[n + 1][f[n]] ELSE f[r]]
  <2>2. \A r \in 0 .. n : g[r] = f[r] /\ f[r] \in Nat
    <3>1. TAKE r \in 0 .. n
    <3>2. r \in 0 .. n + 1 /\ r # n + 1
      OBVIOUS
    <3>3. f[r] \in Nat
      BY <2>1 DEF Follows
    <3>4. QED
      BY <3>2, <3>3
  <2>3. g[n + 1] = h[n + 1][g[n]] /\ h[n + 1][f[n]] \in Nat
    <3>1. n \in 0 .. n /\ n + 1 \in Nat /\ n + 1 \in 0 .. n + 1
      OBVIOUS
    <3>2. f[n] \in Nat /\ g[n] = f[n] /\ h[n + 1] \in [Nat -> Nat]
      BY <2>2, <3>1
    <3>3. QED
      BY <3>1, <3>2
  <2>4. g \in [0 .. n + 1 -> Nat]
    <3>1. \A r \in 0 .. n + 1 : r = n + 1 \/ r \in 0 .. n
      OBVIOUS
    <3>2. \A r \in 0 .. n + 1 : (IF r = n + 1 THEN h[n + 1][f[n]] ELSE f[r]) \in Nat
      BY <2>2, <2>3, <3>1
    <3>3. QED
      BY <3>2
  <2> HIDE DEF g
  <2>5. g[0] = a
    <3>1. 0 \in 0 .. n
      OBVIOUS
    <3>2. QED
      BY <2>1, <2>2, <3>1 DEF Follows
  <2>6. \A r \in 1 .. n + 1 : g[r] = h[r][g[r - 1]]
    <3>1. TAKE r \in 1 .. n + 1
    <3>2. CASE r = n + 1
      BY <2>3, <3>2
    <3>3. CASE r # n + 1
      <4>1. r \in 1 .. n /\ r \in 0 .. n /\ r - 1 \in 0 .. n
        BY <3>3
      <4>2. f[r] = h[r][f[r - 1]]
        BY <2>1, <4>1 DEF Follows
      <4>3. QED
        BY <2>2, <4>1, <4>2
    <3>4. QED
      BY <3>2, <3>3
  <2>7. Follows(g, n + 1, a, h)
    BY <2>4, <2>5, <2>6 DEF Follows
  <2>8. QED
    BY <2>7
<1> HIDE DEF S
<1>3. \A n \in Nat : n \in S
  BY <1>1, <1>2, SetInduction
<1>4. QED
  BY <1>3 DEF S

\* What the two recursive functions of the model compute.
LEMMA PublishedFacts ==
  /\ Published \in [0 .. MaxRetries -> Nat]
  /\ Published[0] = 1
  /\ \A r \in 1 .. MaxRetries : Published[r] = (DeliveryLimit + 1) * Published[r - 1]
<1> DEFINE D == DeliveryLimit + 1
           h == [r \in Nat |-> [x \in Nat |-> D * x]]
<1>1. D \in Nat /\ \A x \in Nat : D * x \in Nat
  BY LimitAssumption
<1> HIDE DEF D
<1>2. h \in [Nat -> [Nat -> Nat]] /\ \A r, x \in Nat : h[r][x] = D * x
  BY <1>1
<1> HIDE DEF h
<1>3. PICK f : Follows(f, MaxRetries, 1, h)
  BY <1>2, RecursionExists, LimitAssumption
<1>4. \A r \in 0 .. MaxRetries : f[r] = IF r = 0 THEN 1 ELSE D * f[r - 1]
  <2>1. TAKE r \in 0 .. MaxRetries
  <2>2. CASE r = 0
    BY <1>3, <2>2 DEF Follows
  <2>3. CASE r # 0
    <3>1. r \in 1 .. MaxRetries /\ r \in Nat /\ r - 1 \in 0 .. MaxRetries
      BY <2>3, LimitAssumption
    <3>2. f[r] = h[r][f[r - 1]] /\ f[r - 1] \in Nat
      BY <1>3, <3>1 DEF Follows
    <3>3. QED
      BY <1>2, <2>3, <3>1, <3>2
  <2>4. QED
    BY <2>2, <2>3
<1>5. f = [r \in 0 .. MaxRetries |-> IF r = 0 THEN 1 ELSE D * f[r - 1]]
  BY <1>3, <1>4 DEF Follows
<1>6. Published = [r \in 0 .. MaxRetries |-> IF r = 0 THEN 1 ELSE D * Published[r - 1]]
  BY <1>5 DEF Published, D
<1> DEFINE S == {n \in Nat : n <= MaxRetries => Published[n] \in Nat}
<1>7. 0 \in S /\ Published[0] = 1
  BY <1>6, LimitAssumption
<1>8. \A r \in 1 .. MaxRetries : Published[r] = D * Published[r - 1]
  BY <1>6, LimitAssumption
<1>9. ASSUME NEW n \in Nat, n \in S PROVE n + 1 \in S
  <2>1. CASE n + 1 <= MaxRetries
    <3>1. n + 1 \in 1 .. MaxRetries /\ Published[n] \in Nat /\ (n + 1) - 1 = n
      BY <1>9, <2>1, LimitAssumption
    <3>2. Published[n + 1] = D * Published[n]
      BY <1>8, <3>1
    <3>3. QED
      BY <1>1, <3>1, <3>2
  <2>2. QED
    BY <2>1
<1> HIDE DEF S
<1>10. \A n \in Nat : n \in S
  BY <1>7, <1>9, SetInduction
<1>11. \A n \in 0 .. MaxRetries : Published[n] \in Nat
  BY <1>10 DEF S
<1>12. QED
  BY <1>6, <1>7, <1>8, <1>11 DEF D

LEMMA ExecutionsFacts ==
  /\ Executions \in [0 .. MaxRetries -> Nat]
  /\ Executions[0] = (DeliveryLimit + 1) * Published[0]
  /\ \A r \in 1 .. MaxRetries :
        Executions[r] = (DeliveryLimit + 1) * Published[r] + Executions[r - 1]
<1> DEFINE D == DeliveryLimit + 1
           P(r) == D * Published[r]
           h == [r \in Nat |-> [x \in Nat |-> IF r <= MaxRetries THEN P(r) + x ELSE 0]]
<1>1. MaxRetries \in Nat /\ \A r \in 0 .. MaxRetries : P(r) \in Nat
  <2>1. D \in Nat /\ MaxRetries \in Nat
    BY LimitAssumption
  <2>2. \A r \in 0 .. MaxRetries : Published[r] \in Nat
    BY PublishedFacts
  <2> HIDE DEF D
  <2>3. QED
    BY <2>1, <2>2
<1> HIDE DEF D, P
<1>2. /\ h \in [Nat -> [Nat -> Nat]]
      /\ \A r \in 0 .. MaxRetries : \A x \in Nat : h[r][x] = P(r) + x
  <2>1. \A r, x \in Nat : (IF r <= MaxRetries THEN P(r) + x ELSE 0) \in Nat
    <3>1. TAKE r, x \in Nat
    <3>2. r <= MaxRetries => P(r) \in Nat
      BY <1>1
    <3>3. QED
      BY <3>2
  <2>2. \A r \in Nat : [x \in Nat |-> IF r <= MaxRetries THEN P(r) + x ELSE 0] \in [Nat -> Nat]
    BY <2>1
  <2>3. \A r \in 0 .. MaxRetries : r \in Nat /\ r <= MaxRetries
    BY <1>1
  <2>4. QED
    BY <2>2, <2>3
<1> HIDE DEF h
<1>3. PICK f : Follows(f, MaxRetries, P(0), h)
  <2>1. P(0) \in Nat
    BY <1>1
  <2>2. QED
    BY <1>1, <1>2, <2>1, RecursionExists
<1>4. \A r \in 0 .. MaxRetries : f[r] = P(r) + IF r = 0 THEN 0 ELSE f[r - 1]
  <2>1. TAKE r \in 0 .. MaxRetries
  <2>2. CASE r = 0
    BY <1>1, <1>3, <2>2 DEF Follows
  <2>3. CASE r # 0
    <3>1. r \in 1 .. MaxRetries /\ r - 1 \in 0 .. MaxRetries
      BY <1>1, <2>3
    <3>2. f[r] = h[r][f[r - 1]] /\ f[r - 1] \in Nat
      BY <1>3, <3>1 DEF Follows
    <3>3. QED
      BY <1>2, <2>3, <3>2
  <2>4. QED
    BY <2>2, <2>3
<1>5. f = [r \in 0 .. MaxRetries |-> P(r) + IF r = 0 THEN 0 ELSE f[r - 1]]
  BY <1>3, <1>4 DEF Follows
<1>6. Executions = [r \in 0 .. MaxRetries |-> P(r) + IF r = 0 THEN 0 ELSE Executions[r - 1]]
  BY <1>5 DEF Executions, P, D
<1>7. Executions[0] = P(0) /\ Executions[0] \in Nat
  <2>1. 0 \in 0 .. MaxRetries /\ P(0) \in Nat
    BY <1>1
  <2>2. QED
    BY <1>6, <2>1
<1>8. \A r \in 1 .. MaxRetries : Executions[r] = P(r) + Executions[r - 1]
  BY <1>1, <1>6
<1> DEFINE S == {n \in Nat : n <= MaxRetries => Executions[n] \in Nat}
<1>9. 0 \in S
  BY <1>7
<1>10. ASSUME NEW n \in Nat, n \in S PROVE n + 1 \in S
  <2>1. CASE n + 1 <= MaxRetries
    <3>1. n + 1 \in 1 .. MaxRetries /\ n + 1 \in 0 .. MaxRetries /\ Executions[n] \in Nat /\ (n + 1) - 1 = n
      BY <1>1, <1>10, <2>1
    <3>2. Executions[n + 1] = P(n + 1) + Executions[n]
      BY <1>8, <3>1
    <3>3. QED
      BY <1>1, <3>1, <3>2
  <2>2. QED
    BY <2>1
<1> HIDE DEF S
<1>11. \A n \in Nat : n \in S
  BY <1>9, <1>10, SetInduction
<1>12. \A n \in 0 .. MaxRetries : Executions[n] \in Nat
  BY <1>11 DEF S
<1>13. QED
  BY <1>6, <1>7, <1>8, <1>12 DEF P, D

LEMMA MaxRunsType == MaxRuns \in Nat
<1>1. MaxRetries \in 0 .. MaxRetries
  BY LimitAssumption
<1>2. QED
  BY <1>1, ExecutionsFacts DEF MaxRuns
-----------------------------------------------------------------------------
(* The inductive invariant *)

\* How often a message has been delivered.
Delivered(m) == m.returns + IF m.at = "queue" THEN 0 ELSE 1

\* The deliveries of a task: a message and the number of its delivery.
Deliveries(t) ==
    {d \in (1 .. Len(messages[t])) \X (1 .. DeliveryLimit + 1) :
        d[2] <= Delivered(messages[t][d[1]])}

Busy(t) == {w \in Worker : job[w] # NoJob /\ job[w].task = t}

\* Every retry goes back to a delivery of its own, of a message with one
\* retry less, and so does every execution that may still publish one.
Traces(t, origin, busy) ==
    /\ \A n \in 2 .. Len(messages[t]) :
          messages[t][n].retries = messages[t][origin[n][1]].retries + 1
    /\ \A n, o \in 2 .. Len(messages[t]) : origin[n] = origin[o] => n = o
    /\ \A w \in Busy(t) :
          /\ busy[w][1] = job[w].n
          /\ \A n \in 2 .. Len(messages[t]) : origin[n] # busy[w]
    /\ \A w, v \in Busy(t) : busy[w] = busy[v] => w = v

TaskOK(t) ==
    /\ messages[t] # <<>> => messages[t][1].retries = 0
    /\ IsFiniteSet(Deliveries(t)) /\ runs[t] <= Cardinality(Deliveries(t))
    /\ \E origin \in [2 .. Len(messages[t]) -> Deliveries(t)] :
          \E busy \in [Busy(t) -> Deliveries(t)] : Traces(t, origin, busy)

JobsOK == job \in [Worker -> Job \cup {NoJob}]

\* Nothing is delivered before the dead-letter queue is declared.
DeadLettersKept ==
    /\ \A w \in Worker : phase[w] = "up" => dlq
    /\ \A t \in Task : \A n \in 1 .. Len(messages[t]) : messages[t][n].at \in Worker => dlq

IInv ==
    /\ TypeOK /\ JobsOK
    /\ DeadLettersKept /\ NoTaskDisappears
    /\ \A t \in Task : TaskOK(t)
-----------------------------------------------------------------------------
(* The executions of a task are counted along its retries *)

\* Multiplying by the deliveries of a message keeps the order.
LEMMA TimesMonotone ==
  ASSUME NEW a \in Nat, NEW b \in Nat, a <= b
  PROVE  a * (DeliveryLimit + 1) <= (DeliveryLimit + 1) * b
<1>1. PICK D \in Nat : D = DeliveryLimit + 1
  BY LimitAssumption
<1>2. PICK c \in Nat : b = a + c
  <2>1. b - a \in Nat /\ b = a + (b - a)
    OBVIOUS
  <2>2. QED
    BY <2>1
<1>3. D * (a + c) = a * D + D * c /\ D * c \in Nat
  OBVIOUS
<1>4. a * D \in Nat
  OBVIOUS
<1>5. QED
  BY <1>1, <1>2, <1>3, <1>4

\* A set of pairs of one of L and the number of a delivery.
LEMMA DeliveriesOfSet ==
  ASSUME NEW L, IsFiniteSet(L), NEW b \in Nat, Cardinality(L) <= b
  PROVE  /\ IsFiniteSet(L \X (1 .. DeliveryLimit + 1))
         /\ Cardinality(L \X (1 .. DeliveryLimit + 1)) <= (DeliveryLimit + 1) * b
<1>1. /\ IsFiniteSet(1 .. DeliveryLimit + 1)
      /\ Cardinality(1 .. DeliveryLimit + 1) = DeliveryLimit + 1
  <2>1. DeliveryLimit + 1 \in Int /\ 1 \in Int /\ ~(1 > DeliveryLimit + 1)
        /\ (DeliveryLimit + 1) - 1 + 1 = DeliveryLimit + 1
    BY LimitAssumption
  <2>2. QED
    BY <2>1, FS_Interval
<1>2. Cardinality(L) \in Nat
  BY FS_CardinalityType
<1>3. /\ IsFiniteSet(L \X (1 .. DeliveryLimit + 1))
      /\ Cardinality(L \X (1 .. DeliveryLimit + 1)) = Cardinality(L) * (DeliveryLimit + 1)
  BY <1>1, FS_Product
<1>4. QED
  BY <1>2, <1>3, TimesMonotone

\* The messages of a task with r retries.
Level(t, r) == {n \in 1 .. Len(messages[t]) : messages[t][n].retries = r}

\* Its deliveries with up to r retries.
DeliveriesUpTo(t, r) == {d \in Deliveries(t) : messages[t][d[1]].retries <= r}

LEMMA LevelBound ==
  ASSUME TypeOK, NEW t \in Task, TaskOK(t)
  PROVE  \A r \in 0 .. MaxRetries :
            IsFiniteSet(Level(t, r)) /\ Cardinality(Level(t, r)) <= Published[r]
<1> DEFINE S == {r \in Nat : r <= MaxRetries =>
                   IsFiniteSet(Level(t, r)) /\ Cardinality(Level(t, r)) <= Published[r]}
<1>1. PICK origin \in [2 .. Len(messages[t]) -> Deliveries(t)] :
        /\ \A n \in 2 .. Len(messages[t]) :
              messages[t][n].retries = messages[t][origin[n][1]].retries + 1
        /\ \A n, o \in 2 .. Len(messages[t]) : origin[n] = origin[o] => n = o
  BY DEF TaskOK, Traces
<1>2. /\ Len(messages[t]) \in Nat
      /\ \A n \in 1 .. Len(messages[t]) : messages[t][n].retries \in Nat
  <2>1. messages[t] \in Seq(Message)
    BY DEF TypeOK
  <2>2. \A n \in 1 .. Len(messages[t]) : messages[t][n] \in Message
    BY <2>1
  <2>3. QED
    BY <2>1, <2>2, LenProperties, LimitAssumption DEF Message
<1>3. \A n \in 2 .. Len(messages[t]) :
        /\ origin[n] \in Deliveries(t)
        /\ origin[n][1] \in 1 .. Len(messages[t]) /\ origin[n][2] \in 1 .. DeliveryLimit + 1
        /\ origin[n] = <<origin[n][1], origin[n][2]>>
  BY <1>1 DEF Deliveries
<1>4. 0 \in S
  <2>1. messages[t] \in Seq(Message) /\ (messages[t] # <<>> => messages[t][1].retries = 0)
    BY DEF TypeOK, TaskOK
  <2>2. \A n \in 2 .. Len(messages[t]) : messages[t][n].retries # 0
    BY <1>1, <1>2, <1>3
  <2>3. Level(t, 0) \subseteq {1}
    BY <1>2, <2>2 DEF Level
  <2>4. IsFiniteSet({1}) /\ Cardinality({1}) = 1
    BY FS_Singleton
  <2>5. IsFiniteSet(Level(t, 0)) /\ Cardinality(Level(t, 0)) <= 1
    BY <2>3, <2>4, FS_Subset
  <2>6. QED
    BY <2>5, PublishedFacts
<1>5. ASSUME NEW r \in Nat, r \in S PROVE r + 1 \in S
  <2>1. SUFFICES ASSUME r + 1 <= MaxRetries
                 PROVE  /\ IsFiniteSet(Level(t, r + 1))
                        /\ Cardinality(Level(t, r + 1)) <= Published[r + 1]
    OBVIOUS
  <2>2. /\ r + 1 \in 1 .. MaxRetries /\ (r + 1) - 1 = r /\ r \in 0 .. MaxRetries
        /\ IsFiniteSet(Level(t, r)) /\ Cardinality(Level(t, r)) <= Published[r]
    BY <1>5, <2>1, LimitAssumption
  <2>3. Published[r] \in Nat /\ Published[r + 1] = (DeliveryLimit + 1) * Published[r]
    BY <2>2, PublishedFacts
  <2> DEFINE T == Level(t, r) \X (1 .. DeliveryLimit + 1)
  <2>4. IsFiniteSet(T) /\ Cardinality(T) <= Published[r + 1]
    BY <2>2, <2>3, DeliveriesOfSet
  <2>5. \A n \in Level(t, r + 1) : n \in 2 .. Len(messages[t])
    <3>1. TAKE n \in Level(t, r + 1)
    <3>2. n \in 1 .. Len(messages[t]) /\ messages[t][n].retries = r + 1
      BY DEF Level
    <3>3. n # 1
      <4>1. Len(messages[t]) # 0 /\ messages[t] \in Seq(Message)
        BY <1>2, <3>2 DEF TypeOK
      <4>2. messages[t] # <<>>
        BY <4>1, EmptySeq
      <4>3. messages[t][1].retries = 0
        BY <4>2 DEF TaskOK
      <4>4. QED
        BY <3>2, <4>3
    <3>4. QED
      BY <1>2, <3>2, <3>3
  <2>6. \A n \in Level(t, r + 1) : origin[n] \in T
    <3>1. TAKE n \in Level(t, r + 1)
    <3>2. messages[t][n].retries = r + 1
      BY DEF Level
    <3>3. messages[t][origin[n][1]].retries = r
      BY <1>1, <1>2, <1>3, <2>5, <3>2
    <3>4. origin[n][1] \in Level(t, r) /\ origin[n][2] \in 1 .. DeliveryLimit + 1
      BY <1>3, <2>5, <3>3 DEF Level
    <3>5. <<origin[n][1], origin[n][2]>> \in T
      BY <3>4
    <3>6. origin[n] = <<origin[n][1], origin[n][2]>>
      BY <1>3, <2>5
    <3>7. QED
      BY <3>5, <3>6
  <2> HIDE DEF T
  <2> DEFINE f == [n \in Level(t, r + 1) |-> origin[n]]
  <2>7. f \in Injection(Level(t, r + 1), T)
    <3>1. f \in [Level(t, r + 1) -> T]
      BY <2>6
    <3>2. \A n, o \in Level(t, r + 1) : f[n] = f[o] => n = o
      BY <1>1, <2>5
    <3>3. QED
      BY <3>1, <3>2 DEF Injection, IsInjective
  <2>8. /\ IsFiniteSet(Level(t, r + 1))
        /\ Cardinality(Level(t, r + 1)) <= Cardinality(T)
    BY <2>4, <2>7, FS_Injection
  <2>9. Cardinality(T) \in Nat /\ Cardinality(Level(t, r + 1)) \in Nat /\ Published[r + 1] \in Nat
    BY <2>2, <2>4, <2>8, FS_CardinalityType, PublishedFacts
  <2>10. QED
    BY <2>4, <2>8, <2>9
<1> HIDE DEF S
<1>6. \A r \in Nat : r \in S
  BY <1>4, <1>5, SetInduction
<1>7. QED
  BY <1>6, LimitAssumption DEF S

LEMMA DeliveriesBound ==
  ASSUME TypeOK, NEW t \in Task, TaskOK(t)
  PROVE  IsFiniteSet(Deliveries(t)) /\ Cardinality(Deliveries(t)) <= MaxRuns
<1> DEFINE At(r) == Level(t, r) \X (1 .. DeliveryLimit + 1)
           UpTo(r) == DeliveriesUpTo(t, r)
           S == {r \in Nat : r <= MaxRetries => IsFiniteSet(UpTo(r)) /\ Cardinality(UpTo(r)) <= Executions[r]}
<1>1. \A n \in 1 .. Len(messages[t]) : messages[t][n].retries \in 0 .. MaxRetries
  <2>1. messages[t] \in Seq(Message)
    BY DEF TypeOK
  <2>2. \A n \in 1 .. Len(messages[t]) : messages[t][n] \in Message
    BY <2>1
  <2>3. QED
    BY <2>2 DEF Message
<1>2. \A d \in Deliveries(t) :
        /\ d = <<d[1], d[2]>> /\ d[1] \in 1 .. Len(messages[t]) /\ d[2] \in 1 .. DeliveryLimit + 1
        /\ messages[t][d[1]].retries \in 0 .. MaxRetries
  BY <1>1 DEF Deliveries
<1>3. \A r \in 0 .. MaxRetries :
        /\ IsFiniteSet(At(r)) /\ Cardinality(At(r)) \in Nat
        /\ Cardinality(At(r)) <= (DeliveryLimit + 1) * Published[r]
  <2>1. TAKE r \in 0 .. MaxRetries
  <2>2. IsFiniteSet(Level(t, r)) /\ Cardinality(Level(t, r)) <= Published[r] /\ Published[r] \in Nat
    BY LevelBound, PublishedFacts
  <2>3. IsFiniteSet(At(r)) /\ Cardinality(At(r)) <= (DeliveryLimit + 1) * Published[r]
    BY <2>2, DeliveriesOfSet
  <2> HIDE DEF At
  <2>4. QED
    BY <2>3, FS_CardinalityType
<1>4. \A d \in Deliveries(t) : d \in At(messages[t][d[1]].retries)
  <2>1. TAKE d \in Deliveries(t)
  <2>2. d[1] \in Level(t, messages[t][d[1]].retries)
    BY <1>2 DEF Level
  <2>3. QED
    BY <1>2, <2>2
<1> HIDE DEF At
<1>5. 0 \in S
  <2>1. UpTo(0) \subseteq At(0)
    BY <1>2, <1>4, LimitAssumption DEF DeliveriesUpTo
  <2>2. 0 \in 0 .. MaxRetries
    BY LimitAssumption
  <2>3. IsFiniteSet(UpTo(0)) /\ Cardinality(UpTo(0)) <= Cardinality(At(0))
    BY <1>3, <2>1, <2>2, FS_Subset
  <2>4. Cardinality(UpTo(0)) \in Nat /\ Executions[0] \in Nat
    BY <2>2, <2>3, FS_CardinalityType, ExecutionsFacts
  <2>5. QED
    BY <1>3, <2>2, <2>3, <2>4, ExecutionsFacts
<1>6. ASSUME NEW r \in Nat, r \in S PROVE r + 1 \in S
  <2>1. SUFFICES ASSUME r + 1 <= MaxRetries
                 PROVE  IsFiniteSet(UpTo(r + 1)) /\ Cardinality(UpTo(r + 1)) <= Executions[r + 1]
    OBVIOUS
  <2>2. /\ r + 1 \in 1 .. MaxRetries /\ (r + 1) - 1 = r /\ r \in 0 .. MaxRetries /\ r + 1 \in 0 .. MaxRetries
        /\ IsFiniteSet(UpTo(r)) /\ Cardinality(UpTo(r)) <= Executions[r]
    BY <1>6, <2>1, LimitAssumption
  <2>3. UpTo(r + 1) \subseteq UpTo(r) \cup At(r + 1)
    <3>1. SUFFICES ASSUME NEW d \in UpTo(r + 1) PROVE d \in UpTo(r) \cup At(r + 1)
      OBVIOUS
    <3>2. /\ d \in Deliveries(t) /\ messages[t][d[1]].retries <= r + 1
          /\ messages[t][d[1]].retries \in 0 .. MaxRetries
      BY <1>2 DEF DeliveriesUpTo
    <3>3. CASE messages[t][d[1]].retries <= r
      BY <3>2, <3>3 DEF DeliveriesUpTo
    <3>4. CASE messages[t][d[1]].retries = r + 1
      BY <1>4, <3>2, <3>4
    <3>5. QED
      BY <3>2, <3>3, <3>4, LimitAssumption
  <2> HIDE DEF UpTo
  <2> DEFINE U == UpTo(r) \cup At(r + 1)
             I == UpTo(r) \cap At(r + 1)
  <2>4. IsFiniteSet(At(r + 1))
    BY <1>3, <2>2
  <2>5. /\ IsFiniteSet(U)
        /\ Cardinality(U) = Cardinality(UpTo(r)) + Cardinality(At(r + 1)) - Cardinality(I)
    BY <2>2, <2>4, FS_Union
  <2>6. IsFiniteSet(I)
    <3>1. I \in SUBSET UpTo(r)
      OBVIOUS
    <3>2. QED
      BY <2>2, <3>1, FS_Subset
  <2>7. UpTo(r + 1) \in SUBSET U
    BY <2>3
  <2> HIDE DEF U, I
  <2>8. IsFiniteSet(UpTo(r + 1)) /\ Cardinality(UpTo(r + 1)) <= Cardinality(U)
    BY <2>5, <2>7, FS_Subset
  <2>9. /\ Cardinality(U) \in Nat /\ Cardinality(I) \in Nat /\ Cardinality(UpTo(r)) \in Nat
        /\ Cardinality(UpTo(r + 1)) \in Nat
    BY <2>2, <2>5, <2>6, <2>8, FS_CardinalityType
  <2>10. /\ Executions[r] \in Nat /\ Executions[r + 1] \in Nat
         /\ Executions[r + 1] = (DeliveryLimit + 1) * Published[r + 1] + Executions[r]
    BY <2>2, ExecutionsFacts
  <2>11. PICK p \in Nat : p = (DeliveryLimit + 1) * Published[r + 1]
    <3>1. Published[r + 1] \in Nat /\ DeliveryLimit + 1 \in Nat
      BY <2>2, PublishedFacts, LimitAssumption
    <3>2. QED
      BY <3>1
  <2>12. Cardinality(At(r + 1)) \in Nat /\ Cardinality(At(r + 1)) <= p
    BY <1>3, <2>2, <2>11
  <2>13. QED
    BY <2>2, <2>5, <2>8, <2>9, <2>10, <2>11, <2>12
<1> HIDE DEF S
<1>7. MaxRetries \in S
  BY <1>5, <1>6, SetInduction, LimitAssumption
<1>8. UpTo(MaxRetries) = Deliveries(t)
  BY <1>2 DEF DeliveriesUpTo
<1>9. QED
  BY <1>7, <1>8, LimitAssumption DEF S, MaxRuns

LEMMA RunsBound == TypeOK /\ (\A t \in Task : TaskOK(t)) => ExecutionsBounded
<1>1. SUFFICES ASSUME TypeOK, NEW t \in Task, TaskOK(t) PROVE runs[t] <= MaxRuns
  BY DEF ExecutionsBounded
<1>2. /\ IsFiniteSet(Deliveries(t)) /\ Cardinality(Deliveries(t)) <= MaxRuns
      /\ runs[t] <= Cardinality(Deliveries(t))
  BY <1>1, DeliveriesBound DEF TaskOK
<1>3. runs[t] \in Nat /\ Cardinality(Deliveries(t)) \in Nat /\ MaxRuns \in Nat
  BY <1>1, <1>2, FS_CardinalityType, MaxRunsType DEF TypeOK
<1>4. QED
  BY <1>2, <1>3
-----------------------------------------------------------------------------
(* Facts about messages *)

\* m came from the worker w, with as many deliveries as before.
Moved(w, m, x) ==
    /\ m.at = w /\ x.at \in {"queue", "acked", "dead", "lost"}
    /\ x.retries = m.retries /\ Delivered(x) = Delivered(m)

LEMMA MessageFacts ==
  ASSUME TypeOK, NEW t \in Task
  PROVE  /\ messages[t] \in Seq(Message) /\ Len(messages[t]) \in Nat
         /\ DOMAIN messages[t] = 1 .. Len(messages[t])
         /\ messages[t] = <<>> <=> Len(messages[t]) = 0
         /\ \A n \in 1 .. Len(messages[t]) : messages[t][n] \in Message
<1>1. messages[t] \in Seq(Message)
  BY DEF TypeOK
<1>2. Len(messages[t]) \in Nat /\ DOMAIN messages[t] = 1 .. Len(messages[t])
  BY <1>1, LenProperties
<1>3. messages[t] = <<>> <=> Len(messages[t]) = 0
  BY <1>1, EmptySeq
<1>4. QED
  BY <1>1, <1>2, <1>3

LEMMA AckedMoves ==
  ASSUME NEW m \in Message, m.at \in Worker
  PROVE  Acked(m) \in Message /\ Moved(m.at, m, Acked(m))
<1>1. m.at # "queue" /\ "acked" \in Place
  BY LimitAssumption DEF Place
<1>2. QED
  BY <1>1 DEF Acked, Message, Moved, Delivered

LEMMA DeadLetteredMoves ==
  ASSUME NEW m \in Message, m.at \in Worker, dlq
  PROVE  DeadLettered(m) \in Message /\ Moved(m.at, m, DeadLettered(m)) /\ DeadLettered(m).at = "dead"
<1>1. m.at # "queue" /\ "dead" \in Place
  BY LimitAssumption DEF Place
<1>2. QED
  BY <1>1 DEF DeadLettered, Message, Moved, Delivered

LEMMA ReturnedMoves ==
  ASSUME NEW m \in Message, m.at \in Worker, dlq
  PROVE  Returned(m) \in Message /\ Moved(m.at, m, Returned(m)) /\ Returned(m).at \in {"queue", "dead"}
<1>1. CASE m.returns = DeliveryLimit
  BY <1>1, DeadLetteredMoves DEF Returned
<1>2. CASE m.returns # DeliveryLimit
  <2>1. m.at # "queue" /\ "queue" \in Place
    BY LimitAssumption DEF Place
  <2>2. m.returns \in 0 .. DeliveryLimit /\ m.returns + 1 \in 0 .. DeliveryLimit
    BY <1>2, LimitAssumption DEF Message
  <2>3. PICK x : x = [m EXCEPT !.at = "queue", !.returns = m.returns + 1]
    OBVIOUS
  <2>4. x \in Message /\ x.at = "queue" /\ x.returns = m.returns + 1 /\ x.retries = m.retries
    BY <2>1, <2>2, <2>3 DEF Message
  <2>5. Returned(m) = x
    BY <1>2, <2>3 DEF Returned
  <2>6. QED
    BY <2>1, <2>2, <2>4, <2>5 DEF Moved, Delivered
<1>3. QED
  BY <1>1, <1>2

\* Every message of the worker comes back, to the queue or to the
\* dead-letter queue.
LEMMA ReturnedByFacts ==
  ASSUME IInv, NEW w \in Worker, NEW X, X = ReturnedBy(w)
  PROVE  /\ X \in [Task -> Seq(Message)]
         /\ \A t \in Task :
              /\ Len(X[t]) = Len(messages[t])
              /\ \A n \in 1 .. Len(messages[t]) :
                   \/ X[t][n] = messages[t][n] /\ messages[t][n].at # w
                   \/ Moved(w, messages[t][n], X[t][n]) /\ X[t][n].at \in {"queue", "dead"}
<1>1. TypeOK /\ DeadLettersKept
  BY DEF IInv
<1> DEFINE Y(t, n) == IF messages[t][n].at = w THEN Returned(messages[t][n]) ELSE messages[t][n]
<1>2. ASSUME NEW t \in Task, NEW n \in 1 .. Len(messages[t])
      PROVE  /\ Y(t, n) \in Message
             /\ \/ Y(t, n) = messages[t][n] /\ messages[t][n].at # w
                \/ Moved(w, messages[t][n], Y(t, n)) /\ Y(t, n).at \in {"queue", "dead"}
  <2>1. messages[t][n] \in Message
    BY <1>1, MessageFacts
  <2>2. CASE messages[t][n].at = w
    <3>1. dlq
      BY <1>1, <2>2 DEF DeadLettersKept
    <3>2. QED
      BY <2>1, <2>2, <3>1, ReturnedMoves
  <2>3. CASE messages[t][n].at # w
    BY <2>1, <2>3
  <2>4. QED
    BY <2>2, <2>3
<1> HIDE DEF Y
<1>3. X = [t \in Task |-> [n \in DOMAIN messages[t] |-> Y(t, n)]]
  BY DEF ReturnedBy, Y
<1>4. ASSUME NEW t \in Task
      PROVE  /\ X[t] \in Seq(Message) /\ Len(X[t]) = Len(messages[t])
             /\ \A n \in 1 .. Len(messages[t]) : X[t][n] = Y(t, n)
  <2>1. PICK l \in Nat : l = Len(messages[t]) /\ DOMAIN messages[t] = 1 .. l
    BY <1>1, MessageFacts
  <2>2. X[t] = [n \in 1 .. l |-> Y(t, n)]
    BY <1>3, <2>1
  <2>3. \A n \in 1 .. l : Y(t, n) \in Message
    BY <1>2, <2>1
  <2>4. QED
    BY <2>1, <2>2, <2>3
<1>5. QED
  BY <1>2, <1>3, <1>4

\* Only the message that the worker holds on an open channel is settled.
LEMMA SettledFacts ==
  ASSUME IInv, NEW w \in Worker, job[w] # NoJob, NEW m, NEW X, X = Settled(w, m),
         job[w].live => m \in Message /\ Moved(w, Current(w), m)
  PROVE  /\ X \in [Task -> Seq(Message)]
         /\ \A t \in Task :
              /\ Len(X[t]) = Len(messages[t])
              /\ \A n \in 1 .. Len(messages[t]) :
                   \/ X[t][n] = messages[t][n]
                   \/ Moved(w, messages[t][n], X[t][n]) /\ X[t][n] = m /\ t = job[w].task
<1>1. /\ TypeOK /\ job[w].task \in Task /\ job[w].n \in 1 .. Len(messages[job[w].task])
  <2>1. TypeOK /\ job[w] \in Job /\ job[w].n \in DOMAIN messages[job[w].task]
    BY DEF IInv, TypeOK
  <2>2. job[w].task \in Task
    BY <2>1 DEF Job
  <2>3. QED
    BY <2>1, <2>2, MessageFacts
<1>2. CASE job[w].live
  <2>1. PICK t0 \in Task : t0 = job[w].task
    BY <1>1
  <2>2. PICK n0 \in 1 .. Len(messages[t0]) : n0 = job[w].n
    BY <1>1, <2>1
  <2>3. PICK q : q = [messages[t0] EXCEPT ![n0] = m]
    OBVIOUS
  <2>4. X = [messages EXCEPT ![t0] = q]
    BY <1>2, <2>1, <2>2, <2>3 DEF Settled
  <2>5. /\ q \in Seq(Message) /\ Len(q) = Len(messages[t0]) /\ q[n0] = m
        /\ \A n \in 1 .. Len(messages[t0]) : n # n0 => q[n] = messages[t0][n]
    BY <1>1, <1>2, <2>3, MessageFacts, ExceptSeq
  <2>6. X \in [Task -> Seq(Message)] /\ X[t0] = q /\ \A t \in Task : t # t0 => X[t] = messages[t]
    BY <1>1, <2>4, <2>5 DEF TypeOK
  <2>7. Moved(w, messages[t0][n0], m)
    BY <1>2, <2>1, <2>2 DEF Current
  <2>8. QED
    BY <2>1, <2>5, <2>6, <2>7
<1>3. CASE ~job[w].live
  BY <1>1, <1>3 DEF Settled, TypeOK
<1>4. QED
  BY <1>2, <1>3
-----------------------------------------------------------------------------
(* What a step does to the deliveries of a task *)

\* Messages keep their retries and their deliveries, and executions may end.
LEMMA TaskKept ==
  ASSUME NEW t \in Task, TypeOK, TaskOK(t), messages'[t] \in Seq(Message),
         Len(messages'[t]) = Len(messages[t]),
         \A n \in 1 .. Len(messages[t]) :
            /\ messages'[t][n].retries = messages[t][n].retries
            /\ Delivered(messages'[t][n]) = Delivered(messages[t][n]),
         \A w \in Busy(t)' : w \in Busy(t) /\ job'[w].n = job[w].n,
         runs'[t] = runs[t]
  PROVE  TaskOK(t)'
<1>1. Len(messages[t]) \in Nat /\ (messages'[t] # <<>> => messages[t] # <<>>)
  BY MessageFacts, EmptySeq
<1>2. Deliveries(t)' = Deliveries(t)
  BY DEF Deliveries
<1>3. PICK origin \in [2 .. Len(messages[t]) -> Deliveries(t)] :
        \E busy \in [Busy(t) -> Deliveries(t)] : Traces(t, origin, busy)
  BY DEF TaskOK
<1>4. PICK busy \in [Busy(t) -> Deliveries(t)] : Traces(t, origin, busy)
  BY <1>3
<1>5. PICK rest : rest = [w \in Busy(t)' |-> busy[w]]
  OBVIOUS
<1>6. rest \in [Busy(t)' -> Deliveries(t)] /\ \A w \in Busy(t)' : rest[w] = busy[w]
  BY <1>4, <1>5
<1>7. \A n \in 2 .. Len(messages[t]) :
        n \in 1 .. Len(messages[t]) /\ origin[n][1] \in 1 .. Len(messages[t])
  <2>1. \A d \in Deliveries(t) : d[1] \in 1 .. Len(messages[t])
    BY DEF Deliveries
  <2>2. \A n \in 2 .. Len(messages[t]) : n \in 1 .. Len(messages[t]) /\ origin[n] \in Deliveries(t)
    BY <1>1, <1>3
  <2>3. QED
    BY <2>1, <2>2
<1>8. Traces(t, origin, rest)'
  BY <1>4, <1>6, <1>7 DEF Traces
<1>9. messages'[t] # <<>> => messages'[t][1].retries = 0
  <2>1. SUFFICES ASSUME messages'[t] # <<>> PROVE messages'[t][1].retries = 0
    OBVIOUS
  <2>2. messages[t][1].retries = 0
    BY <1>1, <2>1 DEF TaskOK
  <2>3. 1 \in 1 .. Len(messages[t])
    BY <1>1, <2>1, MessageFacts
  <2>4. QED
    BY <2>2, <2>3
<1>10. IsFiniteSet(Deliveries(t)') /\ runs'[t] <= Cardinality(Deliveries(t)')
  BY <1>2 DEF TaskOK
<1>11. origin \in [2 .. Len(messages'[t]) -> Deliveries(t)'] /\ rest \in [Busy(t)' -> Deliveries(t)']
  BY <1>2, <1>3, <1>6
<1>12. QED
  BY <1>8, <1>9, <1>10, <1>11 DEF TaskOK

LEMMA TaskUnchanged ==
  ASSUME NEW t \in Task, TypeOK, TaskOK(t), UNCHANGED <<messages, job, runs>>
  PROVE  TaskOK(t)'
<1>1. messages'[t] \in Seq(Message) /\ messages'[t] = messages[t] /\ runs'[t] = runs[t]
  BY MessageFacts
<1>2. \A w \in Busy(t)' : w \in Busy(t) /\ job'[w].n = job[w].n
  BY DEF Busy
<1>3. QED
  BY <1>1, <1>2, TaskKept

\* A worker publishes a retry and ends: the retry takes over its delivery.
LEMMA TaskRetried ==
  ASSUME NEW t \in Task, TypeOK, TaskOK(t), messages'[t] \in Seq(Message),
         NEW w \in Busy(t), job[w].n \in 1 .. Len(messages[t]),
         Len(messages'[t]) = Len(messages[t]) + 1,
         \A n \in 1 .. Len(messages[t]) :
            /\ messages'[t][n].retries = messages[t][n].retries
            /\ Delivered(messages'[t][n]) = Delivered(messages[t][n]),
         messages'[t][Len(messages[t]) + 1].retries = messages[t][job[w].n].retries + 1,
         Delivered(messages'[t][Len(messages[t]) + 1]) = 0,
         \A v \in Busy(t)' : v \in Busy(t) /\ v # w /\ job'[v].n = job[v].n,
         runs'[t] = runs[t]
  PROVE  TaskOK(t)'
<1>1. PICK l \in Nat : l = Len(messages[t])
  BY MessageFacts
<1>2. Deliveries(t)' = Deliveries(t)
  <2>1. \A d : d \in Deliveries(t)' => d \in Deliveries(t)
    <3>1. SUFFICES ASSUME NEW d \in Deliveries(t)' PROVE d \in Deliveries(t)
      OBVIOUS
    <3>2. /\ d \in (1 .. l + 1) \X (1 .. DeliveryLimit + 1)
          /\ d[2] <= Delivered(messages'[t][d[1]])
      BY <1>1, <3>1 DEF Deliveries
    <3>3. d[1] # l + 1
      <4>1. SUFFICES ASSUME d[1] = l + 1 PROVE FALSE
        OBVIOUS
      <4>2. d[2] <= 0 /\ d[2] \in 1 .. DeliveryLimit + 1
        BY <1>1, <3>2, <4>1
      <4>3. QED
        BY <4>2, LimitAssumption
    <3>4. d[1] \in 1 .. l /\ d \in (1 .. l) \X (1 .. DeliveryLimit + 1)
      BY <3>2, <3>3
    <3>5. QED
      BY <1>1, <3>2, <3>4 DEF Deliveries
  <2>2. \A d : d \in Deliveries(t) => d \in Deliveries(t)'
    <3>1. SUFFICES ASSUME NEW d \in Deliveries(t) PROVE d \in Deliveries(t)'
      OBVIOUS
    <3>2. /\ d \in (1 .. l) \X (1 .. DeliveryLimit + 1)
          /\ d[2] <= Delivered(messages[t][d[1]])
      BY <1>1, <3>1 DEF Deliveries
    <3>3. d \in (1 .. l + 1) \X (1 .. DeliveryLimit + 1) /\ d[1] \in 1 .. l
      BY <3>2
    <3>4. QED
      BY <1>1, <3>2, <3>3 DEF Deliveries
  <2>3. QED
    BY <2>1, <2>2
<1>3. PICK origin \in [2 .. l -> Deliveries(t)] :
        \E busy \in [Busy(t) -> Deliveries(t)] : Traces(t, origin, busy)
  BY <1>1 DEF TaskOK
<1>4. PICK busy \in [Busy(t) -> Deliveries(t)] : Traces(t, origin, busy)
  BY <1>3
<1>5. PICK rest : rest = [v \in Busy(t)' |-> busy[v]]
  OBVIOUS
<1>6. rest \in [Busy(t)' -> Deliveries(t)] /\ \A v \in Busy(t)' : rest[v] = busy[v]
  BY <1>4, <1>5
<1>7. PICK more : more = [n \in 2 .. l + 1 |-> IF n = l + 1 THEN busy[w] ELSE origin[n]]
  OBVIOUS
<1>8. 1 \in 1 .. l /\ l + 1 \in 2 .. l + 1
  BY <1>1
<1>9. \A n \in 2 .. l + 1 : n = l + 1 \/ n \in 2 .. l
  OBVIOUS
<1>10. busy[w] \in Deliveries(t) /\ \A n \in 2 .. l : origin[n] \in Deliveries(t)
  BY <1>3, <1>4
<1>11. /\ more \in [2 .. l + 1 -> Deliveries(t)]
       /\ more[l + 1] = busy[w] /\ \A n \in 2 .. l : more[n] = origin[n]
  <2>1. \A n \in 2 .. l + 1 : (IF n = l + 1 THEN busy[w] ELSE origin[n]) \in Deliveries(t)
    BY <1>9, <1>10
  <2>2. \A n \in 2 .. l : n \in 2 .. l + 1 /\ n # l + 1
    OBVIOUS
  <2>3. QED
    BY <1>7, <1>8, <2>1, <2>2
<1>12. \A d \in Deliveries(t) : d[1] \in 1 .. l
  BY <1>1 DEF Deliveries
<1>13. Traces(t, more, rest)'
  <2>1. \A n \in 2 .. l + 1 : messages'[t][n].retries = messages'[t][more[n][1]].retries + 1
    <3>1. TAKE n \in 2 .. l + 1
    <3>2. CASE n = l + 1
      <4>1. more[n] = busy[w] /\ busy[w][1] = job[w].n
        BY <1>4, <1>11, <3>2 DEF Traces
      <4>2. QED
        BY <1>1, <3>2, <4>1
    <3>3. CASE n \in 2 .. l
      <4>1. /\ more[n] = origin[n] /\ origin[n][1] \in 1 .. l /\ n \in 1 .. l
            /\ messages[t][n].retries = messages[t][origin[n][1]].retries + 1
        BY <1>1, <1>4, <1>10, <1>11, <1>12, <3>3 DEF Traces
      <4>2. QED
        BY <1>1, <4>1
    <3>4. QED
      BY <1>9, <3>2, <3>3
  <2>2. \A n, o \in 2 .. l + 1 : more[n] = more[o] => n = o
    BY <1>1, <1>4, <1>9, <1>11 DEF Traces
  <2>3. \A v \in Busy(t)' :
          /\ rest[v][1] = job'[v].n
          /\ \A n \in 2 .. l + 1 : more[n] # rest[v]
    <3>1. TAKE v \in Busy(t)'
    <3>2. v \in Busy(t) /\ v # w /\ rest[v] = busy[v] /\ job'[v].n = job[v].n
      BY <1>6
    <3>3. busy[v] # busy[w] /\ busy[v][1] = job[v].n /\ \A n \in 2 .. l : origin[n] # busy[v]
      BY <1>1, <1>4, <3>2 DEF Traces
    <3>4. QED
      BY <1>9, <1>11, <3>2, <3>3
  <2>4. \A v, u \in Busy(t)' : rest[v] = rest[u] => v = u
    BY <1>4, <1>6 DEF Traces
  <2>5. QED
    BY <1>1, <2>1, <2>2, <2>3, <2>4 DEF Traces
<1>14. messages'[t][1].retries = 0
  <2>1. messages[t] # <<>>
    BY <1>1, <1>8, MessageFacts
  <2>2. QED
    BY <1>1, <1>8, <2>1 DEF TaskOK
<1>15. IsFiniteSet(Deliveries(t)') /\ runs'[t] <= Cardinality(Deliveries(t)')
  BY <1>2 DEF TaskOK
<1>16. more \in [2 .. Len(messages'[t]) -> Deliveries(t)'] /\ rest \in [Busy(t)' -> Deliveries(t)']
  BY <1>1, <1>2, <1>6, <1>11
<1>17. QED
  BY <1>13, <1>14, <1>15, <1>16 DEF TaskOK

\* A message is delivered to an idle worker: a delivery that no retry and no
\* execution goes back to yet.
LEMMA TaskDelivered ==
  ASSUME NEW t \in Task, TypeOK, TaskOK(t), messages'[t] \in Seq(Message),
         NEW w \in Worker, w \notin Busy(t), NEW k \in 1 .. Len(messages[t]),
         Len(messages'[t]) = Len(messages[t]),
         \A n \in 1 .. Len(messages[t]) :
            /\ messages'[t][n].retries = messages[t][n].retries
            /\ n # k => Delivered(messages'[t][n]) = Delivered(messages[t][n]),
         Delivered(messages[t][k]) \in 0 .. DeliveryLimit,
         Delivered(messages'[t][k]) = Delivered(messages[t][k]) + 1,
         job'[w].n = k,
         \A v \in Busy(t)' : v # w => v \in Busy(t) /\ job'[v].n = job[v].n,
         runs'[t] <= runs[t] + 1, runs'[t] \in Nat
  PROVE  TaskOK(t)'
<1>1. PICK l \in Nat : l = Len(messages[t])
  BY MessageFacts
<1>2. PICK new : new = <<k, Delivered(messages[t][k]) + 1>>
  OBVIOUS
<1>3. /\ new \in (1 .. l) \X (1 .. DeliveryLimit + 1) /\ new[1] = k /\ new \notin Deliveries(t)
      /\ new[2] = Delivered(messages[t][k]) + 1
  BY <1>1, <1>2, LimitAssumption DEF Deliveries
<1>4. Deliveries(t)' = Deliveries(t) \cup {new}
  <2>1. ASSUME NEW d \in (1 .. l) \X (1 .. DeliveryLimit + 1), d[1] # k
        PROVE  d \in Deliveries(t)' <=> d \in Deliveries(t)
    <3>1. d[1] \in 1 .. l
      BY <2>1
    <3>2. QED
      BY <1>1, <2>1, <3>1 DEF Deliveries
  <2>2. ASSUME NEW d \in (1 .. l) \X (1 .. DeliveryLimit + 1), d[1] = k
        PROVE  d \in Deliveries(t)' <=> d \in Deliveries(t) \/ d = new
    <3>1. d[2] \in 1 .. DeliveryLimit + 1 /\ d = <<k, d[2]>>
      BY <2>2
    <3>2. d[2] <= Delivered(messages[t][k]) + 1 <=>
            d[2] <= Delivered(messages[t][k]) \/ d[2] = Delivered(messages[t][k]) + 1
      BY <3>1, LimitAssumption
    <3>3. d = new <=> d[2] = Delivered(messages[t][k]) + 1
      BY <1>2, <3>1
    <3>4. QED
      BY <1>1, <2>2, <3>2, <3>3 DEF Deliveries
  <2>3. Deliveries(t) \subseteq (1 .. l) \X (1 .. DeliveryLimit + 1)
        /\ Deliveries(t)' \subseteq (1 .. l) \X (1 .. DeliveryLimit + 1)
    BY <1>1 DEF Deliveries
  <2>4. QED
    BY <1>3, <2>1, <2>2, <2>3
<1>5. PICK origin \in [2 .. l -> Deliveries(t)] :
        \E busy \in [Busy(t) -> Deliveries(t)] : Traces(t, origin, busy)
  BY <1>1 DEF TaskOK
<1>6. PICK busy \in [Busy(t) -> Deliveries(t)] : Traces(t, origin, busy)
  BY <1>5
<1>7. PICK more : more = [v \in Busy(t)' |-> IF v = w THEN new ELSE busy[v]]
  OBVIOUS
<1>8. /\ more \in [Busy(t)' -> Deliveries(t)']
      /\ \A v \in Busy(t)' : IF v = w THEN more[v] = new ELSE more[v] = busy[v]
  BY <1>4, <1>6, <1>7
<1>9. \A n \in 2 .. l : n \in 1 .. l /\ origin[n][1] \in 1 .. l /\ origin[n] \in Deliveries(t)
  <2>1. \A d \in Deliveries(t) : d[1] \in 1 .. l
    BY <1>1 DEF Deliveries
  <2>2. \A n \in 2 .. l : n \in 1 .. l /\ origin[n] \in Deliveries(t)
    BY <1>5
  <2>3. QED
    BY <2>1, <2>2
<1>10. Traces(t, origin, more)'
  <2>1. \A n \in 2 .. l : messages'[t][n].retries = messages'[t][origin[n][1]].retries + 1
    BY <1>1, <1>6, <1>9 DEF Traces
  <2>2. \A n, o \in 2 .. l : origin[n] = origin[o] => n = o
    BY <1>1, <1>6 DEF Traces
  <2>3. \A v \in Busy(t)' :
          /\ more[v][1] = job'[v].n
          /\ \A n \in 2 .. l : origin[n] # more[v]
    <3>1. TAKE v \in Busy(t)'
    <3>2. CASE v = w
      BY <1>3, <1>8, <1>9, <3>2
    <3>3. CASE v # w
      <4>1. v \in Busy(t) /\ more[v] = busy[v] /\ job'[v].n = job[v].n
        BY <1>8, <3>3
      <4>2. QED
        BY <1>1, <1>6, <4>1 DEF Traces
    <3>4. QED
      BY <3>2, <3>3
  <2>4. \A v, u \in Busy(t)' : more[v] = more[u] => v = u
    <3>1. TAKE v, u \in Busy(t)'
    <3>2. /\ v # w => v \in Busy(t) /\ more[v] = busy[v] /\ busy[v] \in Deliveries(t)
          /\ u # w => u \in Busy(t) /\ more[u] = busy[u] /\ busy[u] \in Deliveries(t)
          /\ v = w => more[v] = new
          /\ u = w => more[u] = new
      BY <1>6, <1>8
    <3>3. v # w /\ u # w => (busy[v] = busy[u] => v = u)
      BY <1>6, <3>2 DEF Traces
    <3>4. QED
      BY <1>3, <3>2, <3>3
  <2>5. QED
    BY <1>1, <2>1, <2>2, <2>3, <2>4 DEF Traces
<1>11. messages'[t][1].retries = 0
  <2>1. messages[t] # <<>> /\ 1 \in 1 .. l
    BY <1>1, MessageFacts
  <2>2. QED
    BY <1>1, <2>1 DEF TaskOK
<1>12. IsFiniteSet(Deliveries(t)') /\ runs'[t] <= Cardinality(Deliveries(t)')
  <2>1. IsFiniteSet(Deliveries(t)) /\ runs[t] <= Cardinality(Deliveries(t))
    BY DEF TaskOK
  <2>2. Cardinality(Deliveries(t)) \in Nat /\ runs[t] \in Nat
    BY <2>1, FS_CardinalityType, MaxRunsType DEF TypeOK
  <2>3. /\ IsFiniteSet(Deliveries(t) \cup {new})
        /\ Cardinality(Deliveries(t) \cup {new}) = Cardinality(Deliveries(t)) + 1
    BY <1>3, <2>1, FS_AddElement
  <2>4. QED
    BY <1>4, <2>1, <2>2, <2>3
<1>13. origin \in [2 .. Len(messages'[t]) -> Deliveries(t)']
  BY <1>1, <1>4, <1>5
<1>14. QED
  BY <1>8, <1>10, <1>11, <1>12, <1>13 DEF TaskOK
-----------------------------------------------------------------------------
(* The actions *)

LEMMA InitIInv == Init => IInv
<1>1. SUFFICES ASSUME Init PROVE IInv
  OBVIOUS
<1>2. \A t \in Task : messages[t] = <<>> /\ Len(messages[t]) = 0 /\ runs[t] = 0
  BY <1>1 DEF Init
<1>3. \A w \in Worker : job[w] = NoJob /\ phase[w] = "down"
  BY <1>1 DEF Init
<1>4. TypeOK /\ JobsOK
  <2>1. 0 \in 0 .. MaxRuns + 1 /\ <<>> \in Seq(Message)
    BY MaxRunsType
  <2>2. QED
    BY <1>1, <1>3, <2>1 DEF Init, TypeOK, JobsOK
<1>5. DeadLettersKept /\ NoTaskDisappears
  BY <1>2, <1>3 DEF DeadLettersKept, NoTaskDisappears
<1>6. ASSUME NEW t \in Task PROVE TaskOK(t)
  <2>1. Deliveries(t) = {}
    BY <1>2 DEF Deliveries
  <2>2. IsFiniteSet(Deliveries(t)) /\ Cardinality(Deliveries(t)) = 0
    BY <2>1, FS_EmptySet
  <2>3. Busy(t) = {} /\ 2 .. Len(messages[t]) = {}
    BY <1>2, <1>3 DEF Busy
  <2>4. PICK none : none = [x \in {} |-> <<>>]
    OBVIOUS
  <2>5. none \in [2 .. Len(messages[t]) -> Deliveries(t)] /\ none \in [Busy(t) -> Deliveries(t)]
    BY <2>3, <2>4
  <2>6. Traces(t, none, none)
    BY <2>3 DEF Traces
  <2>7. QED
    BY <1>2, <2>2, <2>5, <2>6 DEF TaskOK
<1>7. QED
  BY <1>4, <1>5, <1>6 DEF IInv

\* A step of w that settles messages it holds, and may publish others.
LEMMA StateAfter ==
  ASSUME IInv, NEW w \in Worker, messages' \in [Task -> Seq(Message)],
         \A t \in Task :
            /\ Len(messages'[t]) >= Len(messages[t])
            /\ \A n \in 1 .. Len(messages[t]) :
                  messages'[t][n] = messages[t][n] \/ Moved(w, messages[t][n], messages'[t][n])
            /\ \A n \in 1 .. Len(messages'[t]) :
                  n \in 1 .. Len(messages[t]) \/ messages'[t][n].at = "queue"
            /\ \/ t \in handled'
               \/ \E n \in 1 .. Len(messages'[t]) : messages'[t][n].at = "queue"
               \/ /\ Len(messages'[t]) = Len(messages[t])
                  /\ \A n \in 1 .. Len(messages[t]) :
                        messages'[t][n] = messages[t][n] \/ messages'[t][n].at \in {"queue", "dead"},
         phase' \in [Worker -> {"down", "declaring", "up"}], phase'[w] \in {phase[w], "down"},
         job' \in [Worker -> Job \cup {NoJob}],
         \A v \in Worker \ {w} : job'[v] = job[v] /\ phase'[v] = phase[v],
         job'[w] # NoJob =>
            /\ phase'[w] = phase[w] /\ job[w] # NoJob
            /\ job'[w].task = job[w].task /\ job'[w].n = job[w].n
            /\ ~job'[w].live /\ messages'[job[w].task][job[w].n].at # w,
         dlq' = dlq, runs' = runs, handled \subseteq handled', handled' \subseteq Task
  PROVE  TypeOK' /\ JobsOK' /\ DeadLettersKept' /\ NoTaskDisappears'
<1>1. TypeOK /\ DeadLettersKept /\ NoTaskDisappears
  BY DEF IInv
<1>2. \A t \in Task :
        /\ Len(messages[t]) \in Nat /\ Len(messages'[t]) \in Nat
        /\ DOMAIN messages[t] = 1 .. Len(messages[t]) /\ DOMAIN messages'[t] = 1 .. Len(messages'[t])
        /\ \A n \in 1 .. Len(messages[t]) : n \in 1 .. Len(messages'[t])
        /\ (messages[t] = <<>> <=> Len(messages[t]) = 0)
        /\ (messages'[t] = <<>> <=> Len(messages'[t]) = 0)
  <2>1. TAKE t \in Task
  <2>2. messages'[t] \in Seq(Message)
    OBVIOUS
  <2>3. Len(messages'[t]) \in Nat /\ DOMAIN messages'[t] = 1 .. Len(messages'[t])
        /\ (messages'[t] = <<>> <=> Len(messages'[t]) = 0)
    BY <2>2, LenProperties, EmptySeq
  <2>4. QED
    BY <1>1, <2>3, MessageFacts
<1>3. \A m, x : Moved(w, m, x) => m.at = w /\ x.at \notin Worker
  BY LimitAssumption DEF Moved
<1>4. ASSUME NEW v \in Worker, job'[v] # NoJob
      PROVE  /\ phase'[v] = "up" /\ job'[v] \in Job
             /\ job'[v].n \in DOMAIN messages'[job'[v].task]
             /\ job'[v].live <=> messages'[job'[v].task][job'[v].n].at = v
  <2>1. /\ phase'[v] = phase[v] /\ job[v] # NoJob
        /\ job'[v].task = job[v].task /\ job'[v].n = job[v].n
    BY <1>4
  <2>2. PICK t \in Task : t = job[v].task
    BY <1>1, <2>1 DEF TypeOK, Job
  <2>3. PICK n \in 1 .. Len(messages[t]) : n = job[v].n
    BY <1>1, <1>2, <2>1, <2>2 DEF TypeOK
  <2>4. phase[v] = "up" /\ (job[v].live <=> messages[t][n].at = v)
    BY <1>1, <2>1, <2>2, <2>3 DEF TypeOK
  <2>5. job'[v].live <=> messages'[t][n].at = v
    <3>1. CASE v = w
      BY <1>4, <2>2, <2>3, <3>1
    <3>2. CASE v # w
      BY <1>3, <2>4, <3>2
    <3>3. QED
      BY <3>1, <3>2
  <2>6. job'[v] \in Job /\ n \in DOMAIN messages'[t]
    BY <1>2, <1>4
  <2>7. QED
    BY <2>1, <2>2, <2>3, <2>4, <2>5, <2>6
<1>5. TypeOK'
  BY <1>1, <1>4 DEF TypeOK
<1>6. JobsOK'
  BY DEF JobsOK
<1>7. DeadLettersKept'
  <2>1. \A v \in Worker : phase'[v] = "up" => dlq'
    BY <1>1 DEF DeadLettersKept
  <2>2. ASSUME NEW t \in Task, NEW n \in 1 .. Len(messages'[t]), messages'[t][n].at \in Worker
        PROVE  dlq'
    <3>1. messages'[t][n].at # "queue"
      BY <2>2, LimitAssumption
    <3>2. n \in 1 .. Len(messages[t]) /\ messages'[t][n] = messages[t][n]
      BY <1>3, <2>2, <3>1
    <3>3. QED
      BY <1>1, <2>2, <3>2 DEF DeadLettersKept
  <2>3. QED
    BY <2>1, <2>2 DEF DeadLettersKept
<1>8. NoTaskDisappears'
  <2>1. SUFFICES ASSUME NEW t \in Task, messages'[t] # <<>>, t \notin handled'
                 PROVE  \E n \in DOMAIN messages'[t] :
                          messages'[t][n].at \in Worker \cup {"queue", "dead"}
    BY DEF NoTaskDisappears
  <2>2. CASE \E n \in 1 .. Len(messages'[t]) : messages'[t][n].at = "queue"
    BY <1>2, <2>2
  <2>3. CASE /\ Len(messages'[t]) = Len(messages[t])
             /\ \A n \in 1 .. Len(messages[t]) :
                  messages'[t][n] = messages[t][n] \/ messages'[t][n].at \in {"queue", "dead"}
    <3>1. messages[t] # <<>> /\ t \notin handled
      BY <1>2, <2>1, <2>3
    <3>2. PICK n \in 1 .. Len(messages[t]) : messages[t][n].at \in Worker \cup {"queue", "dead"}
      BY <1>1, <1>2, <3>1 DEF NoTaskDisappears
    <3>3. QED
      BY <1>2, <2>3, <3>2
  <2>4. QED
    BY <2>1, <2>2, <2>3
<1>9. QED
  BY <1>5, <1>6, <1>7, <1>8

\* The same without a new message.
LEMMA SettleIInv ==
  ASSUME IInv, NEW w \in Worker, messages' \in [Task -> Seq(Message)],
         \A t \in Task :
            /\ Len(messages'[t]) = Len(messages[t])
            /\ \A n \in 1 .. Len(messages[t]) :
                  \/ messages'[t][n] = messages[t][n]
                  \/ /\ Moved(w, messages[t][n], messages'[t][n])
                     /\ t \in handled' \/ messages'[t][n].at \in {"queue", "dead"},
         phase' \in [Worker -> {"down", "declaring", "up"}], phase'[w] \in {phase[w], "down"},
         job' \in [Worker -> Job \cup {NoJob}],
         \A v \in Worker \ {w} : job'[v] = job[v] /\ phase'[v] = phase[v],
         job'[w] # NoJob =>
            /\ phase'[w] = phase[w] /\ job[w] # NoJob
            /\ job'[w].task = job[w].task /\ job'[w].n = job[w].n
            /\ ~job'[w].live /\ messages'[job[w].task][job[w].n].at # w,
         dlq' = dlq, runs' = runs, handled \subseteq handled', handled' \subseteq Task
  PROVE  IInv'
<1>1. \A t \in Task :
        /\ Len(messages'[t]) >= Len(messages[t])
        /\ \A n \in 1 .. Len(messages[t]) :
              messages'[t][n] = messages[t][n] \/ Moved(w, messages[t][n], messages'[t][n])
        /\ \A n \in 1 .. Len(messages'[t]) :
              n \in 1 .. Len(messages[t]) \/ messages'[t][n].at = "queue"
        /\ \/ t \in handled'
           \/ \E n \in 1 .. Len(messages'[t]) : messages'[t][n].at = "queue"
           \/ /\ Len(messages'[t]) = Len(messages[t])
              /\ \A n \in 1 .. Len(messages[t]) :
                    messages'[t][n] = messages[t][n] \/ messages'[t][n].at \in {"queue", "dead"}
  <2>1. \A t \in Task : Len(messages[t]) \in Nat
    BY MessageFacts DEF IInv
  <2>2. QED
    BY <2>1
<1>2. TypeOK' /\ JobsOK' /\ DeadLettersKept' /\ NoTaskDisappears'
  BY <1>1, StateAfter
<1>3. ASSUME NEW t \in Task PROVE TaskOK(t)'
  <2>1. TypeOK /\ TaskOK(t)
    BY DEF IInv
  <2>2. \A n \in 1 .. Len(messages[t]) :
          /\ messages'[t][n].retries = messages[t][n].retries
          /\ Delivered(messages'[t][n]) = Delivered(messages[t][n])
    BY DEF Moved
  <2>3. \A v \in Busy(t)' : v \in Busy(t) /\ job'[v].n = job[v].n
    BY DEF Busy
  <2>4. messages'[t] \in Seq(Message) /\ Len(messages'[t]) = Len(messages[t]) /\ runs'[t] = runs[t]
    OBVIOUS
  <2>5. QED
    BY <2>1, <2>2, <2>3, <2>4, TaskKept
<1>4. QED
  BY <1>2, <1>3 DEF IInv

\* What a worker that executes something holds.
LEMMA ExecutionFacts ==
  ASSUME IInv, NEW w \in Worker, job[w] # NoJob
  PROVE  /\ job[w] \in Job /\ job[w].task \in Task /\ phase[w] = "up" /\ dlq
         /\ job[w].n \in 1 .. Len(messages[job[w].task]) /\ Current(w) \in Message
         /\ job[w].live <=> Current(w).at = w
<1>1. /\ TypeOK /\ job[w] \in Job /\ phase[w] = "up" /\ dlq
      /\ job[w].n \in DOMAIN messages[job[w].task]
      /\ job[w].live <=> Current(w).at = w
  BY DEF IInv, TypeOK, DeadLettersKept, Current
<1>2. job[w].task \in Task
  BY <1>1 DEF Job
<1>3. job[w].n \in 1 .. Len(messages[job[w].task])
  BY <1>1, <1>2, MessageFacts
<1>4. QED
  BY <1>1, <1>2, <1>3, MessageFacts DEF Current

LEMMA JobCleared ==
  ASSUME IInv, NEW w \in Worker, job' = [job EXCEPT ![w] = NoJob]
  PROVE  /\ job' \in [Worker -> Job \cup {NoJob}] /\ job'[w] = NoJob
         /\ \A v \in Worker \ {w} : job'[v] = job[v]
BY DEF IInv, JobsOK
\* The messages of the worker come back and its execution ends, or goes on
\* without its channel.
LEMMA FailureIInv ==
  ASSUME IInv, NEW w \in Worker, Crash(w) \/ ConnectionLost(w)
  PROVE  IInv'
<1>1. TypeOK /\ JobsOK /\ messages' = ReturnedBy(w) /\ UNCHANGED <<dlq, handled, runs>> /\ handled \subseteq Task
  BY DEF IInv, TypeOK, Crash, ConnectionLost
<1>2. /\ messages' \in [Task -> Seq(Message)]
      /\ \A t \in Task :
           /\ Len(messages'[t]) = Len(messages[t])
           /\ \A n \in 1 .. Len(messages[t]) :
                \/ messages'[t][n] = messages[t][n] /\ messages[t][n].at # w
                \/ Moved(w, messages[t][n], messages'[t][n]) /\ messages'[t][n].at \in {"queue", "dead"}
  BY <1>1, ReturnedByFacts
<1>3. CASE Crash(w)
  <2>1. /\ phase' \in [Worker -> {"down", "declaring", "up"}] /\ phase'[w] = "down"
        /\ \A v \in Worker \ {w} : phase'[v] = phase[v]
    BY <1>1, <1>3 DEF TypeOK, Crash
  <2>2. /\ job' \in [Worker -> Job \cup {NoJob}] /\ job'[w] = NoJob
        /\ \A v \in Worker \ {w} : job'[v] = job[v]
    BY <1>3, JobCleared DEF Crash
  <2>3. QED
    BY <1>1, <1>2, <2>1, <2>2, SettleIInv
<1>4. CASE ConnectionLost(w)
  <2>1. /\ job[w] # NoJob /\ job[w] \in Job /\ job[w].task \in Task
        /\ job[w].n \in 1 .. Len(messages[job[w].task])
    BY <1>4, ExecutionFacts DEF ConnectionLost
  <2>2. PICK x : x = [job[w] EXCEPT !.live = FALSE]
    OBVIOUS
  <2>3. x \in Job /\ x.task = job[w].task /\ x.n = job[w].n /\ ~x.live
    BY <2>1, <2>2 DEF Job
  <2>4. job' = [job EXCEPT ![w] = x]
    BY <1>4, <2>2 DEF ConnectionLost
  <2>5. /\ job' \in [Worker -> Job \cup {NoJob}] /\ job'[w] = x
        /\ \A v \in Worker \ {w} : job'[v] = job[v]
    BY <1>1, <2>3, <2>4 DEF JobsOK
  <2>6. messages'[job[w].task][job[w].n].at # w
    BY <1>2, <2>1, LimitAssumption DEF Moved
  <2>7. /\ phase' = phase /\ phase \in [Worker -> {"down", "declaring", "up"}]
    BY <1>1, <1>4 DEF TypeOK, ConnectionLost
  <2>8. QED
    BY <1>1, <1>2, <2>1, <2>3, <2>5, <2>6, <2>7, SettleIInv
<1>5. QED
  BY <1>3, <1>4

\* An execution ends without a retry.
LEMMA EndIInv ==
  ASSUME IInv, NEW w \in Worker, Succeed(w) \/ Fail(w) \/ PoolProcessLost(w) \/ CancelStale(w)
  PROVE  IInv'
<1>1. /\ TypeOK /\ job[w] # NoJob /\ UNCHANGED <<phase, dlq, runs>>
      /\ job' = [job EXCEPT ![w] = NoJob]
      /\ phase \in [Worker -> {"down", "declaring", "up"}]
  BY DEF IInv, TypeOK, Succeed, Fail, PoolProcessLost, CancelStale
<1>2. /\ job[w].task \in Task /\ dlq /\ Current(w) \in Message
      /\ job[w].live => Current(w).at = w
  BY <1>1, ExecutionFacts
<1>3. /\ job' \in [Worker -> Job \cup {NoJob}] /\ job'[w] = NoJob
      /\ \A v \in Worker \ {w} : job'[v] = job[v]
  BY <1>1, JobCleared
<1>4. handled \subseteq handled' /\ handled' \subseteq Task
  BY <1>1, <1>2 DEF TypeOK, Succeed, Fail, PoolProcessLost, CancelStale
<1>5. /\ messages' \in [Task -> Seq(Message)]
      /\ \A t \in Task :
           /\ Len(messages'[t]) = Len(messages[t])
           /\ \A n \in 1 .. Len(messages[t]) :
                \/ messages'[t][n] = messages[t][n]
                \/ /\ Moved(w, messages[t][n], messages'[t][n])
                   /\ t \in handled' \/ messages'[t][n].at \in {"queue", "dead"}
  <2>1. CASE CancelStale(w)
    BY <1>1, <2>1 DEF TypeOK, CancelStale
  <2>2. CASE Succeed(w)
    <3>1. job[w].live => Acked(Current(w)) \in Message /\ Moved(w, Current(w), Acked(Current(w)))
      BY <1>2, AckedMoves
    <3>2. messages' = Settled(w, Acked(Current(w))) /\ job[w].task \in handled'
      BY <2>2 DEF Succeed
    <3>3. QED
      BY <1>1, <3>1, <3>2, SettledFacts
  <2>3. CASE Fail(w)
    <3>1. job[w].live => /\ DeadLettered(Current(w)) \in Message
                         /\ Moved(w, Current(w), DeadLettered(Current(w)))
                         /\ DeadLettered(Current(w)).at = "dead"
      BY <1>2, DeadLetteredMoves
    <3>2. messages' = Settled(w, DeadLettered(Current(w)))
      BY <2>3 DEF Fail, SettledByFailure
    <3>3. CASE job[w].live
      BY <1>1, <3>1, <3>2, <3>3, SettledFacts
    <3>4. CASE ~job[w].live
      BY <1>1, <3>2, <3>4 DEF Settled, TypeOK
    <3>5. QED
      BY <3>3, <3>4
  <2>4. CASE PoolProcessLost(w)
    <3>1. job[w].live => /\ Returned(Current(w)) \in Message
                         /\ Moved(w, Current(w), Returned(Current(w)))
                         /\ Returned(Current(w)).at \in {"queue", "dead"}
      BY <1>2, ReturnedMoves
    <3>2. messages' = Settled(w, Returned(Current(w)))
      BY <2>4 DEF PoolProcessLost
    <3>3. CASE job[w].live
      BY <1>1, <3>1, <3>2, <3>3, SettledFacts
    <3>4. CASE ~job[w].live
      BY <1>1, <3>2, <3>4 DEF Settled, TypeOK
    <3>5. QED
      BY <3>3, <3>4
  <2>5. QED
    BY <2>1, <2>2, <2>3, <2>4
<1>6. QED
  BY <1>1, <1>3, <1>4, <1>5, SettleIInv

\* A retry is published, and the message it replaces is acknowledged or
\* comes back.
LEMMA PublishRetryIInv ==
  ASSUME IInv, NEW w \in Worker, PublishRetry(w)
  PROVE  IInv'
<1>1. /\ TypeOK /\ job[w] # NoJob /\ Current(w).retries < MaxRetries
      /\ UNCHANGED <<dlq, handled, runs>> /\ handled \subseteq Task
      /\ job' = [job EXCEPT ![w] = NoJob]
  BY DEF IInv, TypeOK, PublishRetry, MayRetry
<1>2. /\ job[w].task \in Task /\ dlq /\ Current(w) \in Message
      /\ job[w].live => Current(w).at = w
      /\ job[w].n \in 1 .. Len(messages[job[w].task])
  BY <1>1, ExecutionFacts
<1>3. /\ job' \in [Worker -> Job \cup {NoJob}] /\ job'[w] = NoJob
      /\ \A v \in Worker \ {w} : job'[v] = job[v]
  BY <1>1, JobCleared
<1>4. PICK t0 \in Task : t0 = job[w].task
  BY <1>2
<1>5. PICK retry : retry = [retries |-> Current(w).retries + 1, returns |-> 0, at |-> "queue"]
  OBVIOUS
<1>6. /\ retry \in Message /\ retry.at = "queue" /\ Delivered(retry) = 0
      /\ retry.retries = Current(w).retries + 1
  <2>1. Current(w).retries + 1 \in 0 .. MaxRetries /\ 0 \in 0 .. DeliveryLimit /\ "queue" \in Place
    BY <1>1, <1>2, LimitAssumption DEF Message, Place
  <2>2. QED
    BY <1>5, <2>1 DEF Message, Delivered
<1>7. PICK X :
        /\ messages' = [X EXCEPT ![t0] = Append(X[t0], retry)]
        /\ X \in [Task -> Seq(Message)]
        /\ \A t \in Task :
             /\ Len(X[t]) = Len(messages[t])
             /\ \A n \in 1 .. Len(messages[t]) :
                  \/ X[t][n] = messages[t][n]
                  \/ /\ Moved(w, messages[t][n], X[t][n])
                     /\ t = t0 \/ X[t][n].at \in {"queue", "dead"}
  <2>1. CASE messages' = [Settled(w, Acked(Current(w))) EXCEPT ![t0] = Append(@, retry)]
    <3>1. job[w].live => Acked(Current(w)) \in Message /\ Moved(w, Current(w), Acked(Current(w)))
      BY <1>2, AckedMoves
    <3>2. PICK X : X = Settled(w, Acked(Current(w)))
      OBVIOUS
    <3>3. messages' = [X EXCEPT ![t0] = Append(X[t0], retry)]
      BY <2>1, <3>2
    <3>4. /\ X \in [Task -> Seq(Message)]
          /\ \A t \in Task :
               /\ Len(X[t]) = Len(messages[t])
               /\ \A n \in 1 .. Len(messages[t]) :
                    \/ X[t][n] = messages[t][n]
                    \/ /\ Moved(w, messages[t][n], X[t][n])
                       /\ t = t0 \/ X[t][n].at \in {"queue", "dead"}
      BY <1>1, <1>4, <3>1, <3>2, SettledFacts
    <3>5. QED
      BY <3>3, <3>4
  <2>2. CASE messages' = [ReturnedBy(w) EXCEPT ![t0] = Append(@, retry)]
    <3>1. PICK X : X = ReturnedBy(w)
      OBVIOUS
    <3>2. messages' = [X EXCEPT ![t0] = Append(X[t0], retry)]
      BY <2>2, <3>1
    <3>3. /\ X \in [Task -> Seq(Message)]
          /\ \A t \in Task :
               /\ Len(X[t]) = Len(messages[t])
               /\ \A n \in 1 .. Len(messages[t]) :
                    \/ X[t][n] = messages[t][n]
                    \/ /\ Moved(w, messages[t][n], X[t][n])
                       /\ t = t0 \/ X[t][n].at \in {"queue", "dead"}
      BY <3>1, ReturnedByFacts
    <3>4. QED
      BY <3>2, <3>3
  <2>3. QED
    BY <1>4, <1>5, <2>1, <2>2 DEF PublishRetry
<1>8. PICK l \in Nat : l = Len(messages[t0])
  BY <1>1, MessageFacts
<1>9. /\ Append(X[t0], retry) \in Seq(Message) /\ Len(Append(X[t0], retry)) = l + 1
      /\ Append(X[t0], retry)[l + 1] = retry
      /\ \A n \in 1 .. l : Append(X[t0], retry)[n] = X[t0][n]
  BY <1>6, <1>7, <1>8, AppendProperties
<1>10. /\ messages' \in [Task -> Seq(Message)] /\ messages'[t0] = Append(X[t0], retry)
       /\ \A t \in Task : t # t0 => messages'[t] = X[t]
  BY <1>7, <1>9
<1>11. /\ Len(messages'[t0]) = l + 1 /\ messages'[t0][l + 1] = retry
       /\ \A n \in 1 .. l : messages'[t0][n] = X[t0][n]
  BY <1>9, <1>10
<1>12. l + 1 \in 1 .. l + 1 /\ \A n \in 1 .. l + 1 : n \in 1 .. l \/ n = l + 1
  OBVIOUS
<1>13. /\ phase' \in [Worker -> {"down", "declaring", "up"}] /\ phase'[w] \in {phase[w], "down"}
       /\ \A v \in Worker \ {w} : phase'[v] = phase[v]
  BY <1>1 DEF TypeOK, PublishRetry
<1>14. ASSUME NEW t \in Task
       PROVE  /\ Len(messages'[t]) >= Len(messages[t])
              /\ \A n \in 1 .. Len(messages[t]) :
                   messages'[t][n] = messages[t][n] \/ Moved(w, messages[t][n], messages'[t][n])
              /\ \A n \in 1 .. Len(messages'[t]) :
                   n \in 1 .. Len(messages[t]) \/ messages'[t][n].at = "queue"
              /\ \/ t \in handled'
                 \/ \E n \in 1 .. Len(messages'[t]) : messages'[t][n].at = "queue"
                 \/ /\ Len(messages'[t]) = Len(messages[t])
                    /\ \A n \in 1 .. Len(messages[t]) :
                         messages'[t][n] = messages[t][n] \/ messages'[t][n].at \in {"queue", "dead"}
  <2>1. CASE t = t0
    <3>1. Len(messages'[t]) >= Len(messages[t])
      BY <1>8, <1>11, <2>1
    <3>2. \A n \in 1 .. Len(messages[t]) :
            messages'[t][n] = messages[t][n] \/ Moved(w, messages[t][n], messages'[t][n])
      BY <1>7, <1>8, <1>11, <2>1
    <3>3. \A n \in 1 .. Len(messages'[t]) :
            n \in 1 .. Len(messages[t]) \/ messages'[t][n].at = "queue"
      BY <1>6, <1>8, <1>11, <1>12, <2>1
    <3>4. \E n \in 1 .. Len(messages'[t]) : messages'[t][n].at = "queue"
      BY <1>6, <1>8, <1>11, <1>12, <2>1
    <3>5. QED
      BY <3>1, <3>2, <3>3, <3>4
  <2>2. CASE t # t0
    <3>1. Len(messages[t]) \in Nat /\ messages'[t] = X[t] /\ Len(X[t]) = Len(messages[t])
      BY <1>1, <1>7, <1>10, <2>2, MessageFacts
    <3>2. \A n \in 1 .. Len(messages[t]) :
            \/ messages'[t][n] = messages[t][n]
            \/ Moved(w, messages[t][n], messages'[t][n]) /\ messages'[t][n].at \in {"queue", "dead"}
      BY <1>7, <2>2, <3>1
    <3>3. QED
      BY <3>1, <3>2
  <2>3. QED
    BY <2>1, <2>2
<1>15. TypeOK' /\ JobsOK' /\ DeadLettersKept' /\ NoTaskDisappears'
  BY <1>1, <1>3, <1>10, <1>13, <1>14, StateAfter
<1>16. \A t \in Task : \A n \in 1 .. Len(messages[t]) :
         /\ X[t][n].retries = messages[t][n].retries
         /\ Delivered(X[t][n]) = Delivered(messages[t][n])
  BY <1>7 DEF Moved
<1>17. TaskOK(t0)'
  <2>1. TaskOK(t0) /\ w \in Busy(t0) /\ messages'[t0] \in Seq(Message) /\ runs'[t0] = runs[t0]
    BY <1>1, <1>4, <1>10 DEF IInv, Busy
  <2>2. \A n \in 1 .. Len(messages[t0]) :
          /\ messages'[t0][n].retries = messages[t0][n].retries
          /\ Delivered(messages'[t0][n]) = Delivered(messages[t0][n])
    BY <1>8, <1>11, <1>16
  <2>3. \A v \in Busy(t0)' : v \in Busy(t0) /\ v # w /\ job'[v].n = job[v].n
    BY <1>3 DEF Busy
  <2>4. messages'[t0][Len(messages[t0]) + 1].retries = messages[t0][job[w].n].retries + 1
    BY <1>4, <1>6, <1>8, <1>11 DEF Current
  <2>5. Delivered(messages'[t0][Len(messages[t0]) + 1]) = 0 /\ Len(messages'[t0]) = Len(messages[t0]) + 1
    BY <1>6, <1>8, <1>11
  <2>6. job[w].n \in 1 .. Len(messages[t0])
    BY <1>2, <1>4
  <2>7. QED
    BY <1>1, <2>1, <2>2, <2>3, <2>4, <2>5, <2>6, TaskRetried
<1>18. ASSUME NEW t \in Task, t # t0 PROVE TaskOK(t)'
  <2>1. /\ TaskOK(t) /\ messages'[t] \in Seq(Message) /\ runs'[t] = runs[t]
        /\ messages'[t] = X[t] /\ Len(X[t]) = Len(messages[t])
    BY <1>1, <1>7, <1>10, <1>18 DEF IInv
  <2>2. \A v \in Busy(t)' : v \in Busy(t) /\ job'[v].n = job[v].n
    BY <1>3 DEF Busy
  <2>3. \A n \in 1 .. Len(messages[t]) :
          /\ messages'[t][n].retries = messages[t][n].retries
          /\ Delivered(messages'[t][n]) = Delivered(messages[t][n])
    BY <1>16, <2>1
  <2>4. QED
    BY <1>1, <2>1, <2>2, <2>3, TaskKept
<1>19. QED
  BY <1>15, <1>17, <1>18 DEF IInv
\* The first message of a task.
LEMMA PublishIInv ==
  ASSUME IInv, NEW t0 \in Task, Publish(t0)
  PROVE  IInv'
<1>1. /\ TypeOK /\ JobsOK /\ DeadLettersKept /\ NoTaskDisappears /\ messages[t0] = <<>>
      /\ UNCHANGED <<phase, job, dlq, handled, runs>>
  BY DEF IInv, Publish
<1>2. PICK m : m = [retries |-> 0, returns |-> 0, at |-> "queue"]
  OBVIOUS
<1>3. m \in Message /\ m.at = "queue" /\ m.retries = 0 /\ Delivered(m) = 0
  BY <1>2, LimitAssumption DEF Message, Place, Delivered
<1>4. messages' = [messages EXCEPT ![t0] = <<m>>]
  BY <1>2 DEF Publish
<1>5. <<m>> \in Seq(Message) /\ Len(<<m>>) = 1 /\ <<m>>[1] = m
  BY <1>3
<1>6. /\ messages' \in [Task -> Seq(Message)] /\ messages'[t0] = <<m>>
      /\ \A t \in Task : t # t0 => messages'[t] = messages[t]
  BY <1>1, <1>4, <1>5 DEF TypeOK
<1>7. Len(messages[t0]) = 0 /\ Len(messages'[t0]) = 1 /\ messages'[t0][1] = m
      /\ DOMAIN messages[t0] = {} /\ DOMAIN messages'[t0] = {1}
  BY <1>1, <1>5, <1>6
<1>8. \A w \in Worker : job[w] # NoJob => job[w].task \in Task /\ job[w].task # t0
  BY <1>1, <1>7 DEF TypeOK, Job
<1>9. TypeOK' /\ JobsOK'
  BY <1>1, <1>6, <1>8 DEF TypeOK, JobsOK
<1>10. DeadLettersKept'
  <2>1. ASSUME NEW t \in Task, NEW n \in 1 .. Len(messages'[t]), messages'[t][n].at \in Worker
        PROVE  dlq'
    <3>1. CASE t = t0
      <4>1. n = 1
        BY <1>7, <2>1, <3>1
      <4>2. QED
        BY <1>3, <1>7, <2>1, <3>1, <4>1, LimitAssumption
    <3>2. CASE t # t0
      BY <1>1, <1>6, <2>1, <3>2 DEF DeadLettersKept
    <3>3. QED
      BY <3>1, <3>2
  <2>2. QED
    BY <1>1, <2>1 DEF DeadLettersKept
<1>11. NoTaskDisappears'
  BY <1>1, <1>3, <1>6, <1>7 DEF NoTaskDisappears
<1>12. TaskOK(t0)'
  <2>1. Deliveries(t0) = {}
    BY <1>7 DEF Deliveries
  <2>2. Deliveries(t0)' = {}
    <3>1. SUFFICES ASSUME NEW d \in Deliveries(t0)' PROVE FALSE
      OBVIOUS
    <3>2. /\ d[1] \in 1 .. 1 /\ d[2] \in 1 .. DeliveryLimit + 1
          /\ d[2] <= Delivered(messages'[t0][d[1]])
      BY <1>7, <3>1 DEF Deliveries
    <3>3. d[1] = 1
      BY <3>2
    <3>4. d[2] <= 0
      BY <1>3, <1>7, <3>2, <3>3
    <3>5. QED
      BY <3>2, <3>4, LimitAssumption
  <2>3. IsFiniteSet(Deliveries(t0)') /\ runs'[t0] <= Cardinality(Deliveries(t0)')
    BY <1>1, <2>1, <2>2 DEF IInv, TaskOK
  <2>4. Busy(t0)' = {} /\ 2 .. Len(messages'[t0]) = {}
    BY <1>1, <1>7, <1>8 DEF Busy
  <2>5. PICK none : none = [x \in {} |-> <<>>]
    OBVIOUS
  <2>6. none \in [2 .. Len(messages'[t0]) -> Deliveries(t0)'] /\ none \in [Busy(t0)' -> Deliveries(t0)']
    BY <2>4, <2>5
  <2>7. Traces(t0, none, none)'
    BY <2>4 DEF Traces
  <2>8. messages'[t0][1].retries = 0
    BY <1>3, <1>7
  <2>9. QED
    BY <2>3, <2>6, <2>7, <2>8 DEF TaskOK
<1>13. ASSUME NEW t \in Task, t # t0 PROVE TaskOK(t)'
  <2>1. TaskOK(t) /\ messages'[t] = messages[t] /\ messages'[t] \in Seq(Message) /\ runs'[t] = runs[t]
    BY <1>1, <1>6, <1>13 DEF IInv
  <2>2. \A w \in Busy(t)' : w \in Busy(t) /\ job'[w].n = job[w].n
    BY <1>1 DEF Busy
  <2>3. QED
    BY <1>1, <2>1, <2>2, TaskKept
<1>14. QED
  BY <1>9, <1>10, <1>11, <1>12, <1>13 DEF IInv

\* A message of the queue goes to a worker that executes nothing.
LEMMA DeliverIInv ==
  ASSUME IInv, NEW w \in Worker, NEW t0 \in Task, NEW k \in DOMAIN messages[t0], Deliver(w, t0, k)
  PROVE  IInv'
<1>1. /\ TypeOK /\ JobsOK /\ DeadLettersKept /\ NoTaskDisappears
      /\ phase[w] = "up" /\ job[w] = NoJob /\ dlq /\ messages[t0][k].at = "queue"
      /\ UNCHANGED <<phase, dlq, handled>>
  BY DEF IInv, Deliver, DeadLettersKept
<1>2. PICK l \in Nat :
        /\ l = Len(messages[t0]) /\ DOMAIN messages[t0] = 1 .. l
        /\ messages[t0] \in Seq(Message) /\ k \in 1 .. l /\ messages[t0][k] \in Message
  BY <1>1, MessageFacts
<1>3. PICK m : m = [messages[t0][k] EXCEPT !.at = w]
  OBVIOUS
<1>4. /\ m \in Message /\ m.at = w /\ m.retries = messages[t0][k].retries
      /\ m.returns = messages[t0][k].returns /\ messages[t0][k].returns \in 0 .. DeliveryLimit
  BY <1>2, <1>3 DEF Message, Place
<1>5. PICK q : q = [messages[t0] EXCEPT ![k] = m]
  OBVIOUS
<1>6. messages' = [messages EXCEPT ![t0] = q]
  BY <1>3, <1>5 DEF Deliver
<1>7. /\ q \in Seq(Message) /\ Len(q) = l /\ q[k] = m /\ DOMAIN q = 1 .. l
      /\ \A n \in 1 .. l : n # k => q[n] = messages[t0][n]
  BY <1>2, <1>4, <1>5, ExceptSeq, LenProperties
<1>8. /\ messages' \in [Task -> Seq(Message)] /\ messages'[t0] = q
      /\ \A t \in Task : t # t0 => messages'[t] = messages[t]
  BY <1>1, <1>6, <1>7 DEF TypeOK
<1>9. PICK j : j = [task |-> t0, n |-> k, live |-> TRUE]
  OBVIOUS
<1>10. j \in Job /\ j.task = t0 /\ j.n = k /\ j.live
  BY <1>2, <1>9 DEF Job
<1>11. /\ job' \in [Worker -> Job \cup {NoJob}] /\ job'[w] = j
       /\ \A v \in Worker \ {w} : job'[v] = job[v]
  BY <1>1, <1>9, <1>10 DEF Deliver, JobsOK
<1>12. /\ runs' \in [Task -> 0 .. MaxRuns + 1] /\ runs'[t0] <= runs[t0] + 1 /\ runs'[t0] \in Nat
       /\ \A t \in Task : t # t0 => runs'[t] = runs[t]
  <2>1. PICK r : r = IF runs[t0] > MaxRuns THEN runs[t0] ELSE runs[t0] + 1
    OBVIOUS
  <2>2. runs' = [runs EXCEPT ![t0] = r]
    BY <2>1 DEF Deliver
  <2>3. r \in 0 .. MaxRuns + 1 /\ r <= runs[t0] + 1
    <3>1. runs[t0] \in 0 .. MaxRuns + 1
      BY <1>1 DEF TypeOK
    <3>2. QED
      BY <2>1, <3>1, MaxRunsType
  <2>4. r \in Nat
    BY <2>3, MaxRunsType
  <2>5. QED
    BY <1>1, <2>2, <2>3, <2>4 DEF TypeOK
<1>13. ASSUME NEW v \in Worker, job'[v] # NoJob
       PROVE  /\ phase'[v] = "up" /\ job'[v] \in Job
              /\ job'[v].n \in DOMAIN messages'[job'[v].task]
              /\ job'[v].live <=> messages'[job'[v].task][job'[v].n].at = v
  <2>1. CASE v = w
    BY <1>1, <1>2, <1>4, <1>7, <1>8, <1>10, <1>11, <2>1
  <2>2. CASE v # w
    <3>1. job'[v] = job[v] /\ job[v] # NoJob /\ phase'[v] = phase[v]
      BY <1>1, <1>11, <1>13, <2>2
    <3>2. /\ phase[v] = "up" /\ job[v] \in Job /\ job[v].n \in DOMAIN messages[job[v].task]
          /\ job[v].live <=> messages[job[v].task][job[v].n].at = v
      BY <1>1, <3>1 DEF TypeOK
    <3>3. job[v].task \in Task
      BY <3>2 DEF Job
    <3>4. DOMAIN messages'[job[v].task] = DOMAIN messages[job[v].task]
      BY <1>2, <1>7, <1>8, <3>3
    <3>5. messages'[job[v].task][job[v].n].at = v <=> messages[job[v].task][job[v].n].at = v
      <4>1. CASE job[v].task = t0 /\ job[v].n = k
        BY <1>1, <1>4, <1>7, <1>8, <2>2, <4>1, LimitAssumption
      <4>2. CASE ~(job[v].task = t0 /\ job[v].n = k)
        BY <1>2, <1>7, <1>8, <3>2, <3>3, <4>2
      <4>3. QED
        BY <4>1, <4>2
    <3>6. QED
      BY <3>1, <3>2, <3>4, <3>5
  <2>3. QED
    BY <2>1, <2>2
<1>14. TypeOK' /\ JobsOK'
  BY <1>1, <1>8, <1>11, <1>12, <1>13 DEF TypeOK, JobsOK
<1>15. DeadLettersKept'
  BY <1>1 DEF DeadLettersKept
<1>16. NoTaskDisappears'
  <2>1. SUFFICES ASSUME NEW t \in Task, messages'[t] # <<>>, t \notin handled
                 PROVE  \E n \in DOMAIN messages'[t] :
                          messages'[t][n].at \in Worker \cup {"queue", "dead"}
    BY <1>1 DEF NoTaskDisappears
  <2>2. CASE t = t0
    BY <1>2, <1>4, <1>7, <1>8, <2>2
  <2>3. CASE t # t0
    BY <1>1, <1>8, <2>1, <2>3 DEF NoTaskDisappears
  <2>4. QED
    BY <2>2, <2>3
<1>17. TaskOK(t0)'
  <2>1. TaskOK(t0) /\ messages'[t0] \in Seq(Message) /\ w \notin Busy(t0)
    BY <1>1, <1>8 DEF IInv, Busy
  <2>2. \A n \in 1 .. Len(messages[t0]) :
          /\ messages'[t0][n].retries = messages[t0][n].retries
          /\ n # k => Delivered(messages'[t0][n]) = Delivered(messages[t0][n])
    BY <1>2, <1>4, <1>7, <1>8
  <2>3. /\ Delivered(messages[t0][k]) \in 0 .. DeliveryLimit
        /\ Delivered(messages'[t0][k]) = Delivered(messages[t0][k]) + 1
    <3>1. Delivered(messages[t0][k]) = messages[t0][k].returns
      BY <1>1, <1>4, LimitAssumption DEF Delivered
    <3>2. m.at # "queue" /\ messages'[t0][k] = m
      BY <1>4, <1>7, <1>8, LimitAssumption
    <3>3. Delivered(m) = messages[t0][k].returns + 1
      BY <1>4, <3>2 DEF Delivered
    <3>4. QED
      BY <1>4, <3>1, <3>2, <3>3
  <2>4. job'[w].n = k /\ k \in 1 .. Len(messages[t0]) /\ Len(messages'[t0]) = Len(messages[t0])
    BY <1>2, <1>7, <1>8, <1>10, <1>11
  <2>5. \A v \in Busy(t0)' : v # w => v \in Busy(t0) /\ job'[v].n = job[v].n
    BY <1>11 DEF Busy
  <2>6. QED
    BY <1>1, <1>12, <2>1, <2>2, <2>3, <2>4, <2>5, TaskDelivered
<1>18. ASSUME NEW t \in Task, t # t0 PROVE TaskOK(t)'
  <2>1. TaskOK(t) /\ messages'[t] = messages[t] /\ messages'[t] \in Seq(Message) /\ runs'[t] = runs[t]
    BY <1>8, <1>12, <1>18 DEF IInv
  <2>2. \A v \in Busy(t)' : v \in Busy(t) /\ job'[v].n = job[v].n
    BY <1>10, <1>11, <1>18 DEF Busy
  <2>3. QED
    BY <1>1, <2>1, <2>2, TaskKept
<1>19. QED
  BY <1>14, <1>15, <1>16, <1>17, <1>18 DEF IInv

\* A worker starts, and has the dead-letter queue before it is up.
LEMMA StartIInv ==
  ASSUME IInv, NEW w \in Worker, Start(w) \/ DeclareDeadLetterQueue(w)
  PROVE  IInv'
<1>1. /\ TypeOK /\ phase[w] # "up" /\ UNCHANGED <<messages, job, handled, runs>>
      /\ dlq' \in BOOLEAN /\ (dlq => dlq')
      /\ \E p \in {"down", "declaring", "up"} :
            phase' = [phase EXCEPT ![w] = p] /\ (p = "up" => dlq')
  BY DEF IInv, TypeOK, Start, DeclareDeadLetterQueue
<1>2. /\ phase' \in [Worker -> {"down", "declaring", "up"}]
      /\ \A v \in Worker : phase[v] = "up" => phase'[v] = "up"
      /\ \A v \in Worker : phase'[v] = "up" => phase[v] = "up" \/ dlq'
  BY <1>1 DEF TypeOK
<1>3. TypeOK' /\ JobsOK'
  BY <1>1, <1>2 DEF IInv, TypeOK, JobsOK
<1>4. DeadLettersKept' /\ NoTaskDisappears'
  BY <1>1, <1>2 DEF IInv, DeadLettersKept, NoTaskDisappears
<1>5. \A t \in Task : TaskOK(t)'
  BY <1>1, TaskUnchanged DEF IInv
<1>6. QED
  BY <1>3, <1>4, <1>5 DEF IInv

LEMMA NextIInv == IInv /\ [Next]_vars => IInv'
<1>1. SUFFICES ASSUME IInv, [Next]_vars PROVE IInv'
  OBVIOUS
<1>2. ASSUME NEW t \in Task, Publish(t) PROVE IInv'
  BY <1>1, <1>2, PublishIInv
<1>3. ASSUME NEW w \in Worker,
             Start(w) \/ DeclareDeadLetterQueue(w) \/ Crash(w) \/ ConnectionLost(w) \/ Finish(w)
      PROVE  IInv'
  BY <1>1, <1>3, StartIInv, FailureIInv, EndIInv, PublishRetryIInv DEF Finish
<1>4. ASSUME NEW w \in Worker, NEW t \in Task, NEW n \in DOMAIN messages[t], Deliver(w, t, n)
      PROVE  IInv'
  BY <1>1, <1>4, DeliverIInv
<1>5. CASE UNCHANGED vars
  <2>1. \A t \in Task : TaskOK(t)'
    BY <1>1, <1>5, TaskUnchanged DEF vars, IInv
  <2>2. QED
    BY <1>1, <1>5, <2>1 DEF vars, IInv, TypeOK, JobsOK, DeadLettersKept, NoTaskDisappears
<1>6. QED
  BY <1>1, <1>2, <1>3, <1>4, <1>5 DEF Next

-----------------------------------------------------------------------------
(* The theorems *)

\* The inductive invariant holds in every state, however often workers,
\* their pool processes and their connections fail.
THEOREM Invariance == Spec => []IInv
<1>1. QED
  BY InitIInv, NextIInv, PTL DEF Spec

\* Every variable keeps its type, and a worker holds the message it executes
\* as long as its channel is open.
THEOREM TypeCorrectness == Spec => []TypeOK
<1>1. IInv => TypeOK
  BY DEF IInv
<1>2. QED
  BY <1>1, Invariance, PTL

\* No failure loses a task, and none makes it run for ever: for all retry
\* and delivery limits, a published task is queued, executed, handled or
\* dead-lettered, and is executed at most MaxRuns times.
THEOREM TasksAreAccountedFor == Spec => []TasksAccountedFor
<1>1. IInv => TasksAccountedFor
  BY RunsBound DEF IInv, TasksAccountedFor
<1>2. QED
  BY <1>1, Invariance, PTL
==============================================================================

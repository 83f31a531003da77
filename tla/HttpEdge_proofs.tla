-------------------------- MODULE HttpEdge_proofs --------------------------
(***************************************************************************)
(* Proofs about the three parts of MCHttpEdge, each from one inductive     *)
(* invariant, and their composition.  RateLimiter, for every capacity and  *)
(* window and any finite number of requests and accounts: LimitHolds.      *)
(* RequestPipeline, for every limit and size: AnswersAreLogged,            *)
(* OversizedNeverSucceeds and DatabaseFailuresReported.  Principals, for   *)
(* every lifetime and any number of requests and sessions: PrincipalsSound.*)
(***************************************************************************)
EXTENDS MCHttpEdge, FiniteSetTheorems, TLAPS

-----------------------------------------------------------------------------
(* RateLimiter: the inductive invariant *)

\* The script has run for the request.
WasCounted(r) == login[r].count > 0

\* The counter on which the request counts.
KeyOf(r) == Limiter!Key(login[r].name)

\* What the state of a request says of its count; without a count it has no
\* window.
RequestOK ==
    \A r \in LoginRequest :
        /\ login[r].state \in {"idle", "sent", "rejected"} => ~WasCounted(r)
        /\ login[r].state \in {"counted", "admitted", "denied"} => WasCounted(r)
        /\ login[r].state = "admitted" => login[r].count <= Capacity
        /\ WasCounted(r) => login[r].window > 0
        /\ ~WasCounted(r) => login[r].window = 0

\* In one window of a key no two requests have the same count.
CountsDiffer ==
    \A r, q \in LoginRequest :
        /\ WasCounted(r) /\ WasCounted(q) /\ KeyOf(r) = KeyOf(q)
        /\ login[r].window = login[q].window /\ login[r].count = login[q].count
        => r = q

\* The counter is ahead of every request that it counted, and its window
\* ends at most a window after each of them.
CounterAhead ==
    \A r \in LoginRequest : WasCounted(r) =>
        LET c == counter[KeyOf(r)]
        IN  /\ login[r].at <= now
            /\ login[r].window <= c.window
            /\ login[r].window = c.window => login[r].count <= c.count /\ c.expires <= login[r].at + Window

\* Every value the counter has had belongs to a request, and so does every
\* window: no counter exceeds the number of requests.
CounterBacked ==
    \A k \in Limiter!Typed :
        /\ \A n \in 1 .. counter[k].count : \E r \in LoginRequest :
              KeyOf(r) = k /\ login[r].window = counter[k].window /\ login[r].count = n
        /\ \A w \in 1 .. counter[k].window : \E r \in LoginRequest :
              WasCounted(r) /\ KeyOf(r) = k /\ login[r].window = w

\* No window extends beyond one window from now.
ExpiryOK == \A k \in Limiter!Typed : counter[k].expires <= now + Window

LimiterIInv ==
    /\ Limiter!TypeOK
    /\ RequestOK /\ CountsDiffer /\ CounterAhead /\ CounterBacked /\ ExpiryOK

-----------------------------------------------------------------------------
(* Operators of RateLimiter, and a fact about counting *)

\* Every spelling of a name counts on the same key.
LEMMA KeyFacts ==
  ASSUME NEW name \in Limiter!Typed
  PROVE  /\ Limiter!Key(name) \in Limiter!Typed
         /\ Limiter!Key(name) = [account |-> name.account, spelling |-> "stored"]
BY DEF Limiter!Key, Limiter!Typed

\* Numbers from 1 to n that belong to members of a finite set other than r
\* leave room for one more.
LEMMA RoomForOneMore ==
  ASSUME NEW S, IsFiniteSet(S), NEW r \in S, NEW g \in [S -> Nat], NEW n \in Nat,
         \A i \in 1 .. n : \E q \in S \ {r} : g[q] = i
  PROVE  n + 1 \in 0 .. Cardinality(S)
<1> DEFINE U == {q \in S \ {r} : g[q] \in 1 .. n}
           f == [q \in U |-> g[q]]
<1>1. IsFiniteSet(S \ {r}) /\ Cardinality(S \ {r}) = Cardinality(S) - 1 /\ Cardinality(S) \in Nat
  BY FS_RemoveElement, FS_CardinalityType
<1>2. IsFiniteSet(U) /\ Cardinality(U) <= Cardinality(S \ {r}) /\ Cardinality(U) \in Nat
  BY <1>1, FS_Subset, FS_CardinalityType
<1>3. f \in Surjection(U, 1 .. n)
  <2>1. f \in [U -> 1 .. n]
    OBVIOUS
  <2>2. \A i \in 1 .. n : \E q \in U : f[q] = i
    OBVIOUS
  <2>3. QED
    BY <2>1, <2>2 DEF Surjection
<1>4. Cardinality(1 .. n) <= Cardinality(U)
  BY <1>2, <1>3, FS_Surjection
<1>5. Cardinality(1 .. n) = n
  BY FS_Interval
<1>6. QED
  BY <1>1, <1>2, <1>4, <1>5

\* What the type of the variables says of one request and of one counter.
LEMMA Fields ==
  ASSUME Limiter!TypeOK
  PROVE  /\ now \in 0 .. LimiterHorizon
         /\ \A r \in LoginRequest :
               /\ login[r].name \in Limiter!Typed /\ KeyOf(r) \in Limiter!Typed
               /\ login[r].count \in Limiter!Ordinal /\ login[r].window \in Limiter!Ordinal
               /\ login[r].at \in 0 .. LimiterHorizon
         /\ \A k \in Limiter!Typed :
               /\ counter[k].count \in Limiter!Ordinal /\ counter[k].window \in Limiter!Ordinal
               /\ counter[k].expires \in 0 .. LimiterHorizon + Window
BY KeyFacts DEF Limiter!TypeOK, KeyOf

\* The instance of FiniteSets in RateLimiter is FiniteSets.
LEMMA SameFiniteSets ==
  ASSUME NEW S
  PROVE  /\ Limiter!IsFiniteSet(S) <=> IsFiniteSet(S)
         /\ Limiter!Cardinality(S) = Cardinality(S)
<1>1. Limiter!IsFiniteSet(S) <=> IsFiniteSet(S)
  BY DEF Limiter!IsFiniteSet, IsFiniteSet
<1>2. Limiter!Cardinality(S) = Cardinality(S)
  BY DEF Limiter!Cardinality, Cardinality
<1>3. QED
  BY <1>1, <1>2

\* The constants of the policy.
LEMMA Numbers ==
  /\ Capacity \in Nat \ {0} /\ Window \in Nat \ {0} /\ LimiterHorizon \in Nat
  /\ IsFiniteSet(LoginRequest) /\ Cardinality(LoginRequest) \in Nat
  /\ Limiter!Ordinal = 0 .. Cardinality(LoginRequest)
BY EdgeAssumption, SameFiniteSets, FS_CardinalityType
   DEF Limiter!LoginAssumption, Limiter!PolicyAssumption, Limiter!Ordinal

-----------------------------------------------------------------------------
(* The invariant is inductive *)

LEMMA InitLimiterIInv == Limiter!Init => LimiterIInv
<1>1. SUFFICES ASSUME Limiter!Init PROVE LimiterIInv
  OBVIOUS
<1> DEFINE name0 == CHOOSE name \in Limiter!Typed : TRUE
<1>2. name0 \in Limiter!Typed
  <2>1. PICK a \in LoginAccount : TRUE
    BY EdgeAssumption DEF Limiter!LoginAssumption
  <2>2. [account |-> a, spelling |-> "stored"] \in Limiter!Typed
    BY DEF Limiter!Typed
  <2>3. QED
    BY <2>2
<1> HIDE DEF name0
<1>3. \A r \in LoginRequest : login[r] = [state |-> "idle", name |-> name0, count |-> 0, window |-> 0, at |-> 0]
  BY <1>1 DEF Limiter!Init, name0
<1>4. 0 \in Limiter!Ordinal /\ 0 \in 0 .. LimiterHorizon /\ 0 \in 0 .. LimiterHorizon + Window
  BY <1>1, Numbers
<1>5. Limiter!TypeOK
  <2>1. login = [r \in LoginRequest |-> [state |-> "idle", name |-> name0, count |-> 0, window |-> 0, at |-> 0]]
    BY <1>1 DEF Limiter!Init, name0
  <2>2. [state |-> "idle", name |-> name0, count |-> 0, window |-> 0, at |-> 0] \in
          [state : {"idle", "sent", "counted"} \cup Limiter!Decided, name : Limiter!Typed,
           count : Limiter!Ordinal, window : Limiter!Ordinal, at : 0 .. LimiterHorizon]
    BY <1>2, <1>4
  <2>3. QED
    BY <1>1, <1>4, <2>1, <2>2 DEF Limiter!Init, Limiter!TypeOK
<1>6. RequestOK /\ CountsDiffer /\ CounterAhead
  BY <1>3 DEF RequestOK, CountsDiffer, CounterAhead, WasCounted
<1>7. CounterBacked /\ ExpiryOK
  BY <1>1, Numbers DEF Limiter!Init, CounterBacked, ExpiryOK
<1>8. QED
  BY <1>1, <1>5, <1>6, <1>7 DEF LimiterIInv

\* Steps that count nothing: they change the name of a request before it is
\* counted, and otherwise only the state of a request.
LEMMA UncountedStep ==
  ASSUME LimiterIInv, Limiter!TypeOK', RequestOK', UNCHANGED <<now, counter>>,
         \A r \in LoginRequest :
            /\ login'[r].count = login[r].count /\ login'[r].window = login[r].window
            /\ login'[r].at = login[r].at
            /\ WasCounted(r) => login'[r].name = login[r].name
  PROVE  LimiterIInv'
<1>1. \A r \in LoginRequest : /\ WasCounted(r)' <=> WasCounted(r)
                              /\ WasCounted(r) => KeyOf(r)' = KeyOf(r)
  BY DEF WasCounted, KeyOf
<1>2. CountsDiffer' /\ CounterAhead'
  BY <1>1 DEF LimiterIInv, CountsDiffer, CounterAhead
<1>3. CounterBacked'
  <2>1. ASSUME NEW k \in Limiter!Typed, NEW n \in 1 .. counter[k].count
        PROVE  \E r \in LoginRequest : KeyOf(r)' = k /\ login'[r].window = counter[k].window /\ login'[r].count = n
    <3>1. PICK r \in LoginRequest : KeyOf(r) = k /\ login[r].window = counter[k].window /\ login[r].count = n
      BY <2>1 DEF LimiterIInv, CounterBacked
    <3>2. WasCounted(r)
      BY <3>1 DEF WasCounted
    <3>3. QED
      BY <1>1, <3>1, <3>2
  <2>2. ASSUME NEW k \in Limiter!Typed, NEW w \in 1 .. counter[k].window
        PROVE  \E r \in LoginRequest : WasCounted(r)' /\ KeyOf(r)' = k /\ login'[r].window = w
    BY <1>1, <2>2 DEF LimiterIInv, CounterBacked
  <2>3. QED
    BY <2>1, <2>2 DEF CounterBacked
<1>4. ExpiryOK'
  BY DEF LimiterIInv, ExpiryOK
<1>5. QED
  BY <1>2, <1>3, <1>4 DEF LimiterIInv

LEMMA AskIInv ==
  ASSUME LimiterIInv, NEW r \in LoginRequest, NEW name \in Limiter!Typed, Limiter!Ask(r, name)
  PROVE  LimiterIInv'
<1> DEFINE s == IF name.spelling = "blank" THEN "rejected" ELSE "sent"
<1>1. Limiter!TypeOK /\ RequestOK
  BY DEF LimiterIInv
<1>2. /\ login' = [login EXCEPT ![r] = [login[r] EXCEPT !.name = name, !.state = s]]
      /\ login[r].state = "idle" /\ UNCHANGED <<now, counter>>
  BY <1>1 DEF Limiter!Ask, Limiter!TypeOK
<1>3. s \in {"rejected", "sent"}
  OBVIOUS
<1> HIDE DEF s
<1>4. Limiter!TypeOK'
  BY <1>1, <1>2, <1>3 DEF Limiter!TypeOK, Limiter!Decided
<1>5. /\ \A q \in LoginRequest \ {r} : login'[q] = login[q]
      /\ login'[r].name = name /\ login'[r].state = s /\ login'[r].count = login[r].count
      /\ login'[r].window = login[r].window /\ login'[r].at = login[r].at
  BY <1>1, <1>2 DEF Limiter!TypeOK
<1>6. ~WasCounted(r)
  BY <1>1, <1>2 DEF RequestOK
<1>7. RequestOK'
  BY <1>1, <1>3, <1>5, <1>6 DEF RequestOK, WasCounted
<1>8. QED
  BY <1>2, <1>4, <1>5, <1>6, <1>7, UncountedStep

\* A step that does nothing but decide a request.
LEMMA DecideIInv ==
  ASSUME LimiterIInv, NEW r \in LoginRequest, NEW s \in {"admitted", "denied", "degraded"},
         login' = [login EXCEPT ![r].state = s], UNCHANGED <<now, counter>>,
         s # "degraded" => WasCounted(r), s = "admitted" => login[r].count <= Capacity
  PROVE  LimiterIInv'
<1>1. Limiter!TypeOK /\ RequestOK
  BY DEF LimiterIInv
<1>2. login' = [login EXCEPT ![r] = [login[r] EXCEPT !.state = s]]
  BY <1>1 DEF Limiter!TypeOK
<1>3. Limiter!TypeOK'
  BY <1>1, <1>2 DEF Limiter!TypeOK, Limiter!Decided
<1>4. /\ \A q \in LoginRequest \ {r} : login'[q] = login[q]
      /\ login'[r].name = login[r].name /\ login'[r].state = s /\ login'[r].count = login[r].count
      /\ login'[r].window = login[r].window /\ login'[r].at = login[r].at
  BY <1>1, <1>2 DEF Limiter!TypeOK
<1>5. RequestOK'
  BY <1>1, <1>4 DEF RequestOK, WasCounted
<1>6. QED
  BY <1>3, <1>4, <1>5, UncountedStep

LEMMA AnswerIInv ==
  ASSUME LimiterIInv, NEW r \in LoginRequest, Limiter!Answer(r)
  PROVE  LimiterIInv'
<1> DEFINE s == IF Limiter!Allowed(login[r].count) THEN "admitted" ELSE "denied"
<1>1. s \in {"admitted", "denied", "degraded"} /\ login' = [login EXCEPT ![r].state = s]
  BY DEF Limiter!Answer
<1>2. WasCounted(r)
  BY DEF LimiterIInv, RequestOK, Limiter!Answer
<1>3. s = "admitted" => login[r].count <= Capacity
  BY DEF Limiter!Allowed
<1> HIDE DEF s
<1>4. QED
  BY <1>1, <1>2, <1>3, DecideIInv DEF Limiter!Answer

\* The policy of the login denies in an outage.
LEMMA OutageIInv ==
  ASSUME LimiterIInv, NEW r \in LoginRequest, Limiter!Outage(r)
  PROVE  LimiterIInv'
<1>1. login' = [login EXCEPT ![r].state = "degraded"] /\ UNCHANGED <<now, counter>>
  BY DEF Limiter!Outage
<1>2. QED
  BY <1>1, DecideIInv

LEMMA TickIInv ==
  ASSUME LimiterIInv, Limiter!Tick
  PROVE  LimiterIInv'
<1>1. /\ Limiter!TypeOK /\ RequestOK /\ CountsDiffer
      /\ CounterAhead /\ CounterBacked /\ ExpiryOK
  BY DEF LimiterIInv
<1>2. RequestOK' /\ CountsDiffer' /\ CounterBacked'
  BY <1>1 DEF Limiter!Tick, RequestOK, CountsDiffer, CounterBacked, WasCounted, KeyOf
<1>3. now' = now + 1 /\ now' \in 0 .. LimiterHorizon /\ UNCHANGED <<counter, login>>
  BY <1>1, Numbers DEF Limiter!Tick, Limiter!TypeOK
<1>4. Limiter!TypeOK'
  BY <1>1, <1>3 DEF Limiter!TypeOK
<1>5. CounterAhead'
  <2>1. \A r \in LoginRequest : /\ KeyOf(r)' = KeyOf(r)
                                /\ WasCounted(r)' <=> WasCounted(r)
                                /\ login[r].at \in Nat
    BY <1>1, <1>3, Fields, Numbers DEF WasCounted, KeyOf
  <2>2. now \in Nat
    BY <1>1, Fields, Numbers
  <2>3. QED
    BY <1>1, <1>3, <2>1, <2>2 DEF CounterAhead
<1>6. ExpiryOK'
  BY <1>1, <1>3, Fields, Numbers DEF ExpiryOK
<1>7. QED
  BY <1>1, <1>2, <1>4, <1>5, <1>6 DEF LimiterIInv

\* The script: one more request has a count, the next of its window or the
\* first of a new one.
LEMMA CountIInv ==
  ASSUME LimiterIInv, NEW r \in LoginRequest, Limiter!Count(r)
  PROVE  LimiterIInv'
<1>1. /\ Limiter!TypeOK /\ RequestOK /\ CountsDiffer
      /\ CounterAhead /\ CounterBacked /\ ExpiryOK
  BY DEF LimiterIInv
<1> DEFINE k == KeyOf(r)
           c == counter[k]
           live == c.count > 0 /\ now < c.expires
           count == IF live THEN c.count + 1 ELSE 1
           window == IF live THEN c.window ELSE c.window + 1
           expires == Limiter!Expiry(c.expires, count)
           s == IF login[r].state = "sent" THEN "counted" ELSE login[r].state
<1>2. /\ login[r].state \in {"sent", "degraded"} /\ login[r].count = 0
      /\ counter' = [counter EXCEPT ![k] = [count |-> count, expires |-> expires, window |-> window]]
      /\ login' = [login EXCEPT ![r] = [login[r] EXCEPT !.count = count, !.window = window, !.at = now, !.state = s]]
      /\ now' = now
  BY <1>1 DEF Limiter!Count, KeyOf, Limiter!TypeOK
<1>3. /\ k \in Limiter!Typed /\ c.count \in Limiter!Ordinal /\ c.window \in Limiter!Ordinal
      /\ c.expires \in 0 .. LimiterHorizon + Window /\ now \in 0 .. LimiterHorizon
      /\ Limiter!Ordinal = 0 .. Cardinality(LoginRequest) /\ Cardinality(LoginRequest) \in Nat
      /\ Capacity \in Nat \ {0} /\ Window \in Nat \ {0} /\ LimiterHorizon \in Nat
  BY <1>1, Fields, Numbers
<1>4. s \in {"counted", "degraded"}
  BY <1>2
\* The new count and window leave the type of the counters only when there
\* are no more requests to count.
<1>5. c.count + 1 \in Limiter!Ordinal
  <2> DEFINE g == [q \in LoginRequest |-> login[q].count]
  <2>1. g \in [LoginRequest -> Nat]
    BY <1>1, <1>3, Fields
  <2>2. ASSUME NEW i \in 1 .. c.count PROVE \E q \in LoginRequest \ {r} : g[q] = i
    <3>1. PICK q \in LoginRequest : login[q].count = i
      BY <1>1, <1>3, <2>2 DEF CounterBacked
    <3>2. q # r
      BY <1>2, <3>1
    <3>3. QED
      BY <3>1, <3>2
  <2>3. c.count \in Nat /\ IsFiniteSet(LoginRequest)
    BY <1>1, <1>3, Numbers
  <2> HIDE DEF g, c
  <2>4. QED
    BY <1>3, <2>1, <2>2, <2>3, RoomForOneMore
<1>6. c.window + 1 \in Limiter!Ordinal
  <2> DEFINE g == [q \in LoginRequest |-> login[q].window]
  <2>1. g \in [LoginRequest -> Nat]
    BY <1>1, <1>3, Fields
  <2>2. ASSUME NEW i \in 1 .. c.window PROVE \E q \in LoginRequest \ {r} : g[q] = i
    <3>1. PICK q \in LoginRequest : WasCounted(q) /\ login[q].window = i
      BY <1>1, <1>3, <2>2 DEF CounterBacked
    <3>2. q # r
      BY <1>2, <3>1 DEF WasCounted
    <3>3. QED
      BY <3>1, <3>2
  <2>3. c.window \in Nat /\ IsFiniteSet(LoginRequest)
    BY <1>1, <1>3, Numbers
  <2> HIDE DEF g, c
  <2>4. QED
    BY <1>3, <2>1, <2>2, <2>3, RoomForOneMore
<1>7. /\ live => count = c.count + 1 /\ window = c.window /\ expires = c.expires /\ c.count > 0
      /\ ~live => count = 1 /\ window = c.window + 1 /\ expires = now + Window
  BY <1>3 DEF Limiter!Expiry
<1>8. /\ count \in Limiter!Ordinal /\ window \in Limiter!Ordinal /\ expires \in 0 .. LimiterHorizon + Window
      /\ count > 0 /\ expires <= now + Window
  <2>1. c.expires <= now + Window
    BY <1>1, <1>3 DEF ExpiryOK
  <2> HIDE DEF count, window, expires, live, c
  <2>2. QED
    BY <1>3, <1>5, <1>6, <1>7, <2>1
<1>9. live \in BOOLEAN
  OBVIOUS
<1> HIDE DEF count, window, expires, live, s
<1>10. /\ \A q \in LoginRequest \ {r} : login'[q] = login[q]
       /\ login'[r].name = login[r].name /\ login'[r].state = s /\ login'[r].count = count
       /\ login'[r].window = window /\ login'[r].at = now
       /\ \A l \in Limiter!Typed \ {k} : counter'[l] = counter[l]
       /\ counter'[k].count = count /\ counter'[k].window = window /\ counter'[k].expires = expires
  BY <1>1, <1>2, <1>3 DEF Limiter!TypeOK
<1>11. /\ \A q \in LoginRequest : KeyOf(q)' = KeyOf(q) /\ KeyOf(q) \in Limiter!Typed
       /\ \A q \in LoginRequest \ {r} : WasCounted(q)' <=> WasCounted(q)
       /\ WasCounted(r)' /\ ~WasCounted(r)
  BY <1>1, <1>2, <1>8, <1>10, Fields DEF KeyOf, WasCounted
<1> HIDE DEF k, c
<1>12. Limiter!TypeOK'
  <2>1. [count |-> count, expires |-> expires, window |-> window] \in
          [count : Limiter!Ordinal, expires : 0 .. LimiterHorizon + Window, window : Limiter!Ordinal]
    BY <1>8
  <2>2. [login[r] EXCEPT !.count = count, !.window = window, !.at = now, !.state = s] \in
          [state : {"idle", "sent", "counted"} \cup Limiter!Decided, name : Limiter!Typed,
           count : Limiter!Ordinal, window : Limiter!Ordinal, at : 0 .. LimiterHorizon]
    BY <1>1, <1>3, <1>4, <1>8 DEF Limiter!TypeOK, Limiter!Decided
  <2>3. QED
    BY <1>1, <1>2, <1>3, <2>1, <2>2 DEF Limiter!TypeOK
<1>13. RequestOK'
  <2>1. window > 0
    <3>1. CASE ~live
      BY <1>3, <1>7, <3>1
    <3>2. CASE live
      <4>1. 1 \in 1 .. c.count
        BY <1>3, <1>7, <3>2
      <4>2. PICK q \in LoginRequest : login[q].window = c.window /\ login[q].count = 1
        BY <1>1, <1>3, <4>1 DEF CounterBacked, c
      <4>3. QED
        BY <1>1, <1>7, <3>2, <4>2 DEF RequestOK, WasCounted
    <3>3. QED
      BY <3>1, <3>2
  <2>2. QED
    BY <1>1, <1>4, <1>10, <1>11, <2>1 DEF RequestOK
\* A request that was counted before on this key is behind the new one.
<1>14. ASSUME NEW q \in LoginRequest \ {r}, WasCounted(q), KeyOf(q) = k
       PROVE  /\ login[q].window <= window
              /\ login[q].window = window => live /\ login[q].count < count
              /\ login[q].at <= now
              /\ login[q].window = window => expires <= login[q].at + Window
  <2>1. /\ login[q].window <= c.window /\ login[q].at <= now
        /\ login[q].window = c.window => login[q].count <= c.count /\ c.expires <= login[q].at + Window
    BY <1>1, <1>14 DEF CounterAhead, c
  <2>2. login[q].window \in Nat /\ login[q].count \in Nat /\ c.window \in Nat /\ c.count \in Nat
    BY <1>1, <1>3, Fields
  <2>3. QED
    BY <1>7, <1>9, <2>1, <2>2
<1>15. CountsDiffer'
  <2>1. SUFFICES ASSUME NEW p \in LoginRequest, NEW q \in LoginRequest, WasCounted(p)', WasCounted(q)',
                        KeyOf(p)' = KeyOf(q)', login'[p].window = login'[q].window,
                        login'[p].count = login'[q].count
                 PROVE  p = q
    BY DEF CountsDiffer
  <2>2. \A o \in LoginRequest : login[o].count \in Nat
    BY <1>1, <1>3, Fields
  <2>3. count \in Nat
    BY <1>3, <1>8
  <2>4. CASE p # r /\ q # r
    BY <1>1, <1>10, <1>11, <2>1, <2>4 DEF CountsDiffer
  <2>5. CASE p = r /\ q # r
    BY <1>10, <1>11, <1>14, <2>1, <2>2, <2>3, <2>5 DEF k
  <2>6. CASE p # r /\ q = r
    BY <1>10, <1>11, <1>14, <2>1, <2>2, <2>3, <2>6 DEF k
  <2>7. QED
    BY <2>4, <2>5, <2>6
<1>16. CounterAhead'
  <2>1. SUFFICES ASSUME NEW q \in LoginRequest, WasCounted(q)'
                 PROVE  /\ login'[q].at <= now
                        /\ login'[q].window <= counter'[KeyOf(q)].window
                        /\ login'[q].window = counter'[KeyOf(q)].window =>
                              /\ login'[q].count <= counter'[KeyOf(q)].count
                              /\ counter'[KeyOf(q)].expires <= login'[q].at + Window
    BY <1>2, <1>11 DEF CounterAhead
  <2>2. CASE q = r
    <3>1. KeyOf(q) = k
      BY <2>2 DEF k
    <3>2. QED
      BY <1>3, <1>8, <1>10, <2>2, <3>1
  <2>3. CASE q # r /\ KeyOf(q) = k
    <3>1. WasCounted(q) /\ login'[q] = login[q]
      BY <1>10, <1>11, <2>1, <2>3
    <3>2. login[q].count \in Nat /\ count \in Nat
      BY <1>1, <1>3, <1>8, Fields
    <3>3. QED
      BY <1>10, <1>14, <2>3, <3>1, <3>2
  <2>4. CASE q # r /\ KeyOf(q) # k
    <3>1. WasCounted(q) /\ login'[q] = login[q] /\ counter'[KeyOf(q)] = counter[KeyOf(q)]
      BY <1>10, <1>11, <2>1, <2>4
    <3>2. QED
      BY <1>1, <2>4, <3>1 DEF CounterAhead
  <2>5. QED
    BY <2>2, <2>3, <2>4
<1>17. CounterBacked'
  <2>1. ASSUME NEW l \in Limiter!Typed, NEW n \in 1 .. counter'[l].count
        PROVE  \E q \in LoginRequest : KeyOf(q)' = l /\ login'[q].window = counter'[l].window /\ login'[q].count = n
    <3>1. CASE l # k
      <4>1. counter'[l] = counter[l]
        BY <1>10, <3>1
      <4>2. PICK q \in LoginRequest : KeyOf(q) = l /\ login[q].window = counter[l].window /\ login[q].count = n
        BY <1>1, <2>1, <4>1 DEF CounterBacked
      <4>3. q # r
        BY <3>1, <4>2 DEF k
      <4>4. QED
        BY <1>10, <1>11, <4>1, <4>2, <4>3
    <3>2. CASE l = k /\ n = count
      BY <1>10, <1>11, <3>2 DEF k
    <3>3. CASE l = k /\ n # count
      <4>1. live /\ n \in 1 .. c.count
        BY <1>3, <1>7, <1>9, <1>10, <2>1, <3>3
      <4>2. PICK q \in LoginRequest : KeyOf(q) = k /\ login[q].window = c.window /\ login[q].count = n
        BY <1>1, <1>3, <4>1 DEF CounterBacked, c
      <4>3. q # r
        BY <1>2, <4>1, <4>2
      <4>4. QED
        BY <1>7, <1>10, <1>11, <3>3, <4>1, <4>2, <4>3
    <3>4. QED
      BY <3>1, <3>2, <3>3
  <2>2. ASSUME NEW l \in Limiter!Typed, NEW w \in 1 .. counter'[l].window
        PROVE  \E q \in LoginRequest : WasCounted(q)' /\ KeyOf(q)' = l /\ login'[q].window = w
    <3>1. CASE l = k /\ w = window
      BY <1>10, <1>11, <3>1 DEF k
    <3>2. CASE l # k \/ w # window
      <4>1. w \in 1 .. counter[l].window
        <5>1. CASE l # k
          BY <1>10, <2>2, <5>1
        <5>2. CASE l = k
          <6>1. w \in 1 .. c.window
            BY <1>3, <1>7, <1>9, <1>10, <2>2, <3>2, <5>2
          <6>2. QED
            BY <5>2, <6>1 DEF c
        <5>3. QED
          BY <5>1, <5>2
      <4>2. PICK q \in LoginRequest : WasCounted(q) /\ KeyOf(q) = l /\ login[q].window = w
        BY <1>1, <2>2, <4>1 DEF CounterBacked
      <4>3. q # r
        BY <1>11, <4>2
      <4>4. QED
        BY <1>10, <1>11, <4>2, <4>3
    <3>3. QED
      BY <3>1, <3>2
  <2>3. QED
    BY <2>1, <2>2 DEF CounterBacked
<1>18. ExpiryOK'
  BY <1>1, <1>2, <1>8, <1>10 DEF ExpiryOK
<1>19. QED
  BY <1>12, <1>13, <1>15, <1>16, <1>17, <1>18 DEF LimiterIInv

\* A step that changes nothing.
LEMMA StutterLimiterIInv == LimiterIInv /\ UNCHANGED Limiter!vars => LimiterIInv'
<1>1. SUFFICES ASSUME LimiterIInv, UNCHANGED Limiter!vars PROVE LimiterIInv'
  OBVIOUS
<1>2. Limiter!TypeOK' /\ RequestOK'
  BY <1>1 DEF LimiterIInv, Limiter!vars, Limiter!TypeOK, RequestOK, WasCounted
<1>3. QED
  BY <1>1, <1>2, UncountedStep DEF Limiter!vars

LEMMA NextLimiterIInv == LimiterIInv /\ [Limiter!Next]_(Limiter!vars) => LimiterIInv'
<1>1. SUFFICES ASSUME LimiterIInv, [Limiter!Next]_(Limiter!vars) PROVE LimiterIInv'
  OBVIOUS
<1>2. CASE UNCHANGED Limiter!vars
  BY <1>1, <1>2, StutterLimiterIInv
<1>3. CASE Limiter!Tick
  BY <1>1, <1>3, TickIInv
<1>4. ASSUME NEW r \in LoginRequest, NEW name \in Limiter!Typed, Limiter!Ask(r, name) PROVE LimiterIInv'
  BY <1>1, <1>4, AskIInv
<1>5. ASSUME NEW r \in LoginRequest, Limiter!Count(r) \/ Limiter!Answer(r) \/ Limiter!Outage(r) PROVE LimiterIInv'
  BY <1>1, <1>5, CountIInv, AnswerIInv, OutageIInv
<1>6. QED
  BY <1>1, <1>2, <1>3, <1>4, <1>5 DEF Limiter!Next

-----------------------------------------------------------------------------
(* The theorems about RateLimiter *)

\* The inductive invariant holds in every state, whatever answers are late
\* or lost.
THEOREM LimiterInvariance == Limiter!Spec => []LimiterIInv
<1>1. QED
  BY InitLimiterIInv, NextLimiterIInv, PTL DEF Limiter!Spec

\* Every variable keeps its type: no counter exceeds the number of requests.
THEOREM LimiterTypeCorrectness == Limiter!Spec => []Limiter!TypeOK
<1>1. LimiterIInv => Limiter!TypeOK
  BY DEF LimiterIInv
<1>2. QED
  BY <1>1, LimiterInvariance, PTL

\* The admitted requests of a window have different counts up to Capacity.
LEMMA AtMostCapacity == LimiterIInv => Limiter!WindowAdmits
<1>1. SUFFICES ASSUME LimiterIInv, NEW a \in LoginAccount, NEW w \in Limiter!Ordinal
               PROVE  /\ Cardinality({r \in Limiter!Admitted(a) : login[r].window = w}) <= Capacity
                      /\ w = 0 => {r \in Limiter!Admitted(a) : login[r].window = w} = {}
  BY SameFiniteSets DEF Limiter!WindowAdmits
<1> DEFINE U == {r \in Limiter!Admitted(a) : login[r].window = w}
           f == [r \in U |-> login[r].count]
<1>2. \A r \in U : /\ r \in LoginRequest /\ WasCounted(r) /\ login[r].count <= Capacity
                   /\ login[r].window = w /\ login[r].name.account = a
  BY <1>1 DEF LimiterIInv, RequestOK, Limiter!Admitted
<1>3. Capacity \in Nat /\ \A r \in U : login[r].count \in Nat
  BY <1>1, <1>2, Fields, Numbers DEF LimiterIInv
<1>4. \A r \in U : KeyOf(r) = [account |-> a, spelling |-> "stored"]
  BY <1>1, <1>2, Fields, KeyFacts DEF LimiterIInv, KeyOf
<1>5. f \in [U -> 1 .. Capacity]
  BY <1>2, <1>3 DEF WasCounted
<1>6. \A r, q \in U : f[r] = f[q] => r = q
  BY <1>1, <1>2, <1>4 DEF LimiterIInv, CountsDiffer
<1>7. f \in Injection(U, 1 .. Capacity)
  BY <1>5, <1>6 DEF Injection, IsInjective
<1>8. IsFiniteSet(1 .. Capacity) /\ Cardinality(1 .. Capacity) = Capacity
  BY <1>3, FS_Interval
<1>9. Cardinality(U) <= Capacity
  BY <1>7, <1>8, FS_Injection
<1>10. w = 0 => U = {}
  BY <1>1, <1>2 DEF LimiterIInv, RequestOK
<1>11. QED
  BY <1>9, <1>10

\* The window of a denied request ends at most a window after it.
LEMMA DenialsEnd == LimiterIInv => Limiter!RetryAfterSuffices
<1>1. SUFFICES ASSUME LimiterIInv, NEW r \in LoginRequest, login[r].state = "denied", now >= login[r].at + Window
               PROVE  \/ counter[KeyOf(r)].window > login[r].window
                      \/ counter[KeyOf(r)].expires <= now
  BY DEF Limiter!RetryAfterSuffices, KeyOf
<1>2. WasCounted(r)
  BY <1>1 DEF LimiterIInv, RequestOK
<1>3. /\ login[r].window <= counter[KeyOf(r)].window
      /\ login[r].window = counter[KeyOf(r)].window => counter[KeyOf(r)].expires <= login[r].at + Window
  BY <1>1, <1>2 DEF LimiterIInv, CounterAhead
<1>4. /\ KeyOf(r) \in Limiter!Typed /\ counter[KeyOf(r)].window \in Nat /\ login[r].window \in Nat
      /\ counter[KeyOf(r)].expires \in Nat /\ login[r].at \in Nat /\ Window \in Nat /\ now \in Nat
  BY <1>1, Fields, Numbers DEF LimiterIInv
<1>5. QED
  BY <1>1, <1>3, <1>4

\* For every capacity, window and number of requests: at most Capacity logins
\* for an account pass in one window of Redis, each of them counted, however
\* the name is spelt and whatever answers are late or lost; and a denial ends
\* with its window (RedisRateLimiter.check).
THEOREM LoginsAreLimited == Limiter!Spec => []LimitHolds
<1>1. LimiterIInv => LimitHolds
  BY AtMostCapacity, DenialsEnd DEF LimitHolds, Limiter!LimitHolds
<1>2. QED
  BY <1>1, LimiterInvariance, PTL

-----------------------------------------------------------------------------
(* RequestPipeline: its operators *)

\* The middlewares by position.
LEMMA LayerNames ==
  /\ Len(Layers) = 11 /\ DOMAIN Layers = 1 .. 11
  /\ Layers[1] = "request_context" /\ Layers[2] = "unhandled" /\ Layers[3] = "access_log"
  /\ Layers[4] = "timing" /\ Layers[5] = "security" /\ Layers[6] = "cors"
  /\ Layers[7] = "trusted_host" /\ Layers[8] = "gzip" /\ Layers[9] = "body_limit"
  /\ Layers[10] = "exceptions" /\ Layers[11] = "route"
BY DEF Layers

\* Index is the inverse of Layers.
LEMMA IndexOfLayer ==
  ASSUME NEW i \in 1 .. 11
  PROVE  Index(Layers[i]) = i
<1>1. \A j \in 1 .. 11 : Layers[j] = Layers[i] => j = i
  BY LayerNames
<1>2. QED
  BY <1>1, LayerNames DEF Index

\* The positions that the middlewares are asked for.
LEMMA Positions ==
  /\ Index("request_context") = 1 /\ Index("unhandled") = 2 /\ Index("access_log") = 3
  /\ Index("timing") = 4 /\ Index("security") = 5 /\ Index("cors") = 6
  /\ Index("trusted_host") = 7 /\ Index("body_limit") = 9
  /\ Index("exceptions") = 10 /\ Index("route") = 11
BY LayerNames, IndexOfLayer

\* The layers that answer: every one but "unhandled" is inside of all those
\* that add headers or take note.
LEMMA InnerLayer ==
  ASSUME NEW l \in {"cors", "trusted_host", "body_limit", "exceptions", "route"}
  PROVE  /\ Outside("access_log", l) /\ Outside("unhandled", l)
         /\ Headers(l) = {"request_context", "timing", "security"}
BY Positions DEF Outside, Headers

\* UnhandledExceptionMiddleware is inside of the request context only.
LEMMA UnhandledLayer ==
  /\ ~Outside("access_log", "unhandled") /\ ~Outside("unhandled", "unhandled")
  /\ Headers("unhandled") = {"request_context"}
BY Positions DEF Outside, Headers

-----------------------------------------------------------------------------
(* ErrorMapping: its operators *)

\* Every class has its base among the classes.
LEMMA ParentTotal == Parent \in [ErrorClass -> ErrorClass]
BY DEF Parent, ErrorClass

\* The recursive function Ancestor exists: its four values are the iterates
\* of Parent.
LEMMA AncestorSteps ==
  /\ Ancestor[0] = [c \in ErrorClass |-> c]
  /\ \A n \in 1 .. Depth : Ancestor[n] = [c \in ErrorClass |-> Parent[Ancestor[n - 1][c]]]
<1> DEFINE A0 == [c \in ErrorClass |-> c]
           A1 == [c \in ErrorClass |-> Parent[A0[c]]]
           A2 == [c \in ErrorClass |-> Parent[A1[c]]]
           A3 == [c \in ErrorClass |-> Parent[A2[c]]]
           g == [n \in 0 .. 3 |-> IF n = 0 THEN A0 ELSE IF n = 1 THEN A1 ELSE IF n = 2 THEN A2 ELSE A3]
<1>1. g[0] = A0 /\ g[1] = A1 /\ g[2] = A2 /\ g[3] = A3
  OBVIOUS
<1>2. \A n \in 0 .. 3 :
         g[n] = [c \in ErrorClass |-> IF n = 0 THEN c ELSE Parent[g[n - 1][c]]]
  <2>1. TAKE n \in 0 .. 3
  <2>2. n = 0 \/ n = 1 \/ n = 2 \/ n = 3
    OBVIOUS
  <2> HIDE DEF g
  <2>3. CASE n = 0
    BY <1>1, <2>3 DEF A0
  <2>4. CASE n = 1
    BY <1>1, <2>4 DEF A1
  <2>5. CASE n = 2
    BY <1>1, <2>5 DEF A2
  <2>6. CASE n = 3
    BY <1>1, <2>6 DEF A3
  <2>7. QED
    BY <2>2, <2>3, <2>4, <2>5, <2>6
<1>3. g = [n \in 0 .. 3 |-> g[n]]
  OBVIOUS
<1> HIDE DEF g, A0, A1, A2, A3
<1>4. g = [n \in 0 .. 3 |-> [c \in ErrorClass |-> IF n = 0 THEN c ELSE Parent[g[n - 1][c]]]]
  BY <1>2, <1>3
<1>5. Ancestor = [n \in 0 .. 3 |-> [c \in ErrorClass |-> IF n = 0 THEN c ELSE Parent[Ancestor[n - 1][c]]]]
  BY <1>4 DEF Ancestor, Depth
<1>6. QED
  BY <1>5 DEF Depth

\* What n steps up are.
LEMMA AncestorOf ==
  ASSUME NEW c \in ErrorClass
  PROVE  /\ Ancestor[0][c] = c
         /\ Ancestor[1][c] = Parent[c]
         /\ Ancestor[2][c] = Parent[Parent[c]]
         /\ Ancestor[3][c] = Parent[Parent[Parent[c]]]
<1>1. Ancestor[0][c] = c
  BY AncestorSteps
<1>2. Ancestor[1][c] = Parent[Ancestor[0][c]]
  BY AncestorSteps DEF Depth
<1>3. Ancestor[2][c] = Parent[Ancestor[1][c]]
  BY AncestorSteps DEF Depth
<1>4. Ancestor[3][c] = Parent[Ancestor[2][c]]
  BY AncestorSteps DEF Depth
<1>5. QED
  BY <1>1, <1>2, <1>3, <1>4

\* isinstance, without the recursion.
LEMMA IsAncestor ==
  ASSUME NEW c \in ErrorClass, NEW d
  PROVE  IsA(c, d) <=> d \in {c, Parent[c], Parent[Parent[c]], Parent[Parent[Parent[c]]]}
<1>1. \A n \in 0 .. 3 : n = 0 \/ n = 1 \/ n = 2 \/ n = 3
  OBVIOUS
<1>2. QED
  BY <1>1, AncestorOf DEF IsA, Depth

\* Every class but a cancellation is an Exception.
LEMMA AllAreExceptions ==
  ASSUME NEW c \in ErrorClass, c # "Cancelled"
  PROVE  IsA(c, "Exception")
<1>1. "Exception" \in {c, Parent[c], Parent[Parent[c]], Parent[Parent[Parent[c]]]}
  BY DEF ErrorClass, Parent
<1>2. QED
  BY <1>1, IsAncestor

\* An error of the database is nothing else, and is reported as 503.
LEMMA DatabaseStatus ==
  ASSUME NEW code
  PROVE  Handled("SQLAlchemyError") /\ StatusOf("SQLAlchemyError", code) = 503
<1>1. "SQLAlchemyError" \in ErrorClass /\ Parent["SQLAlchemyError"] = "Exception" /\ Parent["Exception"] = "Exception"
  BY DEF ErrorClass, Parent
<1>2. \A d : IsA("SQLAlchemyError", d) <=> d \in {"SQLAlchemyError", "Exception"}
  BY <1>1, IsAncestor
<1>3. QED
  BY <1>2 DEF Handled, Registered, StatusOf

\* A set of rows has a first one.
LEMMA FirstRow ==
  ASSUME NEW rows, rows \subseteq 1 .. 11, rows # {}
  PROVE  \E i \in rows : \A j \in rows : i <= j
<1>1. PICK k \in rows : TRUE
  OBVIOUS
<1>2. QED
  BY <1>1

\* Every row of the table is a client or a server error.
LEMMA RowStatus ==
  /\ DOMAIN Mappings = 1 .. 11
  /\ \A i \in 1 .. 11 : Mappings[i][2] \in 400 .. 503
BY DEF Mappings

\* So is what the table answers for any class.
LEMMA BusinessStatusRange ==
  ASSUME NEW c
  PROVE  BusinessStatus(c) \in 400 .. 503
<1> DEFINE rows == {i \in DOMAIN Mappings : IsA(c, Mappings[i][1])}
<1>1. rows \subseteq 1 .. 11
  BY RowStatus
<1>2. CASE rows = {}
  BY <1>2 DEF BusinessStatus
<1>3. CASE rows # {}
  <2> DEFINE first == CHOOSE i \in rows : \A j \in rows : i <= j
  <2>1. first \in rows
    BY <1>1, <1>3, FirstRow
  <2>2. Mappings[first][2] \in 400 .. 503
    BY <1>1, <2>1, RowStatus
  <2>3. QED
    BY <1>3, <2>2 DEF BusinessStatus
<1>4. QED
  BY <1>2, <1>3

\* A handler never answers a success.
LEMMA HandlersRefuse ==
  ASSUME NEW c \in ErrorClass, Handled(c), NEW code \in {400, 404, 405, 429}
  PROVE  StatusOf(c, code) \in 400 .. 503
BY BusinessStatusRange DEF Handled, Registered, StatusOf

-----------------------------------------------------------------------------
(* RequestPipeline: the inductive invariant *)

\* The phases inside the route; control is with the innermost layer.
Inside == {"parse", "endpoint", "exit", "respond"}

\* What each phase says of the position, of the exception and of the response:
\* on the way down nothing has happened yet, inside the route nothing was
\* raised yet and a response is there only when the dependencies exit late,
\* and no request comes back up without a response or an exception.
PhaseOK ==
    /\ phase = "down" => layer < 11 /\ exc = "none" /\ wire = <<>> /\ received = 0 /\ tx = "none"
    /\ phase \in Inside => layer = 11 /\ exc = "none"
    /\ phase \in Inside /\ wire # <<>> => phase = "exit" /\ lateExit
    /\ phase = "exit" /\ lateExit => wire # <<>>
    /\ phase \in {"up", "done"} /\ wire = <<>> => exc # "none"
    /\ phase = "done" => layer = 1

\* The response on the connection: at most one, noted by the two middlewares
\* that watch for it, and started outside the log only as a 500.
WireOK ==
    /\ Len(wire) <= 1
    /\ wire = <<>> => captured = 500 /\ ~started
    /\ wire # <<>> => captured = wire[1].status
    /\ wire # <<>> => "request_context" \in wire[1].headers
    /\ wire # <<>> => {"timing", "security"} \subseteq wire[1].headers \/ wire[1].status = 500
    /\ layer > 1 /\ wire # <<>> => started

\* The log has its line once control has left the access log, and nobody but a
\* cancellation leaves the layer outside it unanswered.
LogOK ==
    /\ IF phase = "done" \/ (phase = "up" /\ layer < 3) THEN logged = <<captured>> ELSE logged = <<>>
    /\ phase \in {"up", "done"} /\ layer = 1 /\ wire = <<>> => exc = "Cancelled"

\* A body that was found too large has no response yet.
StreamedOK == exc = "RequestBodyTooLargeError" => wire = <<>>

\* Nothing oversized gets into the route, and nothing oversized is read there
\* without an exception.
SizeOK ==
    /\ phase \in Inside \/ (phase = "down" /\ layer > 9) => (request.declared = "length" => request.size <= Limit)
    /\ phase \in Inside => received <= Limit

\* What happens to a failed commit when the dependencies exit in time.
CommitOK ==
    /\ phase \in Inside => tx # "failed"
    /\ tx = "failed" /\ ~lateExit =>
         IF phase = "up" /\ layer >= 10
           THEN exc = "SQLAlchemyError" /\ wire = <<>>
           ELSE wire # <<>> /\ wire[1].status = 503

PipelineIInv ==
    /\ TypeOK
    /\ PhaseOK /\ WireOK /\ LogOK /\ StreamedOK /\ SizeOK /\ CommitOK
    /\ OversizedNeverSucceeds

-----------------------------------------------------------------------------
(* RequestPipeline: the invariant holds initially and is preserved *)

\* The set of what a response may be.
Response == [status : 200 .. 503, headers : SUBSET {"request_context", "timing", "security"}]

\* A request starts at the outermost layer, with nothing on the connection.
LEMMA InitPipelineIInv == Init => PipelineIInv
<1> SUFFICES ASSUME Init PROVE PipelineIInv
  OBVIOUS
<1>1. request \in Request /\ request.size \in Nat /\ lateExit \in BOOLEAN
  BY LimitAssumption DEF Init, Request
<1>2. Limit \in Nat
  BY LimitAssumption DEF Limit
<1>3. wire = <<>> /\ Len(wire) = 0
  BY DEF Init
<1>4. TypeOK
  <2>1. wire \in Seq(Response) /\ logged \in Seq(200 .. 503)
    BY DEF Init
  <2>2. captured \in 200 .. 503 /\ layer \in 1 .. 11 /\ received \in 0 .. request.size
    BY <1>1 DEF Init, DefaultStatus
  <2>3. QED
    BY <1>1, <2>1, <2>2, LayerNames DEF Init, TypeOK, Response
<1>5. PhaseOK /\ WireOK /\ LogOK /\ StreamedOK /\ CommitOK
  BY <1>3 DEF Init, PhaseOK, WireOK, LogOK, StreamedOK, CommitOK, Inside, DefaultStatus
<1>6. SizeOK /\ OversizedNeverSucceeds
  BY <1>1, <1>2, <1>3 DEF Init, SizeOK, Inside, OversizedNeverSucceeds
<1>7. QED
  BY <1>4, <1>5, <1>6 DEF PipelineIInv

\* The first response on a connection.
LEMMA OneResponse ==
  ASSUME NEW e \in Response, NEW w, w = Append(<<>>, e)
  PROVE  w \in Seq(Response) /\ Len(w) = 1 /\ w # <<>> /\ DOMAIN w = {1} /\ w[1] = e
<1>1. w = <<e>>
  OBVIOUS
<1>2. QED
  BY <1>1

\* The phases on the way down and inside the route.
LEMMA AnswersIInv ==
  ASSUME PipelineIInv, NEW l \in {"cors", "trusted_host", "body_limit"}, NEW status \in {200, 400, 413},
         status = 200 => request.gate = "preflight",
         Answers(l, status)
  PROVE  PipelineIInv'
<1>0. /\ phase = "down" /\ phase' = "up" /\ Layers[layer] = l
      /\ Starts(l, status)
      /\ UNCHANGED <<request, lateExit, layer, exc, http, received, answer, tx, logged>>
  BY DEF Answers
<1>1. /\ TypeOK /\ wire = <<>> /\ exc = "none" /\ received = 0 /\ tx = "none" /\ logged = <<>> /\ layer \in 1 .. 11
      /\ layer < 11
  BY <1>0, LayerNames DEF PipelineIInv, PhaseOK, LogOK, TypeOK
<1>2. layer > 3
  BY <1>0, <1>1, LayerNames
<1>3. status \in 200 .. 503 /\ l \in {"cors", "trusted_host", "body_limit", "exceptions", "route"}
  OBVIOUS
<1>4. /\ wire' \in Seq(Response)
      /\ Len(wire') = 1 /\ wire' # <<>> /\ DOMAIN wire' = {1}
      /\ wire'[1].status = status /\ wire'[1].headers = {"request_context", "timing", "security"}
      /\ captured' = status /\ started' = TRUE
  <2> DEFINE e == [status |-> status, headers |-> Headers(l)]
  <2>1. Headers(l) = {"request_context", "timing", "security"}
    BY <1>0, <1>1, <1>3, InnerLayer
  <2>2. e \in Response /\ e.status = status /\ e.headers = {"request_context", "timing", "security"}
    BY <1>0, <1>1, <1>3, <2>1 DEF Response
  <2>3. wire' = Append(<<>>, e) /\ captured' = status /\ started' = TRUE
    BY <1>0, <1>1, <1>3, InnerLayer DEF Starts
  <2> HIDE DEF e
  <2>4. QED
    BY <2>2, <2>3, OneResponse
<1>5. TypeOK'
  BY <1>0, <1>1, <1>3, <1>4 DEF TypeOK, Response
<1>6. PhaseOK' /\ WireOK' /\ LogOK' /\ StreamedOK' /\ CommitOK'
  BY <1>0, <1>1, <1>2, <1>4 DEF PhaseOK, WireOK, LogOK, StreamedOK, CommitOK, Inside
<1>7. SizeOK'
  BY <1>0 DEF SizeOK, Inside
<1>8. OversizedNeverSucceeds'
  BY <1>0, <1>4 DEF OversizedNeverSucceeds
<1>9. QED
  BY <1>5, <1>6, <1>7, <1>8 DEF PipelineIInv

\* A layer calls the next one; past the body limit the declared size is right.
LEMMA DescendIInv ==
  ASSUME PipelineIInv, Descend
  PROVE  PipelineIInv'
<1>0. /\ phase = "down" /\ layer' = layer + 1
      /\ phase' = (IF Layers[layer'] = "route" THEN "parse" ELSE "down")
      /\ UNCHANGED <<request, lateExit, exc, http, received, answer, tx, wire, captured, started, logged>>
  BY DEF Descend
<1>1. /\ TypeOK /\ wire = <<>> /\ exc = "none" /\ received = 0 /\ tx = "none" /\ logged = <<>>
      /\ layer \in 1 .. 10 /\ captured = 500 /\ ~started /\ Len(wire) <= 1
  BY <1>0, LayerNames DEF PipelineIInv, PhaseOK, WireOK, LogOK, TypeOK
<1>2. layer' \in 1 .. 11 /\ (layer' = 11 <=> phase' = "parse") /\ (layer' # 11 <=> phase' = "down")
  BY <1>0, <1>1, LayerNames
<1>3. layer = 9 => (request.declared = "length" => request.size <= Limit)
  <2>1. SUFFICES ASSUME layer = 9 PROVE request.declared = "length" => request.size <= Limit
    OBVIOUS
  <2>2. Layers[layer] = "body_limit"
    BY <2>1, LayerNames
  <2>3. ~DeclaredTooLarge
    BY <2>2 DEF Descend
  <2>4. request.size \in Nat /\ Limit \in Nat
    BY <1>1, LimitAssumption DEF TypeOK, Request, Limit
  <2>5. QED
    BY <2>3, <2>4 DEF DeclaredTooLarge
<1>4. TypeOK'
  BY <1>0, <1>1, <1>2, LayerNames DEF TypeOK
<1>5. PhaseOK' /\ WireOK' /\ LogOK' /\ StreamedOK' /\ CommitOK'
  BY <1>0, <1>1, <1>2 DEF PhaseOK, WireOK, LogOK, StreamedOK, CommitOK, Inside
<1>6. Limit \in Nat /\ Limit' = Limit
  BY <1>0, LimitAssumption DEF Limit
<1>7. SizeOK'
  BY <1>0, <1>1, <1>2, <1>3, <1>6 DEF SizeOK, Inside, PipelineIInv
<1>8. OversizedNeverSucceeds'
  BY <1>0, <1>6 DEF OversizedNeverSucceeds, PipelineIInv
<1>9. QED
  BY <1>4, <1>5, <1>7, <1>8 DEF PipelineIInv

\* A step inside the route that starts no response.
LEMMA SilentIInv ==
  ASSUME PipelineIInv, phase \in Inside, TypeOK',
         UNCHANGED <<request, lateExit, layer, wire, captured, started, logged>>,
         \/ phase' \in Inside /\ exc' = "none" /\ received' <= Limit
         \/ phase' = "up" /\ exc' # "none"
         \/ phase' = "up" /\ wire # <<>>,
         phase' = "exit" /\ lateExit => wire # <<>>,
         phase' \in Inside /\ wire # <<>> => phase' = "exit" /\ lateExit,
         wire # <<>> => UNCHANGED received,
         exc' = "RequestBodyTooLargeError" => wire = <<>>,
         tx' = "failed" => phase' = "up" /\ exc' = "SQLAlchemyError" /\ (~lateExit => wire = <<>>)
  PROVE  PipelineIInv'
<1>1. layer = 11 /\ exc = "none" /\ logged = <<>> /\ phase # "down" /\ phase # "up" /\ phase # "done"
  BY DEF PipelineIInv, PhaseOK, LogOK, Inside
<1>2. phase' # "down" /\ phase' # "done"
  BY DEF Inside
<1>3. PhaseOK'
  BY <1>1, <1>2 DEF PipelineIInv, PhaseOK, Inside
<1>4. WireOK'
  BY DEF PipelineIInv, WireOK
<1>5. LogOK' /\ StreamedOK'
  BY <1>1, <1>2 DEF PipelineIInv, LogOK, StreamedOK
<1>6. Limit' = Limit
  BY DEF Limit
<1>7. SizeOK'
  BY <1>2, <1>6 DEF PipelineIInv, SizeOK, Inside
<1>8. CommitOK'
  BY <1>1, <1>2 DEF PipelineIInv, CommitOK, Inside
<1>9. OversizedNeverSucceeds'
  <2>1. CASE wire = <<>>
    BY <2>1 DEF OversizedNeverSucceeds
  <2>2. CASE wire # <<>>
    BY <2>2, <1>6 DEF PipelineIInv, OversizedNeverSucceeds
  <2>3. QED
    BY <2>1, <2>2
<1>10. QED
  BY <1>3, <1>4, <1>5, <1>7, <1>8, <1>9 DEF PipelineIInv

\* The classes that the pipeline names.
LEMMA ErrorNames ==
  /\ {"RequestBodyTooLargeError", "HTTPException", "RequestValidationError", "SQLAlchemyError", "Unknown"} \subseteq ErrorClass
  /\ "none" \notin ErrorClass
BY DEF ErrorClass, Parent

\* A byte arrives, and may be one too many.
LEMMA ReceiveIInv ==
  ASSUME PipelineIInv, Receive
  PROVE  PipelineIInv'
<1>0. /\ phase = "parse" /\ received < request.size /\ received' = received + 1
      /\ UNCHANGED <<request, lateExit, layer, answer, tx, wire, captured, started, logged>>
  BY DEF Receive
<1>1. phase \in Inside /\ TypeOK /\ wire = <<>> /\ exc = "none" /\ tx # "failed"
  BY <1>0 DEF PipelineIInv, PhaseOK, CommitOK, Inside
<1>2. request.size \in Nat /\ received \in Nat /\ received' \in 0 .. request.size /\ Limit \in Nat
  BY <1>0, <1>1, LimitAssumption DEF TypeOK, Request, Limit
<1>3. \/ phase' = "parse" /\ UNCHANGED <<exc, http>> /\ received' <= Limit
      \/ phase' = "up" /\ exc' \in {"RequestBodyTooLargeError", "HTTPException"} /\ http' \in {http, 400}
  BY <1>0, <1>2 DEF Receive, Ends, StreamTooLarge
<1>4. TypeOK'
  BY <1>0, <1>1, <1>2, <1>3, ErrorNames DEF TypeOK
<1>5. (phase' # "exit" /\ exc' # "none") \/ phase' = "parse"
  BY <1>3
<1>6. QED
  BY <1>0, <1>1, <1>3, <1>4, <1>5, SilentIInv DEF Inside

\* The framework refuses the request.
LEMMA RefuseIInv ==
  ASSUME PipelineIInv, Refuse
  PROVE  PipelineIInv'
<1>0. /\ phase = "parse" /\ phase' = "up" /\ exc' \in {"RequestValidationError", "HTTPException"}
      /\ http' \in {http, 404, 405}
      /\ UNCHANGED <<request, lateExit, layer, received, answer, tx, wire, captured, started, logged>>
  BY DEF Refuse, Ends
<1>1. phase \in Inside /\ TypeOK /\ wire = <<>> /\ tx # "failed"
  BY <1>0 DEF PipelineIInv, PhaseOK, CommitOK, Inside
<1>2. TypeOK'
  BY <1>0, <1>1, ErrorNames DEF TypeOK
<1>3. exc' # "none" /\ exc' # "RequestBodyTooLargeError"
  BY <1>0
<1>4. QED
  BY <1>0, <1>1, <1>2, <1>3, SilentIInv DEF Inside

\* The transaction begins, or fails to.
LEMMA OpenIInv ==
  ASSUME PipelineIInv, Open
  PROVE  PipelineIInv'
<1>0. /\ phase = "parse"
      /\ \/ phase' = "endpoint" /\ tx' \in {"open", "none"} /\ UNCHANGED exc
         \/ phase' = "up" /\ exc' = "SQLAlchemyError" /\ UNCHANGED tx
      /\ UNCHANGED <<request, lateExit, layer, http, received, answer, wire, captured, started, logged>>
  BY DEF Open, Ends
<1>1. phase \in Inside /\ TypeOK /\ wire = <<>> /\ exc = "none" /\ tx # "failed" /\ received <= Limit
  BY <1>0 DEF PipelineIInv, PhaseOK, CommitOK, SizeOK, Inside
<1>2. TypeOK'
  BY <1>0, <1>1, ErrorNames DEF TypeOK
<1>3. QED
  BY <1>0, <1>1, <1>2, SilentIInv DEF Inside

\* The endpoint returns.
LEMMA ReturnIInv ==
  ASSUME PipelineIInv, Return
  PROVE  PipelineIInv'
<1>0. /\ phase = "endpoint" /\ answer' \in {200, 401} /\ phase' = (IF lateExit THEN "respond" ELSE "exit")
      /\ UNCHANGED <<request, lateExit, layer, exc, http, received, tx, wire, captured, started, logged>>
  BY DEF Return
<1>1. phase \in Inside /\ TypeOK /\ wire = <<>> /\ exc = "none" /\ tx # "failed" /\ received <= Limit
  BY <1>0 DEF PipelineIInv, PhaseOK, CommitOK, SizeOK, Inside
<1>2. TypeOK'
  BY <1>0, <1>1 DEF TypeOK
<1>3. QED
  BY <1>0, <1>1, <1>2, SilentIInv DEF Inside

\* The endpoint raises, and its transaction is rolled back.
LEMMA RaiseIInv ==
  ASSUME PipelineIInv, NEW c \in Raised, Raise(c)
  PROVE  PipelineIInv'
<1>0. /\ phase = "endpoint" /\ phase' = "up" /\ exc' = c
      /\ http' \in {429, http} /\ tx' \in {"rolled_back", tx}
      /\ UNCHANGED <<request, lateExit, layer, received, answer, wire, captured, started, logged>>
  BY DEF Raise, Ends
<1>1. phase \in Inside /\ TypeOK /\ wire = <<>> /\ tx # "failed" /\ tx' # "failed"
  BY <1>0 DEF PipelineIInv, PhaseOK, CommitOK, Inside
<1>2. TypeOK'
  BY <1>0, <1>1 DEF TypeOK, Raised
<1>3. exc' # "none" /\ exc' # "RequestBodyTooLargeError"
  BY <1>0, ErrorNames DEF Raised
<1>4. QED
  BY <1>0, <1>1, <1>2, <1>3, SilentIInv DEF Inside

\* The transaction commits, or fails to.
LEMMA ExitIInv ==
  ASSUME PipelineIInv, Exit
  PROVE  PipelineIInv'
<1>0. /\ phase = "exit"
      /\ \/ tx' \in {"committed", tx} /\ phase' = (IF lateExit THEN "up" ELSE "respond") /\ UNCHANGED exc
         \/ tx' = "failed" /\ exc' = "SQLAlchemyError" /\ phase' = "up"
      /\ UNCHANGED <<request, lateExit, layer, http, received, answer, wire, captured, started, logged>>
  BY DEF Exit, CommitFailure
<1>1. /\ phase \in Inside /\ TypeOK /\ exc = "none" /\ tx # "failed" /\ received <= Limit
      /\ wire # <<>> <=> lateExit
  BY <1>0 DEF PipelineIInv, PhaseOK, CommitOK, SizeOK, Inside
<1>2. TypeOK'
  BY <1>0, <1>1, ErrorNames DEF TypeOK
<1>3. QED
  BY <1>0, <1>1, <1>2, SilentIInv DEF Inside

\* The route starts its response.
LEMMA RespondIInv ==
  ASSUME PipelineIInv, Respond
  PROVE  PipelineIInv'
<1>0. /\ phase = "respond" /\ phase' = (IF lateExit THEN "exit" ELSE "up")
      /\ Starts("route", answer)
      /\ UNCHANGED <<request, lateExit, layer, exc, http, received, answer, tx, logged>>
  BY DEF Respond
<1>1. /\ TypeOK /\ wire = <<>> /\ exc = "none" /\ tx # "failed" /\ logged = <<>> /\ layer = 11
      /\ received <= Limit
      /\ request.declared = "length" => request.size <= Limit
  BY <1>0 DEF PipelineIInv, PhaseOK, LogOK, CommitOK, SizeOK, Inside
<1>2. answer \in 200 .. 503 /\ "route" \in {"cors", "trusted_host", "body_limit", "exceptions", "route"}
  BY <1>1 DEF TypeOK
<1>3. /\ wire' \in Seq(Response)
      /\ Len(wire') = 1 /\ wire' # <<>> /\ DOMAIN wire' = {1}
      /\ wire'[1].status = answer /\ wire'[1].headers = {"request_context", "timing", "security"}
      /\ captured' = answer /\ started' = TRUE
  <2> DEFINE e == [status |-> answer, headers |-> Headers("route")]
  <2>1. Headers("route") = {"request_context", "timing", "security"}
    BY <1>0, <1>1, <1>2, InnerLayer
  <2>2. e \in Response /\ e.status = answer /\ e.headers = {"request_context", "timing", "security"}
    BY <1>0, <1>1, <1>2, <2>1 DEF Response
  <2>3. wire' = Append(<<>>, e) /\ captured' = answer /\ started' = TRUE
    BY <1>0, <1>1, <1>2, InnerLayer DEF Starts
  <2> HIDE DEF e
  <2>4. QED
    BY <2>2, <2>3, OneResponse
<1>4. TypeOK'
  BY <1>0, <1>1, <1>2, <1>3 DEF TypeOK, Response
<1>5. PhaseOK' /\ WireOK' /\ LogOK' /\ StreamedOK' /\ CommitOK'
  BY <1>0, <1>1, <1>3 DEF PhaseOK, WireOK, LogOK, StreamedOK, CommitOK, Inside
<1>6. Limit' = Limit
  BY <1>0 DEF Limit
<1>7. SizeOK'
  BY <1>0, <1>1, <1>6 DEF SizeOK, Inside
<1>8. OversizedNeverSucceeds'
  BY <1>0, <1>1, <1>3, <1>6 DEF OversizedNeverSucceeds
<1>9. QED
  BY <1>4, <1>5, <1>7, <1>8 DEF PipelineIInv

\* Control passes one layer up.
LEMMA UpOneLayer ==
  ASSUME PipelineIInv, Ascend
  PROVE  /\ phase = "up" /\ layer \in 1 .. 11 /\ layer' \in 1 .. 11
         /\ layer = 1 => phase' = "done" /\ layer' = 1
         /\ layer > 1 => phase' = "up" /\ layer' = layer - 1
         /\ UNCHANGED <<request, lateExit, http, received, answer, tx>>
         /\ Limit' = Limit
<1>1. layer \in 1 .. 11 /\ phase = "up"
  BY LayerNames DEF Ascend, PipelineIInv, TypeOK
<1>2. QED
  BY <1>1 DEF Ascend, Limit

\* A layer lets the response or the exception pass: every layer but four, and
\* those four when the exception is not theirs.
LEMMA PassIInv ==
  ASSUME PipelineIInv, Ascend, Quiet, exc' = exc, logged' = logged, layer # 3,
         layer = 10 => exc # "SQLAlchemyError" \/ wire # <<>>,
         layer = 2 /\ wire = <<>> => exc = "Cancelled"
  PROVE  PipelineIInv'
<1>0. /\ phase = "up" /\ layer \in 1 .. 11 /\ layer' \in 1 .. 11
      /\ layer = 1 => phase' = "done" /\ layer' = 1
      /\ layer > 1 => phase' = "up" /\ layer' = layer - 1
      /\ UNCHANGED <<request, lateExit, http, received, answer, tx>>
      /\ Limit' = Limit
  BY UpOneLayer
<1>1. UNCHANGED <<wire, captured, started>> /\ phase' \in {"up", "done"} /\ phase' \notin Inside
  BY <1>0 DEF Quiet, Inside
<1>2. TypeOK'
  BY <1>0, <1>1, LayerNames DEF PipelineIInv, TypeOK
<1>3. PhaseOK'
  BY <1>0, <1>1 DEF PipelineIInv, PhaseOK
<1>4. WireOK'
  BY <1>0, <1>1 DEF PipelineIInv, WireOK
<1>5. LogOK'
  BY <1>0, <1>1 DEF PipelineIInv, LogOK
<1>6. StreamedOK' /\ SizeOK'
  BY <1>0, <1>1 DEF PipelineIInv, StreamedOK, SizeOK
<1>7. CommitOK'
  BY <1>0, <1>1 DEF PipelineIInv, CommitOK
<1>8. OversizedNeverSucceeds'
  BY <1>0, <1>1 DEF PipelineIInv, OversizedNeverSucceeds
<1>9. QED
  BY <1>2, <1>3, <1>4, <1>5, <1>6, <1>7, <1>8 DEF PipelineIInv

\* What a layer inside the access log answers.
LEMMA Answered ==
  ASSUME wire = <<>>, NEW l \in {"body_limit", "exceptions"}, NEW status \in 400 .. 503, Starts(l, status)
  PROVE  \E e \in Response :
            /\ e.status = status /\ e.headers = {"request_context", "timing", "security"}
            /\ wire' = Append(<<>>, e) /\ captured' = status /\ started' = TRUE
<1> DEFINE e == [status |-> status, headers |-> Headers(l)]
<1>1. Headers(l) = {"request_context", "timing", "security"}
  BY InnerLayer
<1>2. e \in Response /\ e.status = status /\ e.headers = {"request_context", "timing", "security"}
  BY <1>1 DEF Response
<1>3. wire' = Append(<<>>, e) /\ captured' = status /\ started' = TRUE
  BY InnerLayer DEF Starts
<1> HIDE DEF e
<1>4. QED
  BY <1>2, <1>3

\* A layer inside the access log answers what reached it.
LEMMA AnsweredIInv ==
  ASSUME PipelineIInv, Ascend, wire = <<>>, exc' = "none", logged' = logged, layer > 3, layer < 11,
         NEW e \in Response, e.status \in 400 .. 503, e.headers = {"request_context", "timing", "security"},
         wire' = Append(<<>>, e), captured' = e.status, started' = TRUE,
         tx = "failed" /\ ~lateExit => e.status = 503
  PROVE  PipelineIInv'
<1>0. /\ phase = "up" /\ layer \in 1 .. 11 /\ layer' \in 1 .. 11
      /\ phase' = "up" /\ layer' = layer - 1
      /\ UNCHANGED <<request, lateExit, http, received, answer, tx>>
      /\ Limit' = Limit
  BY UpOneLayer
<1>1. e.status \in 200 .. 503
  BY DEF Response
<1>2. wire' \in Seq(Response) /\ Len(wire') = 1 /\ wire' # <<>> /\ DOMAIN wire' = {1} /\ wire'[1] = e
  BY OneResponse
<1>3. TypeOK'
  BY <1>0, <1>1, <1>2, LayerNames DEF PipelineIInv, TypeOK, Response
<1>4. PhaseOK' /\ WireOK' /\ StreamedOK' /\ SizeOK'
  BY <1>0, <1>2 DEF PhaseOK, WireOK, StreamedOK, SizeOK, Inside
<1>5. LogOK'
  BY <1>0, <1>2 DEF PipelineIInv, LogOK
<1>6. CommitOK'
  BY <1>0, <1>2 DEF CommitOK, Inside
<1>7. OversizedNeverSucceeds'
  <2>1. \A n \in 400 .. 503 : ~(n < 400)
    OBVIOUS
  <2>2. \A i \in DOMAIN wire' : wire'[i].status = e.status
    BY <1>2
  <2>3. ~(e.status < 400)
    <3>1. PICK n \in 400 .. 503 : e.status = n
      OBVIOUS
    <3>2. ~(n < 400)
      BY <2>1
    <3>3. QED
      BY <3>1, <3>2
  <2>4. \A i \in DOMAIN wire' : ~(wire'[i].status < 400)
    BY <2>2, <2>3, Zenon
  <2>5. QED
    BY <2>4 DEF OversizedNeverSucceeds
<1>8. QED
  BY <1>3, <1>4, <1>5, <1>6, <1>7 DEF PipelineIInv

\* The handlers answer what they know, unless a response was started.
LEMMA HandleExceptionIInv ==
  ASSUME PipelineIInv, Ascend, HandleException
  PROVE  PipelineIInv'
<1>0. /\ phase = "up" /\ layer \in 1 .. 11 /\ layer' \in 1 .. 11
      /\ layer > 1 => phase' = "up" /\ layer' = layer - 1
      /\ UNCHANGED <<request, lateExit, http, received, answer, tx>>
      /\ Limit' = Limit
  BY UpOneLayer
<1>1. layer = 10 /\ logged' = logged
  BY <1>0, LayerNames DEF HandleException
<1>2. exc \in ErrorClass \cup {"none"} /\ http \in {400, 404, 405, 429}
  BY DEF PipelineIInv, TypeOK
<1>3. CASE exc # "none" /\ Handled(exc) /\ wire = <<>>
  <2>1. Starts("exceptions", StatusOf(exc, http)) /\ exc' = "none"
    BY <1>3 DEF HandleException
  <2>2. StatusOf(exc, http) \in 400 .. 503
    <3>1. exc \in ErrorClass /\ Handled(exc)
      BY <1>2, <1>3
    <3>2. QED
      BY <1>2, <3>1, HandlersRefuse
  <2>3. tx = "failed" /\ ~lateExit => StatusOf(exc, http) = 503
    BY <1>0, <1>1, DatabaseStatus DEF PipelineIInv, CommitOK
  <2>4. PICK s \in 400 .. 503 : s = StatusOf(exc, http)
    BY <2>2
  <2>5. Starts("exceptions", s)
    BY <2>1, <2>4 DEF Starts
  <2>6. PICK e \in Response :
           /\ e.status = s /\ e.headers = {"request_context", "timing", "security"}
           /\ wire' = Append(<<>>, e) /\ captured' = s /\ started' = TRUE
    BY <1>3, <2>5, Answered
  <2>7. e.status \in 400 .. 503 /\ captured' = e.status /\ (tx = "failed" /\ ~lateExit => e.status = 503)
    BY <2>3, <2>4, <2>6
  <2>8. layer > 3 /\ layer < 11
    BY <1>1
  <2>9. QED
    BY <1>1, <1>3, <2>1, <2>6, <2>7, <2>8, AnsweredIInv
<1>4. CASE exc # "none" /\ Handled(exc) /\ wire # <<>>
  <2>1. Quiet /\ exc' = "Unknown"
    BY <1>4 DEF HandleException
  <2>2. UNCHANGED <<wire, captured, started>> /\ phase' = "up" /\ layer' = 9
    BY <1>0, <1>1, <2>1 DEF Quiet
  <2>3. TypeOK'
    BY <1>0, <1>1, <2>1, <2>2, LayerNames, ErrorNames DEF PipelineIInv, TypeOK
  <2>4. PhaseOK' /\ StreamedOK' /\ SizeOK'
    BY <1>4, <2>1, <2>2 DEF PhaseOK, StreamedOK, SizeOK, Inside
  <2>5. WireOK' /\ LogOK'
    BY <1>0, <1>1, <1>4, <2>2 DEF PipelineIInv, WireOK, LogOK
  <2>6. CommitOK'
    BY <1>0, <1>1, <1>4, <2>2 DEF PipelineIInv, CommitOK, Inside
  <2>7. OversizedNeverSucceeds'
    BY <1>0, <2>2 DEF PipelineIInv, OversizedNeverSucceeds
  <2>8. QED
    BY <2>3, <2>4, <2>5, <2>6, <2>7 DEF PipelineIInv
<1>5. CASE ~(exc # "none" /\ Handled(exc))
  <2>1. Quiet /\ exc' = exc
    BY <1>5 DEF HandleException
  <2>2. exc # "SQLAlchemyError"
    BY <1>5, DatabaseStatus
  <2>3. QED
    BY <1>1, <2>1, <2>2, PassIInv
<1>6. QED
  BY <1>3, <1>4, <1>5

\* The body limit answers its own exception, which has met no response.
LEMMA RejectStreamedIInv ==
  ASSUME PipelineIInv, Ascend, RejectStreamed
  PROVE  PipelineIInv'
<1>0. phase = "up" /\ layer \in 1 .. 11
  BY UpOneLayer
<1>1. layer = 9 /\ logged' = logged
  BY <1>0, LayerNames DEF RejectStreamed
<1>2. CASE exc = "RequestBodyTooLargeError"
  <2>1. wire = <<>> /\ exc' = "none" /\ Starts("body_limit", 413)
    BY <1>2 DEF RejectStreamed, PipelineIInv, StreamedOK
  <2>2. ~(tx = "failed" /\ ~lateExit)
    BY <1>0, <1>1, <2>1 DEF PipelineIInv, CommitOK
  <2>3. PICK s \in 400 .. 503 : s = 413
    OBVIOUS
  <2>4. Starts("body_limit", s)
    BY <2>1, <2>3 DEF Starts
  <2>5. PICK e \in Response :
           /\ e.status = s /\ e.headers = {"request_context", "timing", "security"}
           /\ wire' = Append(<<>>, e) /\ captured' = s /\ started' = TRUE
    BY <2>1, <2>4, Answered
  <2>6. e.status \in 400 .. 503 /\ captured' = e.status /\ layer > 3 /\ layer < 11
    BY <1>1, <2>3, <2>5
  <2>7. QED
    BY <1>1, <2>1, <2>2, <2>5, <2>6, AnsweredIInv
<1>3. CASE exc # "RequestBodyTooLargeError"
  BY <1>1, <1>3, PassIInv DEF RejectStreamed
<1>4. QED
  BY <1>2, <1>3

\* The access log writes the status it has noted.
LEMMA LogIInv ==
  ASSUME PipelineIInv, Ascend, Log
  PROVE  PipelineIInv'
<1>0. /\ phase = "up" /\ layer \in 1 .. 11 /\ layer' \in 1 .. 11
      /\ layer > 1 => phase' = "up" /\ layer' = layer - 1
      /\ UNCHANGED <<request, lateExit, http, received, answer, tx>>
      /\ Limit' = Limit
  BY UpOneLayer
<1>1. layer = 3 /\ phase' = "up" /\ layer' = 2 /\ UNCHANGED <<wire, captured, started, exc>>
  BY <1>0, LayerNames DEF Log, Quiet
<1>2. logged = <<>> /\ logged' = Append(logged, captured) /\ captured \in 200 .. 503
  BY <1>0, <1>1 DEF Log, PipelineIInv, LogOK, TypeOK
<1>3. logged' = <<captured>> /\ logged' \in Seq(200 .. 503)
  BY <1>2
<1>4. TypeOK'
  BY <1>0, <1>1, <1>3, LayerNames DEF PipelineIInv, TypeOK
<1>5. PhaseOK' /\ WireOK' /\ StreamedOK' /\ SizeOK'
  BY <1>0, <1>1 DEF PipelineIInv, PhaseOK, WireOK, StreamedOK, SizeOK, Inside
<1>6. LogOK'
  BY <1>1, <1>3 DEF LogOK
<1>7. CommitOK' /\ OversizedNeverSucceeds'
  BY <1>0, <1>1 DEF PipelineIInv, CommitOK, OversizedNeverSucceeds, Inside
<1>8. QED
  BY <1>4, <1>5, <1>6, <1>7 DEF PipelineIInv

\* The outer middleware answers 500, which is what the log has noted.
LEMMA CatchUnhandledIInv ==
  ASSUME PipelineIInv, Ascend, CatchUnhandled
  PROVE  PipelineIInv'
<1>0. /\ phase = "up" /\ layer \in 1 .. 11 /\ layer' \in 1 .. 11
      /\ layer > 1 => phase' = "up" /\ layer' = layer - 1
      /\ UNCHANGED <<request, lateExit, http, received, answer, tx>>
      /\ Limit' = Limit
  BY UpOneLayer
<1>1. layer = 2 /\ phase' = "up" /\ layer' = 1 /\ logged' = logged
  BY <1>0, LayerNames DEF CatchUnhandled
<1>2. exc \in ErrorClass \cup {"none"} /\ (wire = <<>> => exc # "none" /\ ~started) /\ (wire # <<>> => started)
  BY <1>0, <1>1 DEF PipelineIInv, TypeOK, PhaseOK, WireOK
<1>3. CASE exc # "none" /\ IsA(exc, "Exception") /\ MayAnswer
  <2>1. wire = <<>> /\ exc' = "none" /\ Starts("unhandled", 500) /\ ~started /\ captured = 500
    BY <1>2, <1>3 DEF CatchUnhandled, MayAnswer, PipelineIInv, WireOK
  <2> DEFINE e == [status |-> 500, headers |-> {"request_context"}]
  <2>2. e \in Response /\ e.status = 500 /\ e.headers = {"request_context"}
    BY DEF Response
  <2>3. wire' = Append(wire, e) /\ captured' = 500 /\ started' = started
    <3>1. Headers("unhandled") = {"request_context"}
      BY UnhandledLayer
    <3>2. wire' = Append(wire, e)
      BY <2>1, <3>1 DEF Starts
    <3>3. started \in BOOLEAN /\ started' = (started \/ Outside("unhandled", "unhandled"))
      BY <2>1 DEF PipelineIInv, TypeOK, Starts
    <3>4. QED
      BY <2>1, <3>2, <3>3, UnhandledLayer DEF Starts
  <2> HIDE DEF e
  <2>4. wire' = <<e>>
    BY <2>1, <2>3
  <2>5. wire' \in Seq(Response) /\ Len(wire') = 1 /\ wire' # <<>> /\ wire'[1] = e /\ DOMAIN wire' = {1}
    BY <2>2, <2>4
  <2>6. TypeOK'
    BY <1>0, <1>1, <2>1, <2>3, <2>5, LayerNames DEF PipelineIInv, TypeOK, Response
  <2>7. PhaseOK' /\ StreamedOK' /\ SizeOK'
    BY <1>1, <2>1, <2>5 DEF PhaseOK, StreamedOK, SizeOK, Inside
  <2>8. WireOK'
    BY <1>1, <2>2, <2>3, <2>5 DEF WireOK
  <2>9. LogOK'
    BY <1>0, <1>1, <2>1, <2>3, <2>5 DEF PipelineIInv, LogOK
  <2>10. CommitOK'
    BY <1>0, <1>1, <2>1 DEF PipelineIInv, CommitOK, Inside
  <2>11. OversizedNeverSucceeds'
    BY <2>2, <2>5 DEF OversizedNeverSucceeds
  <2>12. QED
    BY <2>6, <2>7, <2>8, <2>9, <2>10, <2>11 DEF PipelineIInv
<1>4. CASE ~(exc # "none" /\ IsA(exc, "Exception") /\ MayAnswer)
  <2>1. Quiet /\ exc' = exc
    BY <1>4 DEF CatchUnhandled
  <2>2. wire = <<>> => exc = "Cancelled"
    BY <1>2, <1>4, AllAreExceptions DEF MayAnswer
  <2>3. QED
    BY <1>1, <2>1, <2>2, PassIInv
<1>5. QED
  BY <1>3, <1>4

\* Every layer on the way up.
LEMMA AscendIInv ==
  ASSUME PipelineIInv, Ascend
  PROVE  PipelineIInv'
<1>1. CASE PassUp
  <2>1. layer \in 1 .. 11
    BY UpOneLayer
  <2>2. layer \notin {2, 3, 9, 10} /\ Quiet /\ exc' = exc /\ logged' = logged
    BY <1>1, <2>1, LayerNames DEF PassUp
  <2>3. QED
    BY <2>1, <2>2, PassIInv
<1>2. QED
  BY <1>1, HandleExceptionIInv, RejectStreamedIInv, LogIInv, CatchUnhandledIInv DEF Ascend

\* Every step of a request.
LEMMA NextPipelineIInv == PipelineIInv /\ [Next]_vars => PipelineIInv'
<1> SUFFICES ASSUME PipelineIInv, [Next]_vars PROVE PipelineIInv'
  OBVIOUS
<1>1. CASE Descend
  BY <1>1, DescendIInv
<1>2. CASE Preflight
  BY <1>2, AnswersIInv DEF Preflight
<1>3. CASE BadHost
  BY <1>3, AnswersIInv DEF BadHost
<1>4. CASE RejectDeclared
  BY <1>4, AnswersIInv DEF RejectDeclared
<1>5. CASE Receive
  BY <1>5, ReceiveIInv
<1>6. CASE Refuse
  BY <1>6, RefuseIInv
<1>7. CASE Open
  BY <1>7, OpenIInv
<1>8. CASE Return
  BY <1>8, ReturnIInv
<1>9. CASE Exit
  BY <1>9, ExitIInv
<1>10. CASE Respond
  BY <1>10, RespondIInv
<1>11. CASE Ascend
  BY <1>11, AscendIInv
<1>12. ASSUME NEW c \in Raised, Raise(c) PROVE PipelineIInv'
  BY <1>12, RaiseIInv
<1>13. CASE UNCHANGED vars
  <2>1. UNCHANGED <<request, lateExit, layer, phase, exc, http, received, answer, tx, wire, captured, started, logged>>
    BY <1>13 DEF vars
  <2>2. Limit' = Limit
    BY <2>1 DEF Limit
  <2>3. TypeOK' /\ PhaseOK' /\ WireOK' /\ LogOK'
    BY <2>1 DEF PipelineIInv, TypeOK, PhaseOK, WireOK, LogOK
  <2>4. StreamedOK' /\ SizeOK' /\ CommitOK' /\ OversizedNeverSucceeds'
    BY <2>1, <2>2 DEF PipelineIInv, StreamedOK, SizeOK, CommitOK, OversizedNeverSucceeds
  <2>5. QED
    BY <2>3, <2>4 DEF PipelineIInv
<1>14. QED
  BY <1>1, <1>2, <1>3, <1>4, <1>5, <1>6, <1>7, <1>8, <1>9, <1>10, <1>11, <1>12, <1>13 DEF Next

\* The invariant holds in every state that a request reaches.
THEOREM PipelineInvariance == Spec => []PipelineIInv
BY InitPipelineIInv, NextPipelineIInv, PTL DEF Spec

\* Type correctness of a request on its way through the middlewares.
THEOREM PipelineTypeCorrectness == Spec => []TypeOK
<1>1. PipelineIInv => TypeOK
  BY DEF PipelineIInv
<1>2. QED
  BY <1>1, PipelineInvariance, PTL

\* What the invariant says of a request that is done.
LEMMA LoggedAndAnswered == PipelineIInv => AnswersAreLogged
<1> SUFFICES ASSUME PipelineIInv PROVE AnswersAreLogged
  OBVIOUS
<1>1. wire \in Seq(Response) /\ Len(wire) <= 1
  BY DEF PipelineIInv, TypeOK, WireOK, Response
<1>2. wire = <<>> \/ (wire # <<>> /\ Len(wire) = 1 /\ DOMAIN wire = {1})
  <2>1. Len(wire) \in Nat /\ DOMAIN wire = 1 .. Len(wire) /\ (Len(wire) = 0 => wire = <<>>)
    BY <1>1
  <2>2. CASE Len(wire) = 0
    BY <2>1, <2>2
  <2>3. CASE Len(wire) = 1
    <3>1. wire # <<>> /\ 1 .. 1 = {1}
      BY <2>3
    <3>2. QED
      BY <2>1, <2>3, <3>1
  <2>4. QED
    BY <1>1, <2>1, <2>2, <2>3
<1>3. AnsweredOnce
  BY <1>1, <1>2 DEF PipelineIInv, PhaseOK, LogOK, AnsweredOnce, Done
<1>4. LogTellsStatus
  <2>1. SUFFICES ASSUME Done PROVE Len(logged) = 1 /\ (wire # <<>> => logged[1] = wire[1].status)
    BY DEF LogTellsStatus
  <2>2. logged = <<captured>>
    BY <2>1 DEF Done, PipelineIInv, LogOK
  <2>3. Len(logged) = 1 /\ logged[1] = captured
    BY <2>2
  <2>4. QED
    BY <2>3 DEF PipelineIInv, WireOK
<1>5. ResponsesCorrelated
  BY <1>2 DEF PipelineIInv, WireOK, ResponsesCorrelated
<1>6. QED
  BY <1>3, <1>4, <1>5 DEF AnswersAreLogged

\* Whatever fails and wherever, a request that is not cancelled is answered
\* exactly once, with the headers of the layers, and the access log has one
\* line with the status that was sent.  For every limit, size and reader.
THEOREM RequestsAnsweredAndLogged == Spec => []AnswersAreLogged
BY PipelineInvariance, LoggedAndAnswered, PTL

\* No request succeeds that declared too large a body or of which too much
\* was read (RequestBodyLimitMiddleware).
THEOREM NothingOversizedSucceeds == Spec => []OversizedNeverSucceeds
<1>1. PipelineIInv => OversizedNeverSucceeds
  BY DEF PipelineIInv
<1>2. QED
  BY <1>1, PipelineInvariance, PTL

\* A commit that failed is reported as 503 when dependencies exit before the
\* response (database_exception_handler).
THEOREM FailedCommitsReported == Spec => []DatabaseFailuresReported
<1>1. PipelineIInv => DatabaseFailuresReported
  BY DEF PipelineIInv, CommitOK, DatabaseFailuresReported, Done
<1>2. QED
  BY <1>1, PipelineInvariance, PTL

-----------------------------------------------------------------------------
(* Principals: the inductive invariant *)

\* A row of the sessions.
SessionRow ==
    [family : Nat, state : {"active", "consumed", "revoked"}, issued : Nat, idle : Nat, absolute : Nat]

\* The sessions, and that a family has one active session at most.
SessionsOK ==
    /\ session \in Seq(SessionRow) /\ Len(session) <= MaxSessions
    /\ \A s, t \in 1 .. Len(session) :
         session[s].family = session[t].family /\ session[s].state = "active" /\ session[t].state = "active" => s = t

\* A request that has begun holds the token of a session, and began before now.
BearersOK ==
    \A r \in TokenRequest :
        bearer[r].pc \in {"account", "membership", "session", "resolved", "acted"} =>
            bearer[r].token \in 1 .. Len(session) /\ bearer[r].at <= clock

\* What every read leaves to be found active for the request to have seen an
\* instant at which all was active: nothing becomes active again, so what a
\* later read finds active was active when the request began.
ReadsOK ==
    \A r \in TokenRequest :
        LET own == Tokens!IsActive(bearer[r].token, bearer[r].at)
        IN  /\ bearer[r].pc = "account" /\ account = "active" /\ membership = "active" /\ own => r \in valid
            /\ bearer[r].pc = "membership" /\ membership = "active" /\ own => r \in valid
            /\ bearer[r].pc = "session" /\ own => r \in valid
            /\ bearer[r].pc \in {"resolved", "acted"} => r \in valid

TokensIInv == Tokens!TypeOK /\ SessionsOK /\ BearersOK /\ ReadsOK

-----------------------------------------------------------------------------
(* Principals: its operators *)

\* Division cuts off less than a second.
LEMMA FloorFacts ==
  ASSUME NEW n \in Nat, NEW d \in Nat \ {0}
  PROVE  /\ n \div d \in Nat
         /\ (n \div d) * d <= n
         /\ n < (n \div d) * d + d
OBVIOUS

\* Multiples of d are in the order of their factors.
LEMMA OrderOfMultiples ==
  ASSUME NEW x \in Nat, NEW y \in Nat, NEW d \in Nat \ {0}, x * d < y * d
  PROVE  x < y
OBVIOUS

\* The constants are numbers.
LEMMA TtlNumbers ==
  /\ Second \in Nat /\ Second # 0 /\ TokenTtl \in Nat /\ IdleTtl \in Nat /\ AbsoluteTtl \in Nat
  /\ MaxSessions \in Nat /\ TokenHorizon \in Nat
BY EdgeAssumption DEF Tokens!TtlAssumption

\* Whole seconds pass through the division.
LEMMA FloorOfSum ==
  ASSUME NEW n \in Nat, NEW k \in Nat, NEW d \in Nat \ {0}
  PROVE  (n + k * d) \div d = n \div d + k
<1> DEFINE a == n \div d
           c == (n + k * d) \div d
<1>1. n + k * d \in Nat
  OBVIOUS
<1>2. a \in Nat /\ a * d <= n /\ n < a * d + d
  BY FloorFacts
<1>3. c \in Nat /\ c * d <= n + k * d /\ n + k * d < c * d + d
  BY <1>1, FloorFacts
<1> HIDE DEF a, c
<1>4. (a + k) * d = a * d + k * d /\ (a + k + 1) * d = a * d + k * d + d /\ (c + 1) * d = c * d + d
  BY <1>2, <1>3
<1>5. a * d \in Nat /\ k * d \in Nat /\ c * d \in Nat
  BY <1>2, <1>3
<1>6. c * d < (a + k + 1) * d
  BY <1>2, <1>3, <1>4, <1>5
<1>7. (a + k) * d < (c + 1) * d
  BY <1>2, <1>3, <1>4, <1>5
<1>8. c < a + k + 1
  BY <1>2, <1>3, <1>6, OrderOfMultiples
<1>9. a + k < c + 1
  BY <1>2, <1>3, <1>7, OrderOfMultiples
<1>10. QED
  BY <1>2, <1>3, <1>8, <1>9 DEF a, c

\* A token verifies as long as its age in whole seconds is below TokenTtl.
LEMMA LifetimeInTicks ==
  ASSUME NEW i \in Nat, NEW t \in Nat, i <= t, NEW d \in Nat \ {0}, NEW k \in Nat
  PROVE  /\ i \div d <= t \div d
         /\ t - i + d <= k * d => (i + k * d) \div d > t \div d
         /\ (i + k * d) \div d > t \div d => t - i < k * d
<1> DEFINE a == i \div d
           b == t \div d
<1>1. a \in Nat /\ a * d <= i /\ i < a * d + d
  BY FloorFacts
<1>2. b \in Nat /\ b * d <= t /\ t < b * d + d
  BY FloorFacts
<1>3. (i + k * d) \div d = a + k
  BY FloorOfSum
<1> HIDE DEF a, b
<1>4. a * d \in Nat /\ b * d \in Nat /\ k * d \in Nat
  BY <1>1, <1>2
<1>5. /\ (a + k) * d = a * d + k * d /\ (b + 1) * d = b * d + d /\ (a + k + 1) * d = a * d + k * d + d
      /\ (a + 1) * d = a * d + d
  BY <1>1, <1>2
<1>6. a < b + 1
  <2>1. a * d < (b + 1) * d
    BY <1>1, <1>2, <1>4, <1>5
  <2>2. QED
    BY <1>1, <1>2, <2>1, OrderOfMultiples
<1>7. ASSUME t - i + d <= k * d PROVE a + k > b
  <2>1. b * d < (a + k) * d
    BY <1>1, <1>2, <1>4, <1>5, <1>7
  <2>2. b < a + k
    BY <1>1, <1>2, <2>1, OrderOfMultiples
  <2>3. QED
    BY <1>1, <1>2, <2>2
<1>8. ASSUME a + k > b PROVE t - i < k * d
  <2>1. PICK m \in Nat : a + k = b + 1 + m
    <3>1. a + k - b - 1 \in Nat /\ a + k = b + 1 + (a + k - b - 1)
      BY <1>1, <1>2, <1>8
    <3>2. QED
      BY <3>1
  <2>2. (a + k) * d = b * d + d + m * d /\ m * d \in Nat
    BY <1>1, <1>2, <2>1
  <2>3. QED
    BY <1>1, <1>2, <1>4, <1>5, <2>2
<1>9. QED
  BY <1>1, <1>2, <1>3, <1>6, <1>7, <1>8 DEF a, b

\* A token is accepted for at least TokenTtl less a second and at most TokenTtl.
LEMMA LifetimeHolds == TokensIInv => Tokens!TokenLifetime
<1> SUFFICES ASSUME TokensIInv, NEW s \in DOMAIN session
             PROVE  LET age == clock - session[s].issued
                    IN  /\ age + Second <= TokenTtl * Second => Tokens!Verifies(s, clock)
                        /\ Tokens!Verifies(s, clock) => age < TokenTtl * Second
  BY DEF Tokens!TokenLifetime, Tokens!Sessions
<1>1. clock \in Nat /\ session[s].issued \in Nat /\ session[s].issued <= clock
  <2>1. session[s] \in SessionRow
    BY DEF TokensIInv, SessionsOK
  <2>2. clock \in Nat
    BY TtlNumbers DEF TokensIInv, Tokens!TypeOK
  <2>3. session[s].issued <= clock
    BY DEF TokensIInv, Tokens!TypeOK, Tokens!Sessions
  <2>4. QED
    BY <2>1, <2>2, <2>3 DEF SessionRow
<1>2. QED
  BY <1>1, TtlNumbers, LifetimeInTicks DEF Tokens!Verifies, Tokens!Iat, Tokens!Exp, Tokens!Floor

\* Two usable tokens of a family belong to one session.
LEMMA OneToken == TokensIInv => Tokens!OneUsableToken
BY DEF TokensIInv, SessionsOK, Tokens!OneUsableToken, Tokens!AllActive, Tokens!IsActive, Tokens!Sessions

\* The reads of a request that ended in a principal saw one instant.
LEMMA ValidAtOnce == TokensIInv => Tokens!PrincipalWasValidAtOnce
BY DEF TokensIInv, ReadsOK, Tokens!PrincipalWasValidAtOnce

-----------------------------------------------------------------------------
(* Principals: the invariant holds initially and is preserved *)

\* There is no session at first.
LEMMA InitTokensIInv == Tokens!Init => TokensIInv
<1> SUFFICES ASSUME Tokens!Init PROVE TokensIInv
  OBVIOUS
<1>1. session = <<>> /\ DOMAIN session = {} /\ Len(session) = 0 /\ session \in Seq(SessionRow)
  BY DEF Tokens!Init
<1>2. \A r \in TokenRequest : bearer[r].pc = "idle"
  BY DEF Tokens!Init
<1>3. Tokens!TypeOK
  BY <1>1, TtlNumbers DEF Tokens!Init, Tokens!TypeOK, Tokens!Sessions
<1>4. SessionsOK
  BY <1>1, TtlNumbers DEF SessionsOK
<1>5. BearersOK /\ ReadsOK
  BY <1>2 DEF BearersOK, ReadsOK
<1>6. QED
  BY <1>3, <1>4, <1>5 DEF TokensIInv

\* What the steps do to the sessions: the rows stay, none becomes active
\* again, and a new one is the only active row of its family.
Kept ==
    \A t \in 1 .. Len(session) :
        /\ session'[t].family = session[t].family /\ session'[t].issued = session[t].issued
        /\ session'[t].idle = session[t].idle /\ session'[t].absolute = session[t].absolute
        /\ session'[t].state = "active" => session[t].state = "active"

Added ==
    \A n \in 1 .. Len(session') : n > Len(session) =>
        /\ n = Len(session) + 1
        /\ session'[n].family \in 1 .. n
        /\ session'[n].issued = clock /\ session'[n].idle <= session'[n].absolute
        /\ \A t \in 1 .. Len(session) : session'[t].family = session'[n].family => session'[t].state # "active"

SessionsStep ==
    /\ session' \in Seq(SessionRow)
    /\ Len(session) <= Len(session') /\ Len(session') <= MaxSessions
    /\ Kept /\ Added

\* The type of every row.
LEMMA RowTypes ==
  ASSUME TokensIInv
  PROVE  /\ clock \in Nat /\ Len(session) \in Nat /\ DOMAIN session = 1 .. Len(session)
         /\ \A t \in 1 .. Len(session) :
              /\ session[t] \in SessionRow
              /\ session[t].family \in 1 .. t /\ session[t].idle <= session[t].absolute /\ session[t].issued <= clock
<1>1. session \in Seq(SessionRow)
  BY DEF TokensIInv, SessionsOK
<1>2. Len(session) \in Nat /\ DOMAIN session = 1 .. Len(session)
  BY <1>1
<1>3. \A t \in 1 .. Len(session) : session[t] \in SessionRow
  BY <1>1
<1>4. clock \in Nat
  BY TtlNumbers DEF TokensIInv, Tokens!TypeOK
<1>5. QED
  BY <1>2, <1>3, <1>4 DEF TokensIInv, Tokens!TypeOK, Tokens!Sessions

\* A new row at the end of rows that were kept.
LEMMA AppendRow ==
  ASSUME TokensIInv, NEW kept \in Seq(SessionRow), Len(kept) = Len(session),
         NEW row \in SessionRow, Len(session) < MaxSessions, session' = Append(kept, row),
         \A t \in 1 .. Len(session) :
            /\ kept[t].family = session[t].family /\ kept[t].issued = session[t].issued
            /\ kept[t].idle = session[t].idle /\ kept[t].absolute = session[t].absolute
            /\ kept[t].state = "active" => session[t].state = "active"
            /\ kept[t].family = row.family => kept[t].state # "active",
         row.family \in 1 .. Len(session) + 1, row.issued = clock, row.idle <= row.absolute
  PROVE  SessionsStep
<1>1. Len(session) \in Nat
  BY RowTypes
<1>2. /\ session' \in Seq(SessionRow) /\ Len(session') = Len(session) + 1
      /\ \A t \in 1 .. Len(session) : session'[t] = kept[t]
      /\ session'[Len(session) + 1] = row
  BY <1>1
<1>3. Kept
  BY <1>2 DEF Kept
<1>4. Added
  <2>1. SUFFICES ASSUME NEW n \in 1 .. Len(session'), n > Len(session)
                 PROVE  /\ n = Len(session) + 1
                        /\ session'[n].family \in 1 .. n
                        /\ session'[n].issued = clock /\ session'[n].idle <= session'[n].absolute
                        /\ \A t \in 1 .. Len(session) :
                              session'[t].family = session'[n].family => session'[t].state # "active"
    BY DEF Added
  <2>2. n = Len(session) + 1
    BY <1>1, <1>2, <2>1
  <2>3. QED
    BY <1>2, <2>2
<1>5. QED
  BY <1>1, <1>2, <1>3, <1>4, TtlNumbers DEF SessionsStep

\* RefreshSession.issue gives a row within its own limits.
LEMMA IssuedRow ==
  ASSUME TokensIInv, NEW f \in Nat, NEW a \in Nat
  PROVE  /\ Tokens!Issued(f, a) \in SessionRow
         /\ Tokens!Issued(f, a).family = f /\ Tokens!Issued(f, a).issued = clock
         /\ Tokens!Issued(f, a).idle <= Tokens!Issued(f, a).absolute
<1>1. clock \in Nat
  BY RowTypes
<1>2. IdleTtl * Second \in Nat
  BY TtlNumbers
<1>3. Tokens!Min2(clock + IdleTtl * Second, a) \in Nat /\ Tokens!Min2(clock + IdleTtl * Second, a) <= a
  BY <1>1, <1>2 DEF Tokens!Min2
<1>4. QED
  BY <1>1, <1>3 DEF Tokens!Issued, SessionRow

\* A login starts a family that no row has.
LEMMA LoginStep ==
  ASSUME TokensIInv, Tokens!Login
  PROVE  SessionsStep
<1>1. Len(session) < MaxSessions /\ Len(session) \in Nat /\ clock \in Nat
  BY RowTypes DEF Tokens!Login
<1> DEFINE a == clock + AbsoluteTtl * Second
           row == Tokens!Issued(Len(session) + 1, a)
<1>2. Len(session) + 1 \in Nat /\ a \in Nat
  BY <1>1, TtlNumbers
<1>3. session' = Append(session, row)
  BY DEF Tokens!Login
<1> HIDE DEF a
<1>4. row \in SessionRow /\ row.family = Len(session) + 1 /\ row.issued = clock /\ row.idle <= row.absolute
  BY <1>2, IssuedRow
<1> HIDE DEF row
<1>5. \A t \in 1 .. Len(session) : session[t].family # row.family
  BY <1>1, <1>4, RowTypes
<1>6. session \in Seq(SessionRow) /\ row.family \in 1 .. Len(session) + 1
  BY <1>1, <1>4 DEF TokensIInv, SessionsOK
<1>7. QED
  BY <1>1, <1>3, <1>4, <1>5, <1>6, AppendRow

\* A refresh consumes the one active row of its family.
LEMMA RefreshStep ==
  ASSUME TokensIInv, NEW s \in DOMAIN session, Tokens!Refresh(s)
  PROVE  SessionsStep
<1>1. /\ Len(session) < MaxSessions /\ Len(session) \in Nat /\ clock \in Nat /\ s \in 1 .. Len(session)
      /\ session[s].state = "active" /\ session \in Seq(SessionRow)
  BY RowTypes DEF Tokens!Refresh, Tokens!AllActive, Tokens!IsActive, TokensIInv, SessionsOK
<1> DEFINE kept == [session EXCEPT ![s] = [session[s] EXCEPT !.state = "consumed"]]
           row == Tokens!Issued(session[s].family, session[s].absolute)
<1>2. session' = Append(kept, row)
  BY DEF Tokens!Refresh
<1>3. session[s] \in SessionRow /\ session[s].family \in 1 .. s
  BY <1>1, RowTypes
<1>4. row \in SessionRow /\ row.family = session[s].family /\ row.issued = clock /\ row.idle <= row.absolute
  <2>1. session[s].family \in Nat /\ session[s].absolute \in Nat
    BY <1>3 DEF SessionRow
  <2>2. QED
    BY <2>1, IssuedRow
<1> HIDE DEF row
<1>5. [session[s] EXCEPT !.state = "consumed"] \in SessionRow
  BY <1>3 DEF SessionRow
<1>6. kept \in Seq(SessionRow) /\ Len(kept) = Len(session)
  BY <1>1, <1>5
<1>7. /\ kept[s].family = session[s].family /\ kept[s].issued = session[s].issued
      /\ kept[s].idle = session[s].idle /\ kept[s].absolute = session[s].absolute
      /\ kept[s].state = "consumed"
  BY <1>1, <1>3 DEF SessionRow
<1>8. \A t \in 1 .. Len(session) : t # s => kept[t] = session[t]
  BY <1>1
<1> HIDE DEF kept
<1>9. \A t \in 1 .. Len(session) :
            /\ kept[t].family = session[t].family /\ kept[t].issued = session[t].issued
            /\ kept[t].idle = session[t].idle /\ kept[t].absolute = session[t].absolute
            /\ kept[t].state = "active" => session[t].state = "active"
            /\ kept[t].family = row.family => kept[t].state # "active"
  <2>1. TAKE t \in 1 .. Len(session)
  <2>2. CASE t = s
    BY <1>7, <2>2
  <2>3. CASE t # s
    <3>1. kept[t] = session[t]
      BY <1>8, <2>3
    <3>2. session[t].family = session[s].family => session[t].state # "active"
      BY <1>1, <2>3 DEF TokensIInv, SessionsOK
    <3>3. QED
      BY <1>4, <3>1, <3>2
  <2>4. QED
    BY <2>2, <2>3
<1>10. row.family \in 1 .. Len(session) + 1
  BY <1>1, <1>3, <1>4
<1>11. QED
  BY <1>1, <1>2, <1>4, <1>6, <1>9, <1>10, AppendRow

\* A revocation makes nothing active.
LEMMA RevokeStep ==
  ASSUME TokensIInv, NEW f, Tokens!RevokeFamily(f)
  PROVE  SessionsStep
<1>1. Len(session) \in Nat /\ DOMAIN session = 1 .. Len(session) /\ Len(session) <= MaxSessions
  BY RowTypes DEF TokensIInv, SessionsOK
<1>2. session' = [s \in 1 .. Len(session) |-> IF session[s].family = f
                                               THEN [session[s] EXCEPT !.state = "revoked"] ELSE session[s]]
  BY <1>1 DEF Tokens!RevokeFamily, Tokens!Sessions
<1>3. \A s \in 1 .. Len(session) : session[s] \in SessionRow /\ [session[s] EXCEPT !.state = "revoked"] \in SessionRow
  BY RowTypes DEF SessionRow
<1>4. session' \in Seq(SessionRow) /\ Len(session') = Len(session)
  BY <1>1, <1>2, <1>3
<1>5. Kept
  <2>1. SUFFICES ASSUME NEW t \in 1 .. Len(session)
                 PROVE  /\ session'[t].family = session[t].family /\ session'[t].issued = session[t].issued
                        /\ session'[t].idle = session[t].idle /\ session'[t].absolute = session[t].absolute
                        /\ session'[t].state = "active" => session[t].state = "active"
    BY DEF Kept
  <2>2. session[t] \in SessionRow
    BY <1>3
  <2>3. CASE session[t].family = f
    <3>1. session'[t] = [session[t] EXCEPT !.state = "revoked"]
      BY <1>2, <2>3
    <3>2. QED
      BY <2>2, <3>1 DEF SessionRow
  <2>4. CASE session[t].family # f
    BY <1>2, <2>4
  <2>5. QED
    BY <2>3, <2>4
<1>6. Added
  BY <1>1, <1>4 DEF Added
<1>7. QED
  BY <1>1, <1>4, <1>5, <1>6 DEF SessionsStep

\* Sessions that are left alone.
LEMMA NoSessionStep ==
  ASSUME TokensIInv, UNCHANGED session
  PROVE  SessionsStep
<1>1. Len(session) \in Nat
  BY RowTypes
<1>2. QED
  BY <1>1 DEF SessionsStep, Kept, Added, TokensIInv, SessionsOK

\* The rows that a step leaves are as the invariant says.
LEMMA RowsAfter ==
  ASSUME TokensIInv, SessionsStep, clock' \in Nat, clock <= clock'
  PROVE  /\ SessionsOK'
         /\ \A s \in DOMAIN session' :
              /\ session'[s].family \in 1 .. s
              /\ session'[s].state \in {"active", "consumed", "revoked"}
              /\ session'[s].issued <= clock'
              /\ session'[s].idle <= session'[s].absolute
         /\ \A s \in 1 .. Len(session) : s \in 1 .. Len(session')
<1>1. /\ session' \in Seq(SessionRow) /\ Len(session) \in Nat /\ Len(session') \in Nat
      /\ DOMAIN session' = 1 .. Len(session') /\ Len(session) <= Len(session')
      /\ clock \in Nat /\ Len(session') <= MaxSessions
  BY RowTypes DEF SessionsStep
<1>2. \A s \in 1 .. Len(session') : s > Len(session) \/ s \in 1 .. Len(session)
  BY <1>1
<1>3. SessionsOK'
  <2>1. SUFFICES ASSUME NEW s \in 1 .. Len(session'), NEW t \in 1 .. Len(session'),
                        session'[s].family = session'[t].family,
                        session'[s].state = "active", session'[t].state = "active"
                 PROVE  s = t
    BY <1>1 DEF SessionsOK
  <2>2. CASE s \in 1 .. Len(session) /\ t \in 1 .. Len(session)
    BY <2>1, <2>2 DEF SessionsStep, Kept, TokensIInv, SessionsOK
  <2>3. CASE s > Len(session) /\ t \in 1 .. Len(session)
    BY <2>1, <2>3 DEF SessionsStep, Added
  <2>4. CASE t > Len(session) /\ s \in 1 .. Len(session)
    BY <2>1, <2>4 DEF SessionsStep, Added
  <2>5. CASE s > Len(session) /\ t > Len(session)
    BY <2>5 DEF SessionsStep, Added
  <2>6. QED
    BY <1>2, <2>2, <2>3, <2>4, <2>5
<1>4. ASSUME NEW s \in 1 .. Len(session')
      PROVE  /\ session'[s].family \in 1 .. s
             /\ session'[s].state \in {"active", "consumed", "revoked"}
             /\ session'[s].issued <= clock'
             /\ session'[s].idle <= session'[s].absolute
  <2>1. session'[s] \in SessionRow
    BY <1>1
  <2>2. session'[s].state \in {"active", "consumed", "revoked"} /\ session'[s].issued \in Nat
    BY <2>1 DEF SessionRow
  <2>3. CASE s > Len(session)
    <3>1. session'[s].family \in 1 .. s /\ session'[s].issued = clock /\ session'[s].idle <= session'[s].absolute
      BY <2>3 DEF SessionsStep, Added
    <3>2. QED
      BY <2>2, <3>1
  <2>4. CASE s \in 1 .. Len(session)
    <3>1. /\ session'[s].family = session[s].family /\ session'[s].issued = session[s].issued
          /\ session'[s].idle = session[s].idle /\ session'[s].absolute = session[s].absolute
      BY <2>4 DEF SessionsStep, Kept
    <3>2. /\ session[s].family \in 1 .. s /\ session[s].idle <= session[s].absolute
          /\ session[s].issued <= clock
      BY <2>4, RowTypes
    <3>3. session[s].issued <= clock'
      BY <1>1, <2>2, <3>1, <3>2
    <3>4. QED
      BY <2>2, <3>1, <3>2, <3>3
  <2>5. QED
    BY <1>2, <2>3, <2>4
<1>5. QED
  BY <1>1, <1>3, <1>4

\* A session that is active after a step was active before, at every time.
LEMMA ActiveBefore ==
  ASSUME SessionsStep, NEW s \in 1 .. Len(session), NEW t,
         session'[s].state = "active", t < session'[s].idle, t < session'[s].absolute
  PROVE  Tokens!IsActive(s, t)
BY DEF SessionsStep, Kept, Tokens!IsActive

\* What a request has seen stays seen.
LEMMA ObserveGrows ==
  ASSUME TokensIInv, Tokens!Observe
  PROVE  valid \subseteq valid' /\ valid' \subseteq TokenRequest
BY DEF TokensIInv, Tokens!TypeOK, Tokens!Observe

\* Steps of anybody but a request.
LEMMA EnvironmentIInv ==
  ASSUME TokensIInv, SessionsStep, Tokens!Observe, UNCHANGED bearer,
         clock' \in 0 .. TokenHorizon, clock <= clock',
         {account', membership'} \subseteq {"active", "disabled"},
         account' = "active" => account = "active", membership' = "active" => membership = "active"
  PROVE  TokensIInv'
<1>0. clock' \in Nat /\ clock \in Nat
  BY TtlNumbers, RowTypes
<1>1. valid \subseteq valid' /\ valid' \subseteq TokenRequest
  BY ObserveGrows
<1>2. SessionsOK' /\ (\A s \in 1 .. Len(session) : s \in 1 .. Len(session'))
  BY <1>0, RowsAfter
<1>3. Tokens!TypeOK'
  BY <1>0, <1>1, RowsAfter DEF TokensIInv, Tokens!TypeOK, Tokens!Sessions
<1>4. BearersOK'
  <2>1. SUFFICES ASSUME NEW r \in TokenRequest,
                        bearer[r].pc \in {"account", "membership", "session", "resolved", "acted"}
                 PROVE  bearer[r].token \in 1 .. Len(session') /\ bearer[r].at <= clock'
    BY DEF BearersOK
  <2>2. bearer[r].token \in 1 .. Len(session) /\ bearer[r].at <= clock /\ bearer[r].at \in 0 .. TokenHorizon
    BY <2>1 DEF TokensIInv, BearersOK, Tokens!TypeOK
  <2>3. QED
    BY <1>0, <1>2, <2>2, TtlNumbers
<1>5. ReadsOK'
  <2>1. SUFFICES ASSUME NEW r \in TokenRequest
                 PROVE  LET own == Tokens!IsActive(bearer[r].token, bearer[r].at)'
                        IN  /\ bearer[r].pc = "account" /\ account' = "active" /\ membership' = "active" /\ own => r \in valid'
                            /\ bearer[r].pc = "membership" /\ membership' = "active" /\ own => r \in valid'
                            /\ bearer[r].pc = "session" /\ own => r \in valid'
                            /\ bearer[r].pc \in {"resolved", "acted"} => r \in valid'
    BY DEF ReadsOK, Tokens!IsActive
  <2>2. ASSUME bearer[r].pc \in {"account", "membership", "session"}, Tokens!IsActive(bearer[r].token, bearer[r].at)'
        PROVE  Tokens!IsActive(bearer[r].token, bearer[r].at)
    <3>1. bearer[r].token \in 1 .. Len(session)
      BY <2>2 DEF TokensIInv, BearersOK
    <3>2. /\ session'[bearer[r].token].state = "active"
          /\ bearer[r].at < session'[bearer[r].token].idle /\ bearer[r].at < session'[bearer[r].token].absolute
      BY <2>2 DEF Tokens!IsActive
    <3>3. QED
      BY <3>1, <3>2, ActiveBefore
  <2>3. QED
    BY <1>1, <2>2 DEF TokensIInv, ReadsOK
<1>6. QED
  BY <1>2, <1>3, <1>4, <1>5 DEF TokensIInv

\* A step of one request: the others keep what they have, and what this one
\* has still to find active is enough for it to be valid.
LEMMA RequestIInv ==
  ASSUME TokensIInv, Tokens!Observe, UNCHANGED <<clock, account, membership, session>>,
         NEW r \in TokenRequest, NEW pc \in {"account", "membership", "session", "resolved", "acted", "refused"},
         NEW token \in 0 .. MaxSessions, NEW at \in 0 .. TokenHorizon,
         bearer' = [bearer EXCEPT ![r] = [pc |-> pc, token |-> token, at |-> at]],
         pc # "refused" => token \in 1 .. Len(session) /\ at <= clock,
         pc = "account" /\ account = "active" /\ membership = "active" /\ Tokens!IsActive(token, at) => r \in valid',
         pc = "membership" /\ membership = "active" /\ Tokens!IsActive(token, at) => r \in valid',
         pc = "session" /\ Tokens!IsActive(token, at) => r \in valid',
         pc \in {"resolved", "acted"} => r \in valid'
  PROVE  TokensIInv'
<1> DEFINE own == [pc |-> pc, token |-> token, at |-> at]
<1>1. own.pc = pc /\ own.token = token /\ own.at = at
  OBVIOUS
<1>2. own \in [pc : {"idle", "account", "membership", "session", "resolved", "acted", "refused"},
               token : 0 .. MaxSessions, at : 0 .. TokenHorizon]
  OBVIOUS
<1>3. bearer' = [bearer EXCEPT ![r] = own]
  OBVIOUS
<1> HIDE DEF own
<1>4. bearer \in [TokenRequest -> [pc : {"idle", "account", "membership", "session", "resolved", "acted", "refused"},
                                   token : 0 .. MaxSessions, at : 0 .. TokenHorizon]]
  BY DEF TokensIInv, Tokens!TypeOK
<1>5. bearer'[r] = own /\ \A q \in TokenRequest : q # r => bearer'[q] = bearer[q]
  BY <1>3, <1>4
<1>6. valid \subseteq valid' /\ valid' \subseteq TokenRequest
  BY ObserveGrows
<1>7. Tokens!TypeOK'
  BY <1>2, <1>3, <1>6 DEF TokensIInv, Tokens!TypeOK, Tokens!Sessions
<1>8. SessionsOK'
  BY DEF TokensIInv, SessionsOK
<1>9. BearersOK'
  BY <1>1, <1>5 DEF TokensIInv, BearersOK
<1>10. ReadsOK'
  <2>1. SUFFICES ASSUME NEW q \in TokenRequest
                 PROVE  LET act == Tokens!IsActive(bearer'[q].token, bearer'[q].at)
                        IN  /\ bearer'[q].pc = "account" /\ account = "active" /\ membership = "active" /\ act => q \in valid'
                            /\ bearer'[q].pc = "membership" /\ membership = "active" /\ act => q \in valid'
                            /\ bearer'[q].pc = "session" /\ act => q \in valid'
                            /\ bearer'[q].pc \in {"resolved", "acted"} => q \in valid'
    BY DEF ReadsOK, Tokens!IsActive
  <2>2. CASE q = r
    BY <1>1, <1>5, <2>2
  <2>3. CASE q # r
    BY <1>5, <1>6, <2>3 DEF TokensIInv, ReadsOK
  <2>4. QED
    BY <2>2, <2>3
<1>11. QED
  BY <1>7, <1>8, <1>9, <1>10 DEF TokensIInv

\* A request that has not begun is in no need of rights.
LEMMA BeginIInv ==
  ASSUME TokensIInv, Tokens!Observe, NEW r \in TokenRequest, NEW s \in DOMAIN session, Tokens!Begin(r, s)
  PROVE  TokensIInv'
<1>1. s \in 1 .. Len(session) /\ clock \in Nat /\ Len(session) \in Nat /\ Len(session) <= MaxSessions
  BY RowTypes DEF TokensIInv, SessionsOK
<1>2. s \in 0 .. MaxSessions /\ clock \in 0 .. TokenHorizon /\ clock <= clock
  BY <1>1, TtlNumbers DEF TokensIInv, Tokens!TypeOK
<1>3. PICK pc \in {"account", "refused"} :
         bearer' = [bearer EXCEPT ![r] = [pc |-> pc, token |-> s, at |-> clock]]
  BY DEF Tokens!Begin
<1>4. UNCHANGED <<clock, account, membership, session>>
  BY DEF Tokens!Begin
<1>5. ASSUME pc = "account", account = "active", membership = "active", Tokens!IsActive(s, clock)
      PROVE  r \in valid'
  <2>1. bearer'[r].pc = "account" /\ bearer'[r].token = s
    BY <1>3, <1>5 DEF TokensIInv, Tokens!TypeOK
  <2>2. Tokens!AllActive(bearer[r].token)'
    BY <1>4, <1>5, <2>1 DEF Tokens!AllActive, Tokens!IsActive
  <2>3. QED
    BY <2>1, <2>2 DEF Tokens!Observe
<1>6. QED
  BY <1>1, <1>2, <1>3, <1>4, <1>5, RequestIInv

\* A request goes on with its own token.
LEMMA GoesTo ==
  ASSUME TokensIInv, NEW r \in TokenRequest, NEW pc, Tokens!Goes(r, pc)
  PROVE  /\ bearer' = [bearer EXCEPT ![r] = [pc |-> pc, token |-> bearer[r].token, at |-> bearer[r].at]]
         /\ bearer[r].token \in 0 .. MaxSessions /\ bearer[r].at \in 0 .. TokenHorizon
<1>1. bearer \in [TokenRequest -> [pc : {"idle", "account", "membership", "session", "resolved", "acted", "refused"},
                                   token : 0 .. MaxSessions, at : 0 .. TokenHorizon]]
  BY DEF TokensIInv, Tokens!TypeOK
<1>2. [bearer[r] EXCEPT !.pc = pc] = [pc |-> pc, token |-> bearer[r].token, at |-> bearer[r].at]
  BY <1>1
<1>3. bearer' = [bearer EXCEPT ![r] = [bearer[r] EXCEPT !.pc = pc]]
  BY DEF Tokens!Goes
<1>4. QED
  BY <1>1, <1>2, <1>3

\* One read, or one decision, of a request.
LEMMA ReadIInv ==
  ASSUME TokensIInv, Tokens!Observe, NEW r \in TokenRequest,
         \/ Tokens!BeginWithout(r) \/ Tokens!ReadAccount(r) \/ Tokens!ReadMembership(r)
         \/ Tokens!ReadSession(r) \/ (\E permitted \in BOOLEAN : Tokens!Act(r, permitted))
  PROVE  TokensIInv'
<1>1. UNCHANGED <<clock, account, membership, session>>
  BY DEF Tokens!BeginWithout, Tokens!ReadAccount, Tokens!ReadMembership, Tokens!ReadSession, Tokens!Act, Tokens!IfElse
<1>2. PICK pc \in {"membership", "session", "resolved", "acted", "refused"} :
         /\ Tokens!Goes(r, pc)
         /\ pc = "membership" => bearer[r].pc = "account" /\ account = "active"
         /\ pc = "session" => bearer[r].pc = "membership" /\ membership = "active"
         /\ pc = "resolved" => bearer[r].pc = "session" /\ Tokens!IsActive(bearer[r].token, bearer[r].at)
         /\ pc = "acted" => bearer[r].pc = "resolved"
  <2>1. CASE Tokens!BeginWithout(r)
    BY <2>1 DEF Tokens!BeginWithout, Tokens!IfElse
  <2>2. CASE Tokens!ReadAccount(r)
    BY <2>2 DEF Tokens!ReadAccount, Tokens!IfElse
  <2>3. CASE Tokens!ReadMembership(r)
    BY <2>3 DEF Tokens!ReadMembership, Tokens!IfElse
  <2>4. CASE Tokens!ReadSession(r)
    BY <2>4 DEF Tokens!ReadSession, Tokens!IfElse, Tokens!SessionAnswers
  <2>5. CASE \E permitted \in BOOLEAN : Tokens!Act(r, permitted)
    BY <2>5 DEF Tokens!Act, Tokens!IfElse
  <2>6. QED
    BY <2>1, <2>2, <2>3, <2>4, <2>5
<1>3. PICK token \in 0 .. MaxSessions, at \in 0 .. TokenHorizon :
         /\ token = bearer[r].token /\ at = bearer[r].at
         /\ bearer' = [bearer EXCEPT ![r] = [pc |-> pc, token |-> token, at |-> at]]
  BY <1>2, GoesTo
<1>4. pc # "refused" => token \in 1 .. Len(session) /\ at <= clock
  BY <1>2, <1>3 DEF TokensIInv, BearersOK
<1>5. valid \subseteq valid'
  BY ObserveGrows
<1>6. /\ pc = "membership" /\ membership = "active" /\ Tokens!IsActive(token, at) => r \in valid'
      /\ pc = "session" /\ Tokens!IsActive(token, at) => r \in valid'
      /\ pc \in {"resolved", "acted"} => r \in valid'
  BY <1>2, <1>3, <1>5 DEF TokensIInv, ReadsOK
<1>7. QED
  BY <1>1, <1>2, <1>3, <1>4, <1>6, RequestIInv

\* A step that changes nothing.
LEMMA StutterTokensIInv == TokensIInv /\ UNCHANGED Tokens!vars => TokensIInv'
BY DEF TokensIInv, Tokens!vars, Tokens!TypeOK, Tokens!Sessions, SessionsOK, BearersOK, ReadsOK, Tokens!IsActive

\* Every step of the tokens and their requests.
LEMMA NextTokensIInv == TokensIInv /\ [Tokens!Next]_(Tokens!vars) => TokensIInv'
<1> SUFFICES ASSUME TokensIInv, Tokens!Next PROVE TokensIInv'
  BY StutterTokensIInv
<1>0. /\ Tokens!Step /\ Tokens!Observe /\ clock \in 0 .. TokenHorizon /\ clock \in Nat /\ clock <= clock
      /\ {account, membership} \subseteq {"active", "disabled"}
  BY RowTypes DEF Tokens!Next, TokensIInv, Tokens!TypeOK
<1>1. CASE Tokens!Login
  BY <1>0, <1>1, LoginStep, EnvironmentIInv DEF Tokens!Login
<1>2. ASSUME NEW s \in DOMAIN session, Tokens!Refresh(s) PROVE TokensIInv'
  BY <1>0, <1>2, RefreshStep, EnvironmentIInv DEF Tokens!Refresh
<1>3. ASSUME NEW f, Tokens!RevokeFamily(f) PROVE TokensIInv'
  BY <1>0, <1>3, RevokeStep, EnvironmentIInv DEF Tokens!RevokeFamily
<1>4. CASE Tokens!Disable
  <2>1. /\ UNCHANGED <<clock, session, bearer>> /\ {account', membership'} \subseteq {"active", "disabled"}
        /\ account' = "active" => account = "active"
        /\ membership' = "active" => membership = "active"
    BY <1>0, <1>4 DEF Tokens!Disable
  <2>2. SessionsStep
    BY <2>1, NoSessionStep
  <2>3. QED
    BY <1>0, <2>1, <2>2, EnvironmentIInv
<1>5. CASE Tokens!Tick
  <2>1. /\ UNCHANGED <<account, membership, session, bearer>>
        /\ clock' \in 0 .. TokenHorizon /\ clock <= clock'
    BY <1>0, <1>5, TtlNumbers DEF Tokens!Tick
  <2>2. SessionsStep
    BY <2>1, NoSessionStep
  <2>3. QED
    BY <1>0, <2>1, <2>2, EnvironmentIInv
<1>6. ASSUME NEW r \in TokenRequest, NEW s \in DOMAIN session, Tokens!Begin(r, s) PROVE TokensIInv'
  BY <1>0, <1>6, BeginIInv
<1>7. ASSUME NEW r \in TokenRequest,
             \/ Tokens!BeginWithout(r) \/ Tokens!ReadAccount(r) \/ Tokens!ReadMembership(r)
             \/ Tokens!ReadSession(r) \/ (\E permitted \in BOOLEAN : Tokens!Act(r, permitted))
      PROVE  TokensIInv'
  BY <1>0, <1>7, ReadIInv
<1>8. QED
  BY <1>0, <1>1, <1>2, <1>3, <1>4, <1>5, <1>6, <1>7 DEF Tokens!Step, Tokens!Sessions

\* The invariant holds in every state of the tokens and their requests.
THEOREM TokensInvariance == Tokens!Spec => []TokensIInv
BY InitTokensIInv, NextTokensIInv, PTL DEF Tokens!Spec

\* For every number of requests and sessions and every lifetime: a principal had
\* all its rights at one instant after its request began, its token was within
\* its lifetime, and a family has one usable token (ResolveIdentityHandler).
THEOREM PrincipalsAreSound == Tokens!Spec => []PrincipalsSound
<1>1. TokensIInv => PrincipalsSound
  BY ValidAtOnce, LifetimeHolds, OneToken DEF PrincipalsSound, Tokens!PrincipalsSound
<1>2. QED
  BY <1>1, TokensInvariance, PTL

-----------------------------------------------------------------------------
(* The three parts together *)

\* A behaviour of the composition is a behaviour of each part: only one part
\* moves, and the others stutter.
THEOREM EdgeComposes == MCSpec => Spec /\ Limiter!Spec /\ Tokens!Spec
<1>1. MCInit => Init /\ Limiter!Init /\ Tokens!Init
  BY DEF MCInit
<1>2. [MCNext]_<<part, vars, limiter, principals>> =>
         [Next]_vars /\ [Limiter!Next]_(Limiter!vars) /\ [Tokens!Next]_(Tokens!vars)
  BY DEF MCNext, limiter, principals, Limiter!vars, Tokens!vars
<1>3. QED
  BY <1>1, <1>2, PTL DEF MCSpec, Spec, Limiter!Spec, Tokens!Spec

\* Type correctness of the three parts of MCHttpEdge.
THEOREM EdgeTypeCorrectness == MCSpec => []WellTyped
<1>1. TypeOK /\ Limiter!TypeOK /\ TokensIInv => WellTyped
  BY DEF WellTyped, TokensIInv
<1>2. QED
  BY <1>1, EdgeComposes, PipelineTypeCorrectness, LimiterTypeCorrectness, TokensInvariance, PTL
=============================================================================

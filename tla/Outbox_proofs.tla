---------------------------- MODULE Outbox_proofs ----------------------------
(***************************************************************************)
(* Proofs about Outbox, for every number of events and dispatchers and     *)
(* every retry policy: type correctness, OneLiveLease,                     *)
(* RetryHasAttemptsLeft and StaleClaimsSettleNothing, from one inductive   *)
(* invariant.                                                              *)
(***************************************************************************)
EXTENDS Outbox, TLAPS

-----------------------------------------------------------------------------
(* The inductive invariant *)

\* A claim whose lease runs is the claim of its row, and they expire together.
HeldOK(w, e) ==
    held[w][e] # NoRow =>
        /\ rows[e] # NoRow
        /\ held[w][e].lease > 0 =>
              /\ rows[e].status = "processing"
              /\ rows[e].token = held[w][e].token
              /\ rows[e].lease = held[w][e].lease

\* No two dispatchers hold one claim.
ClaimsApart(e) ==
    \A w, v \in Dispatcher :
        held[w][e] # NoRow /\ held[v][e] # NoRow /\ held[w][e].token = held[v][e].token
            => w = v

\* A row that claim_batch has locked stays due until the claim commits, and
\* its token is in nobody's hands.
DraftOK(w, e) ==
    draft[w][e] # NoRow =>
        /\ Due(e)
        /\ draft[w][e].status = "processing"
        /\ draft[w][e].attempts > 0
        /\ draft[w][e].token \in Token
        /\ \A v \in Dispatcher : draft[v][e] # NoRow => v = w
        /\ \A v \in Dispatcher : held[v][e] # NoRow => held[v][e].token # draft[w][e].token

\* A row that waits has an attempt left, a claimed one has used one.
AttemptsOK(e) ==
    rows[e] # NoRow =>
        /\ rows[e].status = "pending" => rows[e].attempts < MaxAttempts
        /\ rows[e].status = "processing" => rows[e].attempts > 0

EventOK(e) ==
    /\ ClaimsApart(e)
    /\ AttemptsOK(e)
    /\ \A w \in Dispatcher : HeldOK(w, e) /\ DraftOK(w, e)

IInv == TypeOK /\ \A e \in Event : EventOK(e)

-----------------------------------------------------------------------------
(* Facts about the states of the invariant *)

\* A row is a row, a claim is a claim, and neither is NoRow.
LEMMA EntryTypes ==
  ASSUME TypeOK, NEW e \in Event
  PROVE  /\ rows[e] # NoRow => rows[e] \in Row
         /\ \A w \in Dispatcher :
               /\ draft[w][e] # NoRow => draft[w][e] \in Row
               /\ held[w][e] # NoRow => held[w][e] \in Claim
         /\ \A row \in Row : row # NoRow
         /\ \A claim \in Claim : claim # NoRow
BY NoValueAssumption DEF TypeOK

\* The delay of a retry is within the policy.
LEMMA DelayType ==
  ASSUME NEW n \in 1 .. MaxAttempts
  PROVE  Delay(n) \in 0 .. MaxDelay
<1>1. n - 1 \in 0 .. MaxAttempts
  BY PolicyAssumption
<1>2. 2 ^ (n - 1) \in Nat
  BY <1>1, PowerAssumption
<1>3. BaseDelay * 2 ^ (n - 1) \in Nat
  BY <1>2, PolicyAssumption
<1>4. QED
  BY <1>3, PolicyAssumption DEF Delay, Min

\* A claim marks the row as processed under a full lease.
LEMMA ClaimedType ==
  ASSUME NEW row \in Row, NEW t \in Token
  PROVE  /\ Claimed(row, t) \in Row
         /\ Claimed(row, t).status = "processing"
         /\ Claimed(row, t).attempts > 0
         /\ Claimed(row, t).token = t
<1>1. Min(row.attempts + 1, MaxAttempts + 1) \in 1 .. MaxAttempts + 1
  BY PolicyAssumption DEF Row, Min
<1>2. PICK n \in 1 .. MaxAttempts + 1 :
        Claimed(row, t) = [row EXCEPT !.status = "processing", !.attempts = n,
                                      !.lease = Lease, !.token = t]
  BY <1>1 DEF Claimed
<1>3. Lease \in 0 .. Lease /\ n \in 0 .. MaxAttempts + 1 /\ n > 0
  BY PolicyAssumption
<1>4. Claimed(row, t) \in Row
  BY <1>2, <1>3 DEF Row, Status
<1>5. QED
  BY <1>2, <1>3, <1>4 DEF Row

\* Time changes the deadlines and nothing else.
LEMMA RowLaterType ==
  ASSUME NEW row \in Row
  PROVE  /\ RowLater(row) \in Row
         /\ RowLater(row).status = row.status /\ RowLater(row).token = row.token
         /\ RowLater(row).attempts = row.attempts
         /\ RowLater(row).lease = Less(row.lease) /\ RowLater(row).wait = Less(row.wait)
<1>1. row # NoRow
  BY NoValueAssumption
<1>2. Less(row.lease) \in 0 .. Lease /\ Less(row.wait) \in 0 .. MaxDelay
  BY PolicyAssumption DEF Row, Less
<1>3. RowLater(row) = [row EXCEPT !.wait = Less(@), !.lease = Less(@)]
  BY <1>1 DEF RowLater
<1>4. QED
  BY <1>2, <1>3 DEF Row

LEMMA ClaimLaterType ==
  ASSUME NEW claim \in Claim
  PROVE  /\ ClaimLater(claim) \in Claim
         /\ ClaimLater(claim).token = claim.token
         /\ ClaimLater(claim).lease = Less(claim.lease)
<1>1. claim # NoRow
  BY NoValueAssumption
<1>2. Less(claim.lease) \in 0 .. Lease
  BY PolicyAssumption DEF Claim, Less
<1>3. ClaimLater(claim) = [claim EXCEPT !.lease = Less(@)]
  BY <1>1 DEF ClaimLater
<1>4. QED
  BY <1>2, <1>3 DEF Claim

\* What the invariant says of an event depends on its entries only.
LEMMA SameEvent ==
  ASSUME IInv, NEW e \in Event, rows'[e] = rows[e],
         \A w \in Dispatcher : draft'[w][e] = draft[w][e] /\ held'[w][e] = held[w][e]
  PROVE  EventOK(e)'
BY DEF IInv, EventOK, ClaimsApart, AttemptsOK, HeldOK, DraftOK, Due

-----------------------------------------------------------------------------
(* The actions, one lemma each *)

LEMMA InitIInv == Init => IInv
BY PolicyAssumption
DEF Init, IInv, TypeOK, Nothing, EventOK, ClaimsApart, AttemptsOK, HeldOK, DraftOK

LEMMA AppendIInv ==
  ASSUME IInv, NEW e \in Event, Append(e)
  PROVE  IInv'
<1>1. TypeOK /\ EventOK(e)
  BY DEF IInv
<1> DEFINE row == [status |-> "pending", attempts |-> 0, wait |-> 0, lease |-> 0, token |-> NoToken]
<1>2. row \in Row
  BY PolicyAssumption DEF Row, Status
<1>3. TypeOK'
  BY <1>1, <1>2 DEF TypeOK, Append
<1>4. ASSUME NEW f \in Event PROVE EventOK(f)'
  <2>1. CASE f = e
    <3>1. rows[e] = NoRow /\ rows'[e] = row /\ UNCHANGED <<draft, held>>
      BY <1>1 DEF Append, TypeOK
    <3>2. \A w \in Dispatcher : draft[w][e] = NoRow /\ held[w][e] = NoRow
      BY <1>1, <3>1 DEF EventOK, HeldOK, DraftOK, Due
    <3>3. QED
      BY <2>1, <3>1, <3>2, PolicyAssumption
      DEF EventOK, ClaimsApart, AttemptsOK, HeldOK, DraftOK
  <2>2. CASE f # e
    BY <1>1, <2>2, SameEvent DEF Append, TypeOK
  <2>3. QED
    BY <2>1, <2>2
<1>5. QED
  BY <1>3, <1>4 DEF IInv

LEMMA ClaimBatchIInv ==
  ASSUME IInv, NEW w \in Dispatcher, ClaimBatch(w)
  PROVE  IInv'
<1>1. TypeOK
  BY DEF IInv
<1>2. PICK S \in SUBSET Claimable(w) : \E new \in [S -> Token] :
        /\ \A e \in S : Fresh(new[e])
        /\ draft' = [draft EXCEPT ![w] =
             [e \in Event |-> IF e \in S THEN Claimed(rows[e], new[e]) ELSE NoRow]]
  BY DEF ClaimBatch
<1>3. PICK new \in [S -> Token] :
        /\ \A e \in S : Fresh(new[e])
        /\ draft' = [draft EXCEPT ![w] =
             [e \in Event |-> IF e \in S THEN Claimed(rows[e], new[e]) ELSE NoRow]]
  BY <1>2
<1>4. UNCHANGED <<rows, held, faults>> /\ \A e \in Event : draft[w][e] = NoRow
  BY DEF ClaimBatch, Nothing
<1>5. ASSUME NEW e \in S
      PROVE  /\ e \in Event /\ Due(e) /\ ~Locked(e) /\ new[e] \in Token /\ rows[e] \in Row
             /\ Claimed(rows[e], new[e]) \in Row
  <2>1. e \in Event /\ Due(e) /\ ~Locked(e) /\ new[e] \in Token
    BY DEF Claimable
  <2>2. rows[e] \in Row
    BY <1>1, <2>1 DEF Due, TypeOK
  <2>3. QED
    BY <2>1, <2>2, ClaimedType
<1>6. /\ \A e \in Event : draft'[w][e] = IF e \in S THEN Claimed(rows[e], new[e]) ELSE NoRow
      /\ \A v \in Dispatcher : v # w => draft'[v] = draft[v]
  BY <1>1, <1>3 DEF TypeOK
<1>7. TypeOK'
  BY <1>1, <1>3, <1>4, <1>5 DEF TypeOK
<1>8. ASSUME NEW e \in Event PROVE EventOK(e)'
  <2>1. CASE e \in S
    <3>1. draft'[w][e] = Claimed(rows[e], new[e]) /\ rows[e] \in Row /\ new[e] \in Token
      BY <1>5, <1>6, <2>1
    <3>2. draft'[w][e].status = "processing" /\ draft'[w][e].attempts > 0 /\ draft'[w][e].token = new[e]
      BY <3>1, ClaimedType
    <3>3. \A v \in Dispatcher : v # w => draft'[v][e] = NoRow
      BY <1>5, <1>6, <2>1 DEF Locked
    <3>4. \A v \in Dispatcher : held[v][e] # NoRow => held[v][e].token # new[e]
      BY <1>3, <2>1 DEF Fresh
    <3>5. ASSUME NEW v \in Dispatcher PROVE DraftOK(v, e)'
      BY <1>4, <1>5, <2>1, <3>1, <3>2, <3>3, <3>4 DEF DraftOK, Due
    <3>6. QED
      BY <1>4, <3>5 DEF IInv, EventOK, ClaimsApart, AttemptsOK, HeldOK
  <2>2. CASE e \notin S
    <3>1. \A v \in Dispatcher : draft'[v][e] = draft[v][e]
      BY <1>4, <1>6, <2>2
    <3>2. QED
      BY <1>4, <3>1, SameEvent
  <2>3. QED
    BY <2>1, <2>2
<1>9. QED
  BY <1>7, <1>8 DEF IInv

\* A committed claim replaces one whose lease has run out, or none.
LEMMA ClaimCommitIInv ==
  ASSUME IInv, NEW w \in Dispatcher, ClaimCommit(w)
  PROVE  IInv'
<1>1. TypeOK
  BY DEF IInv
<1> DEFINE claim(e) == [token |-> draft[w][e].token, lease |-> draft[w][e].lease, sent |-> FALSE]
<1>2. ASSUME NEW e \in Event, draft[w][e] # NoRow
      PROVE  draft[w][e] \in Row /\ claim(e) \in Claim /\ claim(e) # NoRow
  <2>1. draft[w][e] \in Row /\ draft[w][e].token \in Token
    BY <1>1, <1>2, EntryTypes DEF IInv, EventOK, DraftOK
  <2>2. claim(e) \in Claim
    BY <2>1 DEF Row, Claim
  <2>3. QED
    BY <2>1, <2>2, NoValueAssumption
<1>3. /\ \A e \in Event : rows'[e] = IF draft[w][e] # NoRow THEN draft[w][e] ELSE rows[e]
      /\ \A e \in Event : held'[w][e] = IF draft[w][e] # NoRow THEN claim(e) ELSE NoRow
      /\ \A e \in Event : draft'[w][e] = NoRow
      /\ \A v \in Dispatcher : v # w => held'[v] = held[v] /\ draft'[v] = draft[v]
  BY <1>1 DEF ClaimCommit, TypeOK, Nothing
<1>4. TypeOK'
  BY <1>1, <1>2 DEF TypeOK, ClaimCommit, Nothing
<1> HIDE DEF claim
<1>5. ASSUME NEW e \in Event PROVE EventOK(e)'
  <2>1. EventOK(e) /\ \A v \in Dispatcher : HeldOK(v, e) /\ DraftOK(v, e)
    BY DEF IInv, EventOK
  <2>2. CASE draft[w][e] # NoRow
    <3>1. /\ Due(e) /\ draft[w][e].status = "processing" /\ draft[w][e].attempts > 0
          /\ \A v \in Dispatcher : v # w => draft[v][e] = NoRow
          /\ \A v \in Dispatcher : held[v][e] # NoRow => held[v][e].token # draft[w][e].token
      BY <2>1, <2>2 DEF DraftOK
    <3>2. /\ rows'[e] = draft[w][e] /\ held'[w][e] = claim(e) /\ draft'[w][e] = NoRow
          /\ \A v \in Dispatcher : v # w => held'[v][e] = held[v][e] /\ draft'[v][e] = NoRow
      BY <1>3, <2>2, <3>1
    <3>3. claim(e).token = draft[w][e].token /\ claim(e).lease = draft[w][e].lease
      BY DEF claim
    <3>4. ASSUME NEW v \in Dispatcher, v # w, held[v][e] # NoRow PROVE ~(held[v][e].lease > 0)
      <4>1. rows[e] \in Row /\ held[v][e] \in Claim
        BY <1>1, <3>1, <3>4, EntryTypes DEF Due
      <4>2. QED
        BY <2>1, <3>1, <3>4, <4>1 DEF HeldOK, Due, Row, Claim
    <3>5. ClaimsApart(e)'
      BY <2>1, <3>1, <3>2, <3>3 DEF EventOK, ClaimsApart
    <3>6. AttemptsOK(e)'
      BY <3>1, <3>2 DEF AttemptsOK
    <3>7. ASSUME NEW v \in Dispatcher PROVE HeldOK(v, e)' /\ DraftOK(v, e)'
      BY <2>2, <3>1, <3>2, <3>3, <3>4 DEF HeldOK, DraftOK
    <3>8. QED
      BY <3>5, <3>6, <3>7 DEF EventOK
  <2>3. CASE draft[w][e] = NoRow
    <3>1. /\ rows'[e] = rows[e] /\ held'[w][e] = NoRow /\ draft'[w][e] = NoRow
          /\ \A v \in Dispatcher : v # w => held'[v][e] = held[v][e] /\ draft'[v][e] = draft[v][e]
      BY <1>3, <2>3
    <3>2. QED
      BY <2>1, <2>3, <3>1 DEF EventOK, ClaimsApart, AttemptsOK, HeldOK, DraftOK, Due
  <2>4. QED
    BY <2>2, <2>3
<1>6. QED
  BY <1>4, <1>5 DEF IInv

LEMMA PublishIInv ==
  ASSUME IInv, NEW w \in Dispatcher, NEW e \in Event, Publish(w, e)
  PROVE  IInv'
<1>1. TypeOK /\ EventOK(e) /\ UNCHANGED <<rows, draft, faults>>
  BY DEF IInv, Publish
<1>2. held[w][e] # NoRow /\ held[w][e] \in Claim
  BY <1>1, EntryTypes DEF Publish
<1> DEFINE sent == [held[w][e] EXCEPT !.sent = TRUE]
<1>3. /\ sent \in Claim /\ sent.token = held[w][e].token /\ sent.lease = held[w][e].lease
  BY <1>2 DEF Claim
<1>4. held' = [held EXCEPT ![w] = [held[w] EXCEPT ![e] = sent]]
  BY DEF Publish
<1> HIDE DEF sent
<1>5. /\ held'[w][e] = sent
      /\ \A v \in Dispatcher, f \in Event : v # w \/ f # e => held'[v][f] = held[v][f]
  BY <1>1, <1>4 DEF TypeOK
<1>6. TypeOK'
  BY <1>1, <1>3, <1>4 DEF TypeOK
<1>7. ASSUME NEW f \in Event PROVE EventOK(f)'
  <2>1. CASE f = e
    <3>1. \A v \in Dispatcher : held'[v][e] # NoRow =>
            /\ held[v][e] # NoRow
            /\ held'[v][e].token = held[v][e].token /\ held'[v][e].lease = held[v][e].lease
      BY <1>2, <1>3, <1>5
    <3>2. QED
      BY <1>1, <2>1, <3>1 DEF EventOK, ClaimsApart, AttemptsOK, HeldOK, DraftOK, Due
  <2>2. CASE f # e
    BY <1>1, <1>5, <2>2, SameEvent
  <2>3. QED
    BY <2>1, <2>2
<1>8. QED
  BY <1>6, <1>7 DEF IInv

LEMMA CrashIInv ==
  ASSUME IInv, NEW w \in Dispatcher, Crash(w)
  PROVE  IInv'
<1>1. TypeOK
  BY DEF IInv
<1>2. TypeOK'
  BY <1>1, PolicyAssumption DEF TypeOK, Crash, Nothing
<1>3. /\ UNCHANGED rows
      /\ \A e \in Event : draft'[w][e] = NoRow /\ held'[w][e] = NoRow
      /\ \A v \in Dispatcher : v # w => draft'[v] = draft[v] /\ held'[v] = held[v]
  BY <1>1 DEF Crash, TypeOK, Nothing
<1>4. ASSUME NEW e \in Event PROVE EventOK(e)'
  BY <1>3 DEF IInv, EventOK, ClaimsApart, AttemptsOK, HeldOK, DraftOK, Due
<1>5. QED
  BY <1>2, <1>4 DEF IInv

\* A settled claim is dropped; its row changes only if the claim still owns it.
LEMMA SettleIInv ==
  ASSUME IInv, NEW w \in Dispatcher, NEW e \in Event, Settle(w, e),
         rows' \in [Event -> Row \cup {NoRow}],
         \A f \in Event : f # e => rows'[f] = rows[f],
         \/ rows'[e] = rows[e]
         \/ Owns(w, e) /\ rows'[e] # NoRow /\ AttemptsOK(e)'
  PROVE  IInv'
<1>1. TypeOK /\ EventOK(e)
  BY DEF IInv
<1>2. /\ held'[w][e] = NoRow /\ UNCHANGED <<draft, faults>>
      /\ \A v \in Dispatcher, f \in Event : v # w \/ f # e => held'[v][f] = held[v][f]
  BY <1>1 DEF Settle, TypeOK
<1>3. held[w][e] # NoRow /\ \A v \in Dispatcher : draft[v][e] = NoRow
  BY DEF Settle, Locked
<1>4. TypeOK'
  BY <1>1 DEF Settle, TypeOK
<1>5. ASSUME NEW f \in Event PROVE EventOK(f)'
  <2>1. CASE f = e /\ rows'[e] = rows[e]
    BY <1>1, <1>2, <1>3, <2>1 DEF EventOK, ClaimsApart, AttemptsOK, HeldOK, DraftOK
  <2>2. CASE f = e /\ Owns(w, e) /\ rows'[e] # NoRow /\ AttemptsOK(e)'
    <3>1. ASSUME NEW v \in Dispatcher, v # w, held[v][e] # NoRow PROVE ~(held[v][e].lease > 0)
      BY <1>1, <1>3, <2>2, <3>1 DEF EventOK, ClaimsApart, HeldOK, Owns
    <3>2. ASSUME NEW v \in Dispatcher PROVE HeldOK(v, e)' /\ DraftOK(v, e)'
      BY <1>2, <1>3, <2>2, <3>1 DEF HeldOK, DraftOK
    <3>3. ClaimsApart(e)'
      BY <1>1, <1>2 DEF EventOK, ClaimsApart
    <3>4. QED
      BY <2>2, <3>2, <3>3 DEF EventOK
  <2>3. CASE f # e
    BY <1>2, <2>3, SameEvent
  <2>4. QED
    BY <2>1, <2>2, <2>3
<1>6. QED
  BY <1>4, <1>5 DEF IInv

\* What mark_published and apply_failure do to the row.
LEMMA SettledRow ==
  ASSUME IInv, NEW w \in Dispatcher, NEW e \in Event,
         MarkPublished(w, e) \/ ApplyFailure(w, e)
  PROVE  /\ Owns(w, e) /\ rows[e] \in Row /\ rows'[e] \in Row
         /\ \A f \in Event : f # e => rows'[f] = rows[f]
         /\ rows' \in [Event -> Row \cup {NoRow}]
         /\ rows'[e].status \in {"published", "dead_letter", "pending"}
         /\ rows'[e].status = "pending" => rows'[e].attempts < MaxAttempts
<1>1. TypeOK /\ EventOK(e) /\ Owns(w, e) /\ held[w][e] # NoRow
  BY DEF IInv, MarkPublished, ApplyFailure, Settle
<1>2. rows[e] # NoRow /\ rows[e] \in Row /\ rows[e].attempts > 0
  BY <1>1, EntryTypes DEF EventOK, HeldOK, AttemptsOK, Owns
<1> DEFINE failed == [rows[e] EXCEPT !.lease = 0, !.token = NoToken]
           published == [failed EXCEPT !.status = "published"]
           dead == [failed EXCEPT !.status = "dead_letter"]
           retried == [failed EXCEPT !.status = "pending", !.wait = Delay(rows[e].attempts)]
<1>3. failed \in Row /\ failed.attempts = rows[e].attempts
  <2>1. 0 \in 0 .. Lease
    BY PolicyAssumption
  <2>2. QED
    BY <1>2, <2>1 DEF Row
<1>4. PICK row \in {published, dead, retried} :
        /\ rows' = [rows EXCEPT ![e] = row]
        /\ row = retried => ~Exhausted(rows[e])
  <2>1. CASE MarkPublished(w, e)
    <3>1. rows' = [rows EXCEPT ![e] = [[[rows[e] EXCEPT !.status = "published"]
                                           EXCEPT !.lease = 0] EXCEPT !.token = NoToken]]
      BY <1>1, <2>1 DEF MarkPublished, TypeOK
    <3>2. [[[rows[e] EXCEPT !.status = "published"] EXCEPT !.lease = 0] EXCEPT !.token = NoToken]
            = published
      BY <1>2 DEF Row
    <3>3. published # retried
      BY <1>2, <1>3 DEF Row
    <3>4. QED
      BY <3>1, <3>2, <3>3
  <2>2. CASE ApplyFailure(w, e)
    <3>1. dead # retried
      BY <1>2, <1>3 DEF Row
    <3>2. QED
      BY <2>2, <3>1 DEF ApplyFailure
  <2>3. QED
    BY <2>1, <2>2
<1>5. row \in Row /\ row.status \in {"published", "dead_letter", "pending"}
      /\ (row.status = "pending" => row.attempts < MaxAttempts)
  <2>1. CASE row = published \/ row = dead
    BY <1>3, <2>1 DEF Row, Status
  <2>2. CASE row = retried
    <3>1. rows[e].attempts \in 1 .. MaxAttempts /\ rows[e].attempts < MaxAttempts
      BY <1>2, <1>4, <2>2, PolicyAssumption DEF Exhausted, Row
    <3>2. Delay(rows[e].attempts) \in 0 .. MaxDelay
      BY <3>1, DelayType
    <3>3. QED
      BY <1>3, <2>2, <3>1, <3>2 DEF Row, Status
  <2>3. QED
    BY <2>1, <2>2
<1> HIDE DEF failed, published, dead, retried
<1>6. rows'[e] = row /\ \A f \in Event : f # e => rows'[f] = rows[f]
  BY <1>1, <1>4 DEF TypeOK
<1>7. rows' \in [Event -> Row \cup {NoRow}]
  BY <1>1, <1>4, <1>5 DEF TypeOK
<1>8. QED
  BY <1>1, <1>2, <1>5, <1>6, <1>7

LEMMA FinishIInv ==
  ASSUME IInv, NEW w \in Dispatcher, NEW e \in Event, Finish(w, e)
  PROVE  IInv'
<1>1. CASE MarkPublished(w, e) \/ ApplyFailure(w, e)
  <2>1. Settle(w, e)
    BY <1>1 DEF MarkPublished, ApplyFailure
  <2>2. AttemptsOK(e)' /\ rows'[e] # NoRow
    BY <1>1, SettledRow, NoValueAssumption DEF AttemptsOK
  <2>3. QED
    BY <1>1, <2>1, <2>2, SettledRow, SettleIInv
<1>2. CASE RefuseStale(w, e)
  BY <1>2, SettleIInv DEF RefuseStale, IInv, TypeOK
<1>3. QED
  BY <1>1, <1>2 DEF Finish

\* A lease and the claim that goes with it run out at the same moment.
LEMMA TickIInv ==
  ASSUME IInv, Tick
  PROVE  IInv'
<1>1. TypeOK
  BY DEF IInv
<1>2. /\ \A e \in Event : rows'[e] = RowLater(rows[e])
      /\ \A w \in Dispatcher, e \in Event :
            /\ draft'[w][e] = RowLater(draft[w][e])
            /\ held'[w][e] = ClaimLater(held[w][e])
  BY DEF Tick
<1>3. RowLater(NoRow) = NoRow /\ ClaimLater(NoRow) = NoRow
  BY DEF RowLater, ClaimLater
<1>4. TypeOK'
  <2>1. \A row \in Row \cup {NoRow} : RowLater(row) \in Row \cup {NoRow}
    BY <1>3, RowLaterType
  <2>2. \A claim \in Claim \cup {NoRow} : ClaimLater(claim) \in Claim \cup {NoRow}
    BY <1>3, ClaimLaterType
  <2>3. faults' \in 0 .. MaxFaults
    BY <1>1, PolicyAssumption DEF TypeOK, Tick
  <2>4. QED
    BY <1>1, <2>1, <2>2, <2>3 DEF TypeOK, Tick
<1>5. ASSUME NEW e \in Event PROVE EventOK(e)'
  <2>1. ASSUME rows'[e] # NoRow
        PROVE  /\ rows[e] # NoRow /\ rows[e] \in Row /\ rows'[e].status = rows[e].status
               /\ rows'[e].token = rows[e].token /\ rows'[e].attempts = rows[e].attempts
               /\ rows'[e].lease = Less(rows[e].lease) /\ rows'[e].wait = Less(rows[e].wait)
    BY <1>1, <1>2, <1>3, <2>1, EntryTypes, RowLaterType
  <2>2. rows[e] # NoRow => rows'[e] # NoRow
    BY <1>1, <1>2, EntryTypes, RowLaterType, NoValueAssumption
  <2>3. ASSUME NEW w \in Dispatcher, draft'[w][e] # NoRow
        PROVE  /\ draft[w][e] # NoRow /\ draft'[w][e].status = draft[w][e].status
               /\ draft'[w][e].token = draft[w][e].token
               /\ draft'[w][e].attempts = draft[w][e].attempts
    BY <1>1, <1>2, <1>3, <2>3, EntryTypes, RowLaterType
  <2>4. ASSUME NEW w \in Dispatcher, held'[w][e] # NoRow
        PROVE  /\ held[w][e] # NoRow /\ held[w][e] \in Claim
               /\ held'[w][e].token = held[w][e].token
               /\ held'[w][e].lease = Less(held[w][e].lease)
    BY <1>1, <1>2, <1>3, <2>4, EntryTypes, ClaimLaterType
  <2>5. EventOK(e)
    BY DEF IInv
  <2>6. ClaimsApart(e)'
    BY <2>4, <2>5 DEF EventOK, ClaimsApart
  <2>7. AttemptsOK(e)'
    BY <2>1, <2>5 DEF EventOK, AttemptsOK
  <2>8. Due(e) => Due(e)'
    BY <2>1, <2>2 DEF Due, Less
  <2>9. ASSUME NEW w \in Dispatcher PROVE HeldOK(w, e)' /\ DraftOK(w, e)'
    <3>1. HeldOK(w, e)'
      BY <2>1, <2>2, <2>4, <2>5 DEF EventOK, HeldOK, Less, Claim
    <3>2. DraftOK(w, e)'
      BY <2>3, <2>4, <2>5, <2>8 DEF EventOK, DraftOK
    <3>3. QED
      BY <3>1, <3>2
  <2>10. QED
    BY <2>6, <2>7, <2>9 DEF EventOK
<1>6. QED
  BY <1>4, <1>5 DEF IInv

-----------------------------------------------------------------------------
(* The theorems *)

LEMMA NextIInv ==
  ASSUME IInv, [Next]_vars
  PROVE  IInv'
<1>1. CASE UNCHANGED vars
  <2>1. TypeOK'
    BY <1>1 DEF vars, IInv, TypeOK
  <2>2. \A e \in Event : EventOK(e)'
    BY <1>1, SameEvent DEF vars
  <2>3. QED
    BY <2>1, <2>2 DEF IInv
<1>2. ASSUME NEW e \in Event, Append(e) PROVE IInv'
  BY <1>2, AppendIInv
<1>3. ASSUME NEW w \in Dispatcher, ClaimBatch(w) \/ ClaimCommit(w) \/ Crash(w) PROVE IInv'
  BY <1>3, ClaimBatchIInv, ClaimCommitIInv, CrashIInv
<1>4. ASSUME NEW w \in Dispatcher, NEW e \in Event, Publish(w, e) \/ Finish(w, e) PROVE IInv'
  BY <1>4, PublishIInv, FinishIInv
<1>5. CASE Tick
  BY <1>5, TickIInv
<1>6. QED
  BY <1>1, <1>2, <1>3, <1>4, <1>5 DEF Next

\* The inductive invariant holds in every state, however dispatchers crash
\* and overrun their leases.
THEOREM Invariance == Spec => []IInv
<1>1. Init => IInv
  BY InitIInv
<1>2. IInv /\ [Next]_vars => IInv'
  BY NextIInv
<1>3. QED
  BY <1>1, <1>2, PTL DEF Spec

\* Every reachable state of the outbox is well typed: the delay of a retry
\* stays within the policy whatever the number of attempts.
THEOREM TypeCorrectness == Spec => []TypeOK
<1>1. IInv => TypeOK
  BY DEF IInv
<1>2. QED
  BY <1>1, Invariance, PTL

\* At most one dispatcher works on an event under a lease that runs, however
\* many poll, crash, overrun their leases and come back (claim_batch).
THEOREM LeasesExclude == Spec => []OneLiveLease
<1>1. ASSUME IInv PROVE OneLiveLease
  BY <1>1 DEF IInv, EventOK, HeldOK, ClaimsApart, OneLiveLease
<1>2. QED
  BY <1>1, Invariance, PTL

\* A pending event has an attempt left (apply_failure).
THEOREM AttemptsRemain == Spec => []RetryHasAttemptsLeft
<1>1. ASSUME IInv PROVE RetryHasAttemptsLeft
  BY <1>1 DEF IInv, EventOK, AttemptsOK, RetryHasAttemptsLeft
<1>2. QED
  BY <1>1, Invariance, PTL

\* What one step may do to a row that is settled or claimed.
SettledByOwner(e) ==
    rows[e] # NoRow =>
        /\ rows[e].status \in {"published", "dead_letter"} => rows'[e].status = rows[e].status
        /\ rows[e].status = "processing" /\ rows'[e].status # "processing" =>
              \E w \in Dispatcher : held[w][e] # NoRow /\ held'[w][e] = NoRow
                                      /\ held[w][e].token = rows[e].token

LEMMA NextSettles ==
  ASSUME IInv, Next, NEW e \in Event
  PROVE  SettledByOwner(e)
<1>1. TypeOK /\ EventOK(e)
  BY DEF IInv
<1>2. CASE rows[e] = NoRow \/ rows'[e] = rows[e]
  BY <1>2 DEF SettledByOwner
<1>3. ASSUME NEW f \in Event, Append(f) PROVE SettledByOwner(e)
  <2>1. rows[e] = NoRow \/ rows'[e] = rows[e]
    BY <1>1, <1>3 DEF Append, TypeOK
  <2>2. QED
    BY <1>2, <2>1
<1>4. ASSUME NEW w \in Dispatcher, ClaimCommit(w) PROVE SettledByOwner(e)
  <2>1. rows'[e] = IF draft[w][e] # NoRow THEN draft[w][e] ELSE rows[e]
    BY <1>1, <1>4 DEF ClaimCommit, TypeOK
  <2>2. CASE draft[w][e] # NoRow
    BY <1>1, <2>1, <2>2 DEF EventOK, DraftOK, Due, SettledByOwner
  <2>3. QED
    BY <1>2, <2>1, <2>2
<1>5. ASSUME NEW w \in Dispatcher, NEW f \in Event, Finish(w, f) PROVE SettledByOwner(e)
  <2>1. CASE f = e /\ ~RefuseStale(w, f)
    <3>1. Owns(w, e) /\ held[w][e] # NoRow /\ held'[w][e] = NoRow
      BY <1>1, <1>5, <2>1 DEF Finish, MarkPublished, ApplyFailure, Settle, TypeOK
    <3>2. QED
      BY <3>1 DEF Owns, SettledByOwner
  <2>2. CASE f # e /\ ~RefuseStale(w, f)
    BY <1>2, <1>5, <2>2, SettledRow DEF Finish
  <2>3. CASE RefuseStale(w, f)
    BY <1>2, <2>3 DEF RefuseStale
  <2>4. QED
    BY <2>1, <2>2, <2>3
<1>6. ASSUME NEW w \in Dispatcher,
             ClaimBatch(w) \/ Crash(w) \/ \E f \in Event : Publish(w, f)
      PROVE  SettledByOwner(e)
  BY <1>2, <1>6 DEF ClaimBatch, Crash, Publish
<1>7. CASE Tick
  <2>1. rows[e] # NoRow => rows'[e].status = rows[e].status
    BY <1>1, <1>7, EntryTypes, RowLaterType DEF Tick
  <2>2. QED
    BY <2>1 DEF SettledByOwner
<1>8. QED
  BY <1>3, <1>4, <1>5, <1>6, <1>7 DEF Next

\* No step undoes the outcome of an event, and an event leaves processing
\* only by the call of a dispatcher whose claim is still the row's claim
\* (mark_published, apply_failure).
THEOREM OwnersSettle == Spec => StaleClaimsSettleNothing
<1>1. IInv /\ [Next]_vars => [\A e \in Event : SettledByOwner(e)]_vars
  BY NextSettles
<1>2. QED
  BY <1>1, Invariance, PTL DEF Spec, StaleClaimsSettleNothing, SettledByOwner
=============================================================================

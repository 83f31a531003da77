------------------------------- MODULE Outbox -------------------------------
(***************************************************************************)
(* The transactional outbox: events are written with business state, and   *)
(* dispatchers claim batches of them under a lease, publish them, and      *)
(* settle each claim as published or failed.  The dispatchers are not in   *)
(* the repository: they are modelled by the calls that OutboxStore offers. *)
(* A dispatcher settles in a transaction that locks the row it settles.    *)
(*                                                                         *)
(* Deadlines are kept as the time left until them: available_at and        *)
(* claimed_until matter only by whether they have passed.                  *)
(***************************************************************************)
EXTENDS Naturals, FiniteSets

CONSTANTS
    Event,        \* outbox events
    Dispatcher,   \* processes that publish events
    Token,        \* claim tokens
    NoToken,      \* claim_token is NULL
    NoRow,        \* no such row, or no uncommitted version of it
    Limit,        \* size of a claimed batch
    Lease,        \* lease_duration
    MaxAttempts, BaseDelay, MaxDelay,    \* RetryPolicy
    MaxFaults     \* bound on crashes of dispatchers and leases they overrun

\* RetryPolicy.__post_init__, and the checks of claim_batch.
ASSUME PolicyAssumption ==
    /\ MaxAttempts \in Nat \ {0} /\ BaseDelay \in Nat \ {0}
    /\ MaxDelay \in Nat /\ MaxDelay >= BaseDelay
    /\ Limit \in Nat \ {0} /\ Lease \in Nat \ {0}
    /\ MaxFaults \in Nat

\* Powers of two are natural numbers: the provers know no rule about them.
ASSUME PowerAssumption == \A n \in 0 .. MaxAttempts : 2 ^ n \in Nat

Status == {"pending", "processing", "published", "dead_letter"}

\* A row of outbox_event: the time until it is available, the time left of
\* its claim, and attempt_count, counted to one past MaxAttempts.
Row == [status : Status, attempts : 0 .. MaxAttempts + 1,
        wait : 0 .. MaxDelay, lease : 0 .. Lease, token : Token \cup {NoToken}]

\* A claim in the hands of a dispatcher.
Claim == [token : Token, lease : 0 .. Lease, sent : BOOLEAN]

ASSUME NoValueAssumption == NoToken \notin Token /\ NoRow \notin Row \cup Claim

VARIABLES
    rows,       \* the committed rows of outbox_event
    draft,      \* the rows each dispatcher's claim_batch has locked and changed
    held,       \* the claims each dispatcher works on
    faults      \* crashes and overrun leases so far

vars == <<rows, draft, held, faults>>

TypeOK ==
    /\ rows \in [Event -> Row \cup {NoRow}]
    /\ draft \in [Dispatcher -> [Event -> Row \cup {NoRow}]]
    /\ held \in [Dispatcher -> [Event -> Claim \cup {NoRow}]]
    /\ faults \in 0 .. MaxFaults

Nothing == [e \in Event |-> NoRow]

Init ==
    /\ rows = Nothing
    /\ draft = [w \in Dispatcher |-> Nothing]
    /\ held = [w \in Dispatcher |-> Nothing]
    /\ faults = 0

Min(a, b) == IF a <= b THEN a ELSE b

Less(n) == IF n = 0 THEN 0 ELSE n - 1

\* A row that a transaction has locked and not committed.
Locked(e) == \E w \in Dispatcher : draft[w][e] # NoRow

\* uuid4: a token nobody remembers.
Fresh(t) ==
    /\ \A e \in Event : rows[e] # NoRow => rows[e].token # t
    /\ \A w \in Dispatcher, e \in Event :
          /\ draft[w][e] # NoRow => draft[w][e].token # t
          /\ held[w][e] # NoRow => held[w][e].token # t

-----------------------------------------------------------------------------
(* OutboxEventModel.create and OutboxStore.append *)

\* The business transaction that appends the event commits.
Append(e) ==
    /\ rows[e] = NoRow
    /\ rows' = [rows EXCEPT ![e] =
         [status |-> "pending", attempts |-> 0, wait |-> 0, lease |-> 0, token |-> NoToken]]
    /\ UNCHANGED <<draft, held, faults>>

-----------------------------------------------------------------------------
(* OutboxStore.claim_batch *)

\* Variant: an expired claim is not taken over.
DuePendingOnly(e) ==
    rows[e] # NoRow /\ rows[e].status = "pending" /\ rows[e].wait = 0

Due(e) ==
    /\ rows[e] # NoRow
    /\ \/ rows[e].status = "pending" /\ rows[e].wait = 0
       \/ rows[e].status = "processing" /\ rows[e].lease = 0

\* Variant: SELECT without FOR UPDATE SKIP LOCKED.
ClaimableUnlocked(w) == {e \in Event : Due(e)}

\* SKIP LOCKED leaves out the rows of other claims in progress.
Claimable(w) == {e \in Event : Due(e) /\ ~Locked(e)}

Claimed(row, t) ==
    [row EXCEPT !.status = "processing", !.attempts = Min(@ + 1, MaxAttempts + 1),
                !.lease = Lease, !.token = t]

\* Up to Limit due rows are locked and marked; each gets a token of its own.
\* Which ones depends on available_at and created_at.
ClaimBatch(w) ==
    /\ draft[w] = Nothing /\ held[w] = Nothing
    /\ \E S \in SUBSET Claimable(w) : \E new \in [S -> Token] :
          /\ S # {} /\ Cardinality(S) = Min(Limit, Cardinality(Claimable(w)))
          /\ \A e \in S : Fresh(new[e]) /\ \A f \in S : new[e] = new[f] => e = f
          /\ draft' = [draft EXCEPT ![w] =
               [e \in Event |-> IF e \in S THEN Claimed(rows[e], new[e]) ELSE NoRow]]
    /\ UNCHANGED <<rows, held, faults>>

ClaimCommit(w) ==
    /\ draft[w] # Nothing
    /\ rows' = [e \in Event |-> IF draft[w][e] # NoRow THEN draft[w][e] ELSE rows[e]]
    /\ held' = [held EXCEPT ![w] = [e \in Event |->
         IF draft[w][e] # NoRow
           THEN [token |-> draft[w][e].token, lease |-> draft[w][e].lease, sent |-> FALSE]
           ELSE NoRow]]
    /\ draft' = [draft EXCEPT ![w] = Nothing]
    /\ UNCHANGED faults

-----------------------------------------------------------------------------
(* The dispatcher *)

\* The event is handed to the broker, in time or not.
Publish(w, e) ==
    /\ held[w][e] # NoRow /\ ~held[w][e].sent
    /\ held' = [held EXCEPT ![w][e].sent = TRUE]
    /\ UNCHANGED <<rows, draft, faults>>

\* The dispatcher dies, or its claim transaction fails.
Crash(w) ==
    /\ draft[w] # Nothing \/ held[w] # Nothing
    /\ faults < MaxFaults
    /\ faults' = faults + 1
    /\ draft' = [draft EXCEPT ![w] = Nothing]
    /\ held' = [held EXCEPT ![w] = Nothing]
    /\ UNCHANGED rows

-----------------------------------------------------------------------------
(* OutboxStore.mark_published and OutboxStore.apply_failure *)

\* Variant: a claim is compared with the status only.
OwnsByStatus(w, e) == rows[e].status = "processing"

\* The claim is still the row's claim; its lease may have run out.
Owns(w, e) == rows[e].status = "processing" /\ rows[e].token = held[w][e].token

\* The row is locked, and the dispatcher is done with the claim.
Settle(w, e) ==
    /\ held[w][e] # NoRow /\ ~Locked(e)
    /\ held' = [held EXCEPT ![w][e] = NoRow]
    /\ UNCHANGED <<draft, faults>>

MarkPublished(w, e) ==
    /\ Settle(w, e)
    /\ held[w][e].sent
    /\ Owns(w, e)
    /\ rows' = [rows EXCEPT ![e].status = "published", ![e].lease = 0, ![e].token = NoToken]

\* Variant: the delay is not capped.
DelayUncapped(attempts) == BaseDelay * 2 ^ (attempts - 1)

\* min(base * 2^(attempts - 1), max)
Delay(attempts) == Min(BaseDelay * 2 ^ (attempts - 1), MaxDelay)

\* Variant: one attempt too many.
ExhaustedLate(row) == row.attempts > MaxAttempts

Exhausted(row) == row.attempts >= MaxAttempts

\* Publication failed, or seems to have: it is tried again later, or never.
ApplyFailure(w, e) ==
    /\ Settle(w, e)
    /\ Owns(w, e)
    /\ LET failed == [rows[e] EXCEPT !.lease = 0, !.token = NoToken]
       IN  \/ /\ Exhausted(rows[e])
              /\ rows' = [rows EXCEPT ![e] = [failed EXCEPT !.status = "dead_letter"]]
           \/ /\ ~Exhausted(rows[e])
              /\ rows' = [rows EXCEPT ![e] =
                   [failed EXCEPT !.status = "pending", !.wait = Delay(rows[e].attempts)]]

\* Either call raises ValueError for a claim that was taken over.
RefuseStale(w, e) ==
    /\ Settle(w, e)
    /\ ~Owns(w, e)
    /\ UNCHANGED rows

-----------------------------------------------------------------------------
\* One unit of time passes.
RowLater(row) ==
    IF row = NoRow THEN row ELSE [row EXCEPT !.wait = Less(@), !.lease = Less(@)]

ClaimLater(claim) == IF claim = NoRow THEN claim ELSE [claim EXCEPT !.lease = Less(@)]

\* A dispatcher is about to be slower than its lease.
Overrun ==
    \E w \in Dispatcher, e \in Event :
        \/ draft[w][e] # NoRow /\ draft[w][e].lease = 1
        \/ held[w][e] # NoRow /\ held[w][e].lease = 1

Tick ==
    /\ faults' = IF Overrun THEN faults + 1 ELSE faults
    /\ faults' <= MaxFaults
    /\ rows' = [e \in Event |-> RowLater(rows[e])]
    /\ draft' = [w \in Dispatcher |-> [e \in Event |-> RowLater(draft[w][e])]]
    /\ held' = [w \in Dispatcher |-> [e \in Event |-> ClaimLater(held[w][e])]]

Finish(w, e) == MarkPublished(w, e) \/ ApplyFailure(w, e) \/ RefuseStale(w, e)

Next ==
    \/ \E e \in Event : Append(e)
    \/ \E w \in Dispatcher :
          \/ ClaimBatch(w) \/ ClaimCommit(w) \/ Crash(w)
          \/ \E e \in Event : Publish(w, e) \/ Finish(w, e)
    \/ Tick

Spec == Init /\ [][Next]_vars

\* Time passes, a dispatcher polls and finishes what it claimed, in its lease
\* but for MaxFaults times, and the oldest due event is claimed first: none
\* is passed over for ever.
Fairness ==
    /\ WF_vars(Tick)
    /\ \A w \in Dispatcher : WF_vars(ClaimCommit(w))
    /\ \A w \in Dispatcher, e \in Event : SF_vars(Finish(w, e))
    /\ \A e \in Event : SF_vars(\E w \in Dispatcher : ClaimBatch(w) /\ draft'[w][e] # NoRow)

FairSpec == Spec /\ Fairness

-----------------------------------------------------------------------------
(* Properties *)

\* Two dispatchers never work on one event under leases that have not run
\* out: it is claimed again only when its lease has expired (claim_batch:
\* FOR UPDATE SKIP LOCKED and claimed_until).
OneLiveLease ==
    \A e \in Event, w, v \in Dispatcher :
        (/\ held[w][e] # NoRow /\ held[v][e] # NoRow
         /\ held[w][e].lease > 0 /\ held[v][e].lease > 0) => w = v

\* An event that waits for another attempt has one left: reported failures
\* alone never exceed max_attempts (apply_failure).
RetryHasAttemptsLeft ==
    \A e \in Event : rows[e] # NoRow /\ rows[e].status = "pending" =>
        rows[e].attempts < MaxAttempts

\* A published or dead-lettered event stays so, and no claim that was taken
\* over settles its event: neither a slow dispatcher nor a crashed one that
\* comes back undoes what another decided (mark_published, apply_failure).
StaleClaimsSettleNothing ==
    [][\A e \in Event : rows[e] # NoRow =>
         /\ rows[e].status \in {"published", "dead_letter"} => rows'[e].status = rows[e].status
         /\ rows[e].status = "processing" /\ rows'[e].status # "processing" =>
              \E w \in Dispatcher : held[w][e] # NoRow /\ held'[w][e] = NoRow
                                      /\ held[w][e].token = rows[e].token]_vars

\* Every event is published or dead-lettered in the end, although the
\* dispatchers that claimed it may die with it (claim_batch takes over an
\* expired claim).
EveryEventIsSettled ==
    \A e \in Event : rows[e] # NoRow ~>
        rows[e] # NoRow /\ rows[e].status \in {"published", "dead_letter"}
=============================================================================

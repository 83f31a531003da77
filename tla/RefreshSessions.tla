--------------------------- MODULE RefreshSessions ---------------------------
(***************************************************************************)
(* Refresh-session families of the identity module, under concurrent       *)
(* requests.  Every login, refresh and logout request runs in one          *)
(* PostgreSQL transaction at READ COMMITTED: each statement reads the rows *)
(* committed when it starts, a row lock is held until the transaction      *)
(* ends, and an UPDATE that waited for a lock re-evaluates its WHERE       *)
(* clause on the committed version of the rows of its own snapshot.        *)
(*                                                                         *)
(* A Session stands for a session id and for the token whose digest its    *)
(* row stores: both are generated together and both are unique.            *)
(***************************************************************************)
EXTENDS Naturals

CONSTANTS
    Request,      \* requests the API serves concurrently
    Session,      \* refresh credentials that logins and rotations may mint
    Family,       \* family ids that logins may mint
    User,         \* local accounts
    NoRequest,    \* "no transaction holds the row lock"
    NoSession,    \* "the request presented no token"
    NoRow,        \* "no such row"
    IdleTTL,      \* refresh_token_idle_ttl_seconds
    AbsoluteTTL,  \* refresh_token_absolute_ttl_seconds
    MaxClock      \* bound on the clock

\* A row of identity.refresh_session.  consumed and revoked stand for
\* consumed_at and revoked_at being set: no decision reads their values.
\* RefreshSession.__post_init__ refuses an idle expiry past the absolute one.
Row == {row \in [family : Family, user : User, idle : Nat, absolute : Nat,
                 consumed : BOOLEAN, revoked : BOOLEAN] : row.idle <= row.absolute}

\* The idle and absolute lifetimes are validated positive.
ASSUME TTLAssumption == IdleTTL \in Nat \ {0} /\ AbsoluteTTL \in Nat \ {0}
ASSUME ClockAssumption == MaxClock \in Nat
ASSUME NoValueAssumption ==
    /\ NoRequest \notin Request
    /\ NoSession \notin Session
    /\ NoRow \notin Row

VARIABLES
    clock,        \* datetime.now(UTC)
    enabled,      \* account and membership of the user are both active
    rows,         \* the committed table identity.refresh_session
    lock,         \* the transaction that holds each row's lock
    pc,           \* the statement each request executes next
    token,        \* the credential each request presented
    minted,       \* the replacement id and token each refresh generated
    at,           \* the time each request read when it began
    snap,         \* the rows matched by the snapshot of the family UPDATE
    draft,        \* the uncommitted row versions of each transaction
    result,       \* the outcome the handler will return
    loggedOut,    \* history: families whose logout has committed
    replayed      \* history: families whose replay revocation has committed

db == <<rows, lock>>
request == <<token, minted, at, snap, draft, result>>
history == <<loggedOut, replayed>>
vars == <<clock, enabled, db, pc, request, history>>

Pc == {"idle", "select", "resolve", "find", "update", "updating", "commit"}

Result == {"none", "login", "ROTATED", "INVALID", "REPLAY_REVOKED", "logout"}

TypeOK ==
    /\ clock \in Nat
    /\ enabled \in [User -> BOOLEAN]
    /\ rows \in [Session -> Row \cup {NoRow}]
    /\ lock \in [Session -> Request \cup {NoRequest}]
    /\ pc \in [Request -> Pc]
    /\ token \in [Request -> Session \cup {NoSession}]
    /\ minted \in [Request -> Session \cup {NoSession}]
    /\ at \in [Request -> Nat]
    /\ snap \in [Request -> SUBSET Session]
    /\ draft \in [Request -> [Session -> Row \cup {NoRow}]]
    /\ result \in [Request -> Result]
    /\ loggedOut \in SUBSET Family
    /\ replayed \in SUBSET Family

-----------------------------------------------------------------------------
(* Helpers *)

Min(a, b) == IF a <= b THEN a ELSE b

Issued(s) == rows[s] # NoRow

InFamily(s, f) == Issued(s) /\ rows[s].family = f

NoDraft == [s \in Session |-> NoRow]

\* RefreshSession.issue
Issue(f, u, now) ==
    [family |-> f, user |-> u,
     idle |-> Min(now + IdleTTL, now + AbsoluteTTL),
     absolute |-> now + AbsoluteTTL,
     consumed |-> FALSE, revoked |-> FALSE]

\* Variant: every rotation starts a new absolute lifetime.
ReplacementSliding(row, now) == Issue(row.family, row.user, now)

\* Variant: the idle expiry of a replacement is not capped.
ReplacementUncapped(row, now) ==
    [family |-> row.family, user |-> row.user,
     idle |-> now + IdleTTL, absolute |-> row.absolute,
     consumed |-> FALSE, revoked |-> FALSE]

\* The replacement that RefreshSession.rotate creates.
Replacement(row, now) ==
    [family |-> row.family, user |-> row.user,
     idle |-> Min(now + IdleTTL, row.absolute),
     absolute |-> row.absolute,
     consumed |-> FALSE, revoked |-> FALSE]

\* Variant: revocation is not looked at.
IsActiveUnlessConsumed(row, now) ==
    ~row.consumed /\ now < row.idle /\ now < row.absolute

\* RefreshSession.is_active, and with it the checks of RefreshSession.rotate.
IsActive(row, now) ==
    ~row.consumed /\ ~row.revoked /\ now < row.idle /\ now < row.absolute

\* A fresh uuid4 and token: in no row, and generated by no other request.
Fresh(s) == ~Issued(s) /\ \A q \in Request : minted[q] # s

FreshFamily(f) ==
    /\ \A s \in Session : ~InFamily(s, f)
    /\ \A q \in Request, s \in Session : draft[q][s] # NoRow => draft[q][s].family # f

\* The row lock that SELECT ... FOR UPDATE and UPDATE take, or wait for.
CanLock(r, s) == lock[s] \in {NoRequest, r}

Init ==
    /\ clock = 0
    /\ enabled = [u \in User |-> TRUE]
    /\ rows = [s \in Session |-> NoRow]
    /\ lock = [s \in Session |-> NoRequest]
    /\ pc = [r \in Request |-> "idle"]
    /\ token = [r \in Request |-> NoSession]
    /\ minted = [r \in Request |-> NoSession]
    /\ at = [r \in Request |-> 0]
    /\ snap = [r \in Request |-> {}]
    /\ draft = [r \in Request |-> NoDraft]
    /\ result = [r \in Request |-> "none"]
    /\ loggedOut = {}
    /\ replayed = {}

-----------------------------------------------------------------------------
(* The end of the transaction: AsyncTransactionManager.__aexit__ *)

\* The request's session is closed and its locks are released.
Close(r) ==
    /\ lock' = [s \in Session |-> IF lock[s] = r THEN NoRequest ELSE lock[s]]
    /\ pc' = [pc EXCEPT ![r] = "idle"]
    /\ token' = [token EXCEPT ![r] = NoSession]
    /\ minted' = [minted EXCEPT ![r] = NoSession]
    /\ at' = [at EXCEPT ![r] = 0]
    /\ snap' = [snap EXCEPT ![r] = {}]
    /\ draft' = [draft EXCEPT ![r] = NoDraft]
    /\ result' = [result EXCEPT ![r] = "none"]

\* The family that the row of the presented token belongs to.
TokenFamily(r) == rows[token[r]].family

\* The handler returned: its writes become visible to later statements.
Commit(r) ==
    /\ pc[r] = "commit"
    /\ rows' = [s \in Session |-> IF draft[r][s] # NoRow THEN draft[r][s] ELSE rows[s]]
    /\ loggedOut' = loggedOut \cup (IF result[r] = "logout" THEN {TokenFamily(r)} ELSE {})
    /\ replayed' = replayed \cup (IF result[r] = "REPLAY_REVOKED" THEN {TokenFamily(r)} ELSE {})
    /\ Close(r)
    /\ UNCHANGED <<clock, enabled>>

\* The handler raised, the client went away, the process or the connection
\* died, or the commit itself failed: nothing of the request remains.
Rollback(r) ==
    /\ pc[r] # "idle"
    /\ Close(r)
    /\ UNCHANGED <<clock, enabled, rows, history>>

-----------------------------------------------------------------------------
(* POST /login *)

\* AuthenticateLocalAccountHandler: account and membership are active.  A wrong
\* password begins no session, and the rehash of a right one is left out.
Authenticates(u) == enabled[u]

\* The first session of a new family is added.
Login(r, u, s, f) ==
    /\ pc[r] = "idle"
    /\ Authenticates(u)
    /\ Fresh(s) /\ FreshFamily(f)
    /\ minted' = [minted EXCEPT ![r] = s]
    /\ at' = [at EXCEPT ![r] = clock]
    /\ draft' = [draft EXCEPT ![r][s] = Issue(f, u, clock)]
    /\ result' = [result EXCEPT ![r] = "login"]
    /\ pc' = [pc EXCEPT ![r] = "commit"]
    /\ UNCHANGED <<clock, enabled, db, token, snap, history>>

-----------------------------------------------------------------------------
(* POST /refresh *)

\* The request generates the replacement and reads the clock before it waits
\* for the row of the token it presents.
RefreshBegin(r, s, t) ==
    /\ pc[r] = "idle"
    /\ Fresh(t)
    /\ token' = [token EXCEPT ![r] = s]
    /\ minted' = [minted EXCEPT ![r] = t]
    /\ at' = [at EXCEPT ![r] = clock]
    /\ pc' = [pc EXCEPT ![r] = "select"]
    /\ UNCHANGED <<clock, enabled, db, snap, draft, result, history>>

\* No row has the presented digest.
RefreshUnknown(r) ==
    /\ pc[r] = "select"
    /\ ~Issued(token[r])
    /\ result' = [result EXCEPT ![r] = "INVALID"]
    /\ pc' = [pc EXCEPT ![r] = "commit"]
    /\ UNCHANGED <<clock, enabled, db, token, minted, at, snap, draft, history>>

\* Variant: a plain SELECT.
SelectWithoutLock(r) ==
    /\ pc[r] = "select"
    /\ Issued(token[r])
    /\ UNCHANGED lock

\* SELECT ... FOR UPDATE returns the row once no other transaction locks it.
SelectForUpdate(r) ==
    /\ pc[r] = "select"
    /\ Issued(token[r])
    /\ CanLock(r, token[r])
    /\ lock' = [lock EXCEPT ![token[r]] = r]

\* The token was consumed before: the family is revoked next.
RefreshReplay(r) ==
    /\ SelectForUpdate(r)
    /\ rows[token[r]].consumed
    /\ result' = [result EXCEPT ![r] = "REPLAY_REVOKED"]
    /\ pc' = [pc EXCEPT ![r] = "update"]
    /\ UNCHANGED <<clock, enabled, rows, token, minted, at, snap, draft, history>>

\* The token was revoked, or had expired when the request began.
RefreshInvalid(r) ==
    /\ SelectForUpdate(r)
    /\ ~rows[token[r]].consumed
    /\ ~IsActive(rows[token[r]], at[r])
    /\ result' = [result EXCEPT ![r] = "INVALID"]
    /\ pc' = [pc EXCEPT ![r] = "commit"]
    /\ UNCHANGED <<clock, enabled, rows, token, minted, at, snap, draft, history>>

\* The credential is consumed and its replacement is flushed.
RefreshRotate(r) ==
    /\ SelectForUpdate(r)
    /\ IsActive(rows[token[r]], at[r])
    /\ draft' = [draft EXCEPT
                   ![r][token[r]] = [rows[token[r]] EXCEPT !.consumed = TRUE],
                   ![r][minted[r]] = Replacement(rows[token[r]], at[r])]
    /\ result' = [result EXCEPT ![r] = "ROTATED"]
    /\ pc' = [pc EXCEPT ![r] = "resolve"]
    /\ UNCHANGED <<clock, enabled, rows, token, minted, at, snap, history>>

\* ResolveIdentityHandler re-reads account, membership and the new session.
Resolvable(r) ==
    /\ enabled[rows[token[r]].user]
    /\ IsActive(draft[r][minted[r]], at[r])

\* Variant: the transaction of a refused identity is neither committed nor
\* rolled back.
RefreshResolveLeak(r) ==
    /\ pc[r] = "resolve"
    /\ Resolvable(r)
    /\ pc' = [pc EXCEPT ![r] = "commit"]
    /\ UNCHANGED <<clock, enabled, db, request, history>>

\* An identity that cannot be resolved raises: the rotation is rolled back.
RefreshResolve(r) ==
    /\ pc[r] = "resolve"
    /\ \/ /\ Resolvable(r)
          /\ pc' = [pc EXCEPT ![r] = "commit"]
          /\ UNCHANGED <<clock, enabled, db, request, history>>
       \/ /\ ~Resolvable(r)
          /\ Rollback(r)

-----------------------------------------------------------------------------
(* POST /logout, and the family UPDATE it shares with a replay *)

LogoutBegin(r, s) ==
    /\ pc[r] = "idle"
    /\ token' = [token EXCEPT ![r] = s]
    /\ pc' = [pc EXCEPT ![r] = "find"]
    /\ UNCHANGED <<clock, enabled, db, minted, at, snap, draft, result, history>>

\* The family of the presented token is read without a lock.  A token that
\* has no committed row revokes nothing, and logout still succeeds.
LogoutFind(r) ==
    /\ pc[r] = "find"
    /\ \/ /\ Issued(token[r])
          /\ result' = [result EXCEPT ![r] = "logout"]
          /\ pc' = [pc EXCEPT ![r] = "update"]
       \/ /\ ~Issued(token[r])
          /\ pc' = [pc EXCEPT ![r] = "commit"]
          /\ UNCHANGED result
    /\ UNCHANGED <<clock, enabled, db, token, minted, at, snap, draft, history>>

\* Variant: only the presented credential is revoked.
UpdatePresented(r) ==
    /\ pc[r] = "update"
    /\ snap' = [snap EXCEPT ![r] = {s \in {token[r]} : ~rows[s].revoked}]
    /\ pc' = [pc EXCEPT ![r] = "updating"]
    /\ UNCHANGED <<clock, enabled, db, token, minted, at, draft, result, history>>

\* UPDATE ... WHERE family_id = :f AND revoked_at IS NULL takes its snapshot.
UpdateFamily(r) ==
    /\ pc[r] = "update"
    /\ snap' = [snap EXCEPT ![r] =
                  {s \in Session : InFamily(s, TokenFamily(r)) /\ ~rows[s].revoked}]
    /\ pc' = [pc EXCEPT ![r] = "updating"]
    /\ UNCHANGED <<clock, enabled, db, token, minted, at, draft, result, history>>

\* The UPDATE has yet to revoke s; rows another transaction revoked since the
\* snapshot no longer match.
Unfinished(r, s) == s \in snap[r] /\ ~rows[s].revoked /\ draft[r][s] = NoRow

\* One row of the snapshot is locked and revoked.
UpdateRow(r, s) ==
    /\ pc[r] = "updating"
    /\ Unfinished(r, s)
    /\ CanLock(r, s)
    /\ lock' = [lock EXCEPT ![s] = r]
    /\ draft' = [draft EXCEPT ![r][s] = [rows[s] EXCEPT !.revoked = TRUE]]
    /\ UNCHANGED <<clock, enabled, rows, pc, token, minted, at, snap, result, history>>

UpdateDone(r) ==
    /\ pc[r] = "updating"
    /\ \A s \in Session : ~Unfinished(r, s)
    /\ pc' = [pc EXCEPT ![r] = "commit"]
    /\ UNCHANGED <<clock, enabled, db, request, history>>

-----------------------------------------------------------------------------
(* The environment *)

\* Another transaction q holds what r needs next.
BlockedBy(r, Q) ==
    \/ /\ pc[r] = "select" /\ Issued(token[r])
       /\ lock[token[r]] \in Q \ {r}
    \/ /\ pc[r] = "updating"
       /\ \E s \in Session : Unfinished(r, s)
       /\ \A s \in Session : Unfinished(r, s) => lock[s] \in Q \ {r}

\* PostgreSQL aborts one of the transactions that wait for each other.
DeadlockVictim(r) ==
    /\ \E Q \in SUBSET Request : r \in Q /\ \A q \in Q : BlockedBy(q, Q)
    /\ Rollback(r)

\* An operator disables or re-enables an account or its membership.
SetEnabled(u) ==
    /\ enabled' = [enabled EXCEPT ![u] = ~@]
    /\ UNCHANGED <<clock, db, pc, request, history>>

Tick ==
    /\ clock < MaxClock
    /\ clock' = clock + 1
    /\ UNCHANGED <<enabled, db, pc, request, history>>

\* The statements of a request that has begun.
Step(r) ==
    \/ RefreshUnknown(r) \/ RefreshReplay(r) \/ RefreshInvalid(r)
    \/ RefreshRotate(r) \/ RefreshResolve(r)
    \/ LogoutFind(r) \/ UpdateFamily(r) \/ UpdateDone(r)
    \/ \E s \in Session : UpdateRow(r, s)
    \/ Commit(r)

Begin(r) ==
    \/ \E u \in User, s \in Session, f \in Family : Login(r, u, s, f)
    \/ \E s, t \in Session : RefreshBegin(r, s, t)
    \/ \E s \in Session : LogoutBegin(r, s)

Next ==
    \/ \E r \in Request : Begin(r) \/ Step(r) \/ Rollback(r) \/ DeadlockVictim(r)
    \/ \E u \in User : SetEnabled(u)
    \/ Tick

Spec == Init /\ [][Next]_vars

\* A request that began is driven on by the event loop and the database;
\* PostgreSQL queues the waiters of a row lock, and resolves wait cycles.
\* Nothing makes a client send a request, or a transaction fail.
Fairness ==
    /\ \A r \in Request : SF_vars(Step(r))
    /\ WF_vars(\E r \in Request : DeadlockVictim(r))

FairSpec == Spec /\ Fairness

-----------------------------------------------------------------------------
(* Properties *)

\* A family has exactly one credential that was not consumed: a rotation
\* consumes a credential if and only if it creates its sole replacement,
\* however refreshes, replays, logouts and failures interleave
\* (RefreshSession.rotate, rotate_refresh_session).
OneCurrentCredential ==
    \A s \in Session : Issued(s) =>
        \E t \in Session :
            /\ InFamily(t, rows[s].family) /\ ~rows[t].consumed
            /\ \A v \in Session :
                  InFamily(v, rows[s].family) /\ ~rows[v].consumed => v = t

\* Rotations pass on the account and the absolute expiry of the login, so no
\* chain of refreshes outlives it (RefreshSession.rotate).
FamilyLifetime ==
    \A s, t \in Session : Issued(s) /\ InFamily(t, rows[s].family) =>
        rows[t].user = rows[s].user /\ rows[t].absolute = rows[s].absolute

\* After a committed logout no credential of the family can back a principal
\* or be refreshed (auth.logout: "revoke the refresh family").
LoggedOutFamilyIsDead ==
    \A s \in Session : Issued(s) /\ rows[s].family \in loggedOut =>
        ~IsActive(rows[s], clock)

\* After a replay was answered no credential of the family can back a
\* principal or be refreshed (RefreshTokenReplayError: "requiring revocation
\* of its entire family").
ReplayedFamilyIsDead ==
    \A s \in Session : Issued(s) /\ rows[s].family \in replayed =>
        ~IsActive(rows[s], clock)

\* Every request that began comes to an end: no request waits forever for a
\* row lock (get_database_transaction closes every transaction).
RequestsFinish == \A r \in Request : pc[r] # "idle" ~> pc[r] = "idle"

\* The unconsumed credential of a family.
Current(f) ==
    IF \E s \in Session : InFamily(s, f) /\ ~rows[s].consumed
      THEN CHOOSE s \in Session : InFamily(s, f) /\ ~rows[s].consumed
      ELSE NoSession

Families == INSTANCE SessionFamilies WITH
    current <- [f \in Family |-> Current(f)],
    used    <- {s \in Session : Issued(s)},
    barred  <- {s \in Session : Issued(s) /\ rows[s].revoked}

\* The transactions of concurrent requests take effect as the atomic steps of
\* SessionFamilies: in particular a revoked credential is never rotated, even
\* when the revocation commits between a refresh's check and its commit.
RotatesAtomically == Families!Spec
=============================================================================

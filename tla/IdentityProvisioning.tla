------------------------ MODULE IdentityProvisioning ------------------------
(***************************************************************************)
(* Accounts come into being in two ways: every API process looks for a     *)
(* manager when it starts and creates the configured one if there is none, *)
(* and managers register accounts over HTTP.  Both run add_registration in *)
(* a READ COMMITTED transaction of their own, next to any number of other  *)
(* starts and requests.                                                    *)
(*                                                                         *)
(* One row stands for the three rows of an account, its membership and its *)
(* role, which only a commit makes visible, together.  The row locks of    *)
(* PostgreSQL are those of what each transaction has flushed.              *)
(***************************************************************************)
EXTENDS Naturals, FiniteSets

CONSTANTS
    Server,       \* API processes
    Request,      \* registration requests
    User,         \* user ids (uuid4)
    NoUser,       \* no user id
    NoRow,        \* no such row
    Spelling,     \* user names as they are typed
    Normal,       \* username.strip().casefold(), for every spelling
    InitialName,  \* initial_manager_username, for every process
    MaxCrashes    \* bound on crashes of processes

ASSUME NameAssumption ==
    /\ Normal \in [Spelling -> Spelling]
    /\ \A n \in Spelling : Normal[Normal[n]] = Normal[n]
    /\ InitialName \in [Server -> Spelling]
    /\ Server \cap Request = {} /\ NoUser \notin User /\ MaxCrashes \in Nat

Role == {"manager", "employee"}
Status == {"active", "disabled"}

\* An account with its membership and role, and the account that registered
\* it (NoUser for an initial manager).
Account == [login : Spelling, role : Role, by : User \cup {NoUser},
            status : Status, membership : Status]

ASSUME NoRowAssumption == NoRow \notin Account

\* Where a transaction is.  A start goes begun, locked, creating, ...,
\* committed, serving; a request goes begun, authorized, creating, ...,
\* committed.
Step == {"idle", "begun", "locked", "authorized", "creating", "account",
         "membership", "granted", "committed", "serving", "failed"}

\* late: the actor's account was disabled before the request arrived.
Transaction == [pc : Step, on : Server, name : Spelling, role : Role,
                actor : User \cup {NoUser}, user : User \cup {NoUser}, late : BOOLEAN]

VARIABLES
    accounts,    \* the committed rows
    tx,          \* what every start and every request is doing
    crashes      \* crashes so far

vars == <<accounts, tx, crashes>>

Actor == Server \cup Request

\* Rows that are flushed belong to a transaction that is open.
TypeOK ==
    /\ accounts \in [User -> Account \cup {NoRow}]
    /\ tx \in [Actor -> Transaction]
    /\ \A t \in Actor :
          tx[t].pc \in {"account", "membership", "granted"} <=> tx[t].user # NoUser
    /\ crashes \in 0 .. MaxCrashes

Idle(s, name) == [pc |-> "idle", on |-> s, name |-> name, role |-> "manager",
                  actor |-> NoUser, user |-> NoUser, late |-> FALSE]

Init ==
    /\ accounts = [u \in User |-> NoRow]
    /\ \E s \in Server :
          tx = [t \in Actor |-> IF t \in Server THEN Idle(t, InitialName[t])
                                                ELSE Idle(s, InitialName[s])]
    /\ crashes = 0

Managers == {u \in User : accounts[u] # NoRow /\ accounts[u].role = "manager"}

Goto(t, pc) == tx' = [tx EXCEPT ![t].pc = pc]

\* Variant: what the transaction flushed stays behind.
RolledBackInPart(x) == [x EXCEPT !.pc = "failed"]

\* The transaction is rolled back: what it flushed and locked is gone.
RolledBack(x) == [x EXCEPT !.pc = "failed", !.user = NoUser]

-----------------------------------------------------------------------------
(* add_registration *)

\* RegistrationCredentials.create and LocalAccount.register normalize the name.
StoredLogin(name) == Normal[name]

Flushed(t) == tx[t].pc \in {"account", "membership", "granted"}

\* The unique index on login_identifier makes an insert wait for the
\* transactions that have inserted the same login and not ended.
LoginPending(t) ==
    \E o \in Actor \ {t} :
        Flushed(o) /\ StoredLogin(tx[o].name) = StoredLogin(tx[t].name)

LoginTaken(t) ==
    \E u \in User : accounts[u] # NoRow /\ accounts[u].login = StoredLogin(tx[t].name)

FreshUser(u) == accounts[u] = NoRow /\ \A t \in Actor : tx[t].user # u

\* The account row is flushed, or UniqueViolation becomes BusinessConflictError.
FlushAccount(t) ==
    /\ tx[t].pc = "creating"
    /\ ~LoginPending(t)
    /\ \/ /\ LoginTaken(t)
          /\ tx' = [tx EXCEPT ![t] = RolledBack(@)]
       \/ /\ ~LoginTaken(t)
          /\ \E u \in User : /\ FreshUser(u)
                             /\ tx' = [tx EXCEPT ![t].pc = "account", ![t].user = u]
    /\ UNCHANGED <<accounts, crashes>>

FlushMembership(t) ==
    /\ tx[t].pc = "account"
    /\ Goto(t, "membership")
    /\ UNCHANGED <<accounts, crashes>>

\* Variant: the transaction of a start stays open while it serves.
HoldsRoleServing(s) ==
    s \in Server /\ (tx[s].pc \in {"locked", "creating", "committed", "serving"} \/ Flushed(s))

\* Starts that hold the manager role row FOR UPDATE.
HoldsRole(s) == s \in Server /\ (tx[s].pc \in {"locked", "creating"} \/ Flushed(s))

\* The foreign key takes the role row FOR KEY SHARE, which waits for FOR UPDATE.
FlushRole(t) ==
    /\ tx[t].pc = "membership"
    /\ tx[t].role = "manager" => \A s \in Server \ {t} : ~HoldsRole(s)
    /\ Goto(t, "granted")
    /\ UNCHANGED <<accounts, crashes>>

Commit(t) ==
    /\ tx[t].pc = "granted"
    /\ accounts' = [accounts EXCEPT ![tx[t].user] =
         [login |-> StoredLogin(tx[t].name), role |-> tx[t].role, by |-> tx[t].actor,
          status |-> "active", membership |-> "active"]]
    /\ tx' = [tx EXCEPT ![t].pc = "committed", ![t].user = NoUser]
    /\ UNCHANGED crashes

-----------------------------------------------------------------------------
(* The start of an API process: provision_initial_manager *)

Start(s) ==
    /\ tx[s].pc = "idle"
    /\ Goto(s, "begun")
    /\ UNCHANGED <<accounts, crashes>>

\* Variant: SELECT without FOR UPDATE.
RoleRowFreeAlways(s) == TRUE

\* FOR UPDATE waits for FOR UPDATE and for FOR KEY SHARE.
RoleRowFree(s) ==
    \A t \in Actor \ {s} :
        ~HoldsRole(t) /\ ~(tx[t].pc = "granted" /\ tx[t].role = "manager")

LockRole(s) ==
    /\ tx[s].pc = "begun"
    /\ RoleRowFree(s)
    /\ Goto(s, "locked")
    /\ UNCHANGED <<accounts, crashes>>

\* A statement of its own, with a snapshot taken after the lock.
ManagerExists == Managers # {}

CheckManager(s) ==
    /\ tx[s].pc = "locked"
    /\ Goto(s, IF ManagerExists THEN "committed" ELSE "creating")
    /\ UNCHANGED <<accounts, crashes>>

Serve(s) ==
    /\ tx[s].pc = "committed"
    /\ Goto(s, "serving")
    /\ UNCHANGED <<accounts, crashes>>

\* The process dies, with the requests it was working on, and is started
\* again; so is a process whose start failed.
Crash(s) ==
    /\ tx[s].pc # "idle"
    /\ crashes < MaxCrashes
    /\ crashes' = crashes + 1
    /\ tx' = [t \in Actor |->
         IF t = s THEN Idle(s, InitialName[s])
         ELSE IF t \in Request /\ tx[t].on = s /\ tx[t].pc \notin {"idle", "committed"}
                THEN RolledBack(tx[t])
                ELSE tx[t]]
    /\ UNCHANGED accounts

-----------------------------------------------------------------------------
(* POST /auth/register *)

Arrive(r, s, actor, name, role) ==
    /\ tx[r].pc = "idle" /\ tx[s].pc = "serving"
    /\ accounts[actor] # NoRow
    /\ tx' = [tx EXCEPT ![r] =
         [pc |-> "begun", on |-> s, name |-> name, role |-> role, actor |-> actor,
          user |-> NoUser, late |-> accounts[actor].status = "disabled"]]
    /\ UNCHANGED <<accounts, crashes>>

\* Variant: the account behind the token is not read again.
MayActByMembership(u) == accounts[u].membership = "active" /\ accounts[u].role = "manager"

\* get_current_principal and PermissionEvaluator: only managers have accounts.create.
MayAct(u) ==
    accounts[u].status = "active" /\ accounts[u].membership = "active"
      /\ accounts[u].role = "manager"

\* The principal is resolved in a transaction that ends here.
Authorize(r) ==
    /\ r \in Request /\ tx[r].pc = "begun"
    /\ Goto(r, IF MayAct(tx[r].actor) THEN "authorized" ELSE "failed")
    /\ UNCHANGED <<accounts, crashes>>

\* RegisterLocalAccountHandler reads the membership again, not the account.
Register(r) ==
    /\ tx[r].pc = "authorized"
    /\ LET actor == accounts[tx[r].actor]
       IN  Goto(r, IF actor.membership = "active" /\ actor.role = "manager"
                     THEN "creating" ELSE "failed")
    /\ UNCHANGED <<accounts, crashes>>

-----------------------------------------------------------------------------
\* An operator disables an account or a membership; no code of the
\* repository stores LocalAccount.disable or TenantMembership.disable yet.
Disable(u) ==
    /\ accounts[u] # NoRow
    /\ \/ accounts' = [accounts EXCEPT ![u].status = "disabled"]
       \/ accounts' = [accounts EXCEPT ![u].membership = "disabled"]
    /\ UNCHANGED <<tx, crashes>>

Progress(t) ==
    \/ FlushAccount(t) \/ FlushMembership(t) \/ FlushRole(t) \/ Commit(t)
    \/ t \in Server /\ (Start(t) \/ LockRole(t) \/ CheckManager(t) \/ Serve(t))
    \/ t \in Request /\ (Authorize(t) \/ Register(t))

Next ==
    \/ \E t \in Actor : Progress(t)
    \/ \E s \in Server : Crash(s)
    \/ \E r \in Request, s \in Server, actor \in User, name \in Spelling, role \in Role :
          Arrive(r, s, actor, name, role)
    \/ \E u \in User : Disable(u)

Spec == Init /\ [][Next]_vars

\* A process or a request goes on unless it waits for a lock; PostgreSQL
\* grants a lock that stays free.
FairSpec == Spec /\ \A t \in Actor : WF_vars(Progress(t))

-----------------------------------------------------------------------------
(* Properties *)

\* However many processes start at once, crash and start again, with the
\* same user name or with different ones, at most one initial manager is
\* ever created (BootstrapManagerHandler, manager_exists_for_update).
OneInitialManager ==
    \A u, v \in User :
        (/\ accounts[u] # NoRow /\ accounts[v] # NoRow
         /\ accounts[u].by = NoUser /\ accounts[v].by = NoUser) => u = v

\* A process that serves has a manager to be administered by
\* (provision_initial_manager runs before the application accepts traffic).
ServingHasManager == (\E s \in Server : tx[s].pc = "serving") => Managers # {}

\* A start that found no manager neither waits for another transaction nor
\* is refused: it holds the role row, and nobody can register an account
\* before there is a manager.  So a start never takes part in a deadlock.
BootstrapNeverConflicts ==
    \A s \in Server : tx[s].pc = "creating" => ~LoginPending(s) /\ ~LoginTaken(s)

\* Two accounts never differ in the spelling of their login only, whoever
\* creates them at the same time (unique login_identifier, normalized).
LoginsUnique ==
    \A u, v \in User :
        (accounts[u] # NoRow /\ accounts[v] # NoRow
           /\ Normal[accounts[u].login] = Normal[accounts[v].login]) => u = v

\* A request that arrives after its actor was disabled creates nothing,
\* although the handler itself does not look at the account again.
DisabledManagersCreateNothing ==
    \A r \in Request : tx[r].late =>
        tx[r].pc \notin {"creating", "account", "membership", "granted", "committed"}

\* Every start ends: the process serves, or died for good.
StartsEnd ==
    \A s \in Server : tx[s].pc = "begun" ~> tx[s].pc \in {"serving", "failed", "idle"}

\* Every registration is answered: created or refused, it does not wait for ever.
RegistrationsEnd ==
    \A r \in Request : tx[r].pc = "begun" ~> tx[r].pc \in {"committed", "failed"}

\* What starts and registrations leave behind, in whatever order they run and
\* crash: one initial manager, found by every process that serves, created
\* without a conflict, and no two accounts with one login.
ProvisioningAgrees ==
    OneInitialManager /\ ServingHasManager /\ BootstrapNeverConflicts /\ LoginsUnique

\* Every start and every registration ends: the locks on the role row and on
\* the login are never waited for in a circle.
ProvisioningEnds == StartsEnd /\ RegistrationsEnd
=============================================================================

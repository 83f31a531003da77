--------------------- MODULE IdentityProvisioning_proofs ---------------------
(***************************************************************************)
(* Proofs about the two ways in which code writes accounts, as MCAccounts  *)
(* puts them side by side, for every number of processes, requests,        *)
(* accounts and crashes.  IdentityProvisioning: type correctness,          *)
(* ProvisioningAgrees and DisabledManagersCreateNothing, from one          *)
(* inductive invariant.  PasswordRehash: RehashKeepsUpdates.  At the end,  *)
(* the composition, and with it WellTyped.                                 *)
(***************************************************************************)
EXTENDS MCAccounts, TLAPS

-----------------------------------------------------------------------------
(* The inductive invariant *)

Exists(u) == accounts[u] # NoRow

\* A start that found no manager holds the role row, so there is none until
\* it commits one.
StartOK(s) ==
    /\ tx[s].actor = NoUser /\ tx[s].role = "manager"
    /\ tx[s].pc = "creating" \/ Flushed(s) => Managers = {}
    /\ tx[s].pc \in {"committed", "serving"} => Managers # {}

\* A request has an actor with an account, and one whose actor was disabled
\* when it arrived never gets past the check of its principal.
RequestOK(r) ==
    /\ tx[r].pc # "idle" => tx[r].actor \in User /\ Exists(tx[r].actor)
    /\ tx[r].late =>
          /\ tx[r].pc \in {"begun", "failed"}
          /\ accounts[tx[r].actor].status = "disabled"

\* What is flushed is new: its id and its login are in no committed row, and
\* in no other transaction.
FlushOK(t) ==
    Flushed(t) =>
        /\ ~LoginTaken(t) /\ ~Exists(tx[t].user)
        /\ \A o \in Actor \ {t} : Flushed(o) =>
              /\ StoredLogin(tx[o].name) # StoredLogin(tx[t].name)
              /\ tx[o].user # tx[t].user

RoleRowExclusive == \A s, t \in Server : HoldsRole(s) /\ HoldsRole(t) => s = t

\* Nobody but a manager registers accounts, so a manager comes first; logins
\* are stored as they are compared.
AccountsOK ==
    /\ \A u \in User : Exists(u) => Managers # {} /\ Normal[accounts[u].login] = accounts[u].login
    /\ OneInitialManager
    /\ LoginsUnique

IInv ==
    /\ TypeOK
    /\ AccountsOK
    /\ RoleRowExclusive
    /\ \A s \in Server : StartOK(s)
    /\ \A r \in Request : RequestOK(r)
    /\ \A t \in Actor : FlushOK(t)

-----------------------------------------------------------------------------
(* Facts about the states of the invariant *)

LEMMA InitIInv == Init => IInv
<1>1. SUFFICES ASSUME Init PROVE IInv
  OBVIOUS
<1>2. PICK s0 \in Server :
        tx = [t \in Actor |-> IF t \in Server THEN Idle(t, InitialName[t])
                                              ELSE Idle(s0, InitialName[s0])]
  BY <1>1 DEF Init
<1>3. \A s \in Server : Idle(s, InitialName[s]) \in Transaction
  BY NameAssumption DEF Idle, Transaction, Step, Role
<1>4. \A t \in Actor :
        /\ tx[t].pc = "idle" /\ tx[t].actor = NoUser /\ tx[t].user = NoUser
        /\ tx[t].role = "manager" /\ ~tx[t].late
  BY <1>2 DEF Idle
<1>5. \A u \in User : ~Exists(u)
  BY <1>1 DEF Init, Exists
<1>6. TypeOK
  BY <1>1, <1>2, <1>3, <1>4, NameAssumption DEF Init, TypeOK
<1>7. AccountsOK
  BY <1>5 DEF AccountsOK, OneInitialManager, LoginsUnique, Exists
<1>8. QED
  BY <1>4, <1>6, <1>7
  DEF IInv, RoleRowExclusive, HoldsRole, Flushed, StartOK, RequestOK, FlushOK, Actor

\* What a step of t that leaves the accounts alone has to show.
LEMMA OwnStep ==
  ASSUME IInv, NEW t \in Actor, UNCHANGED accounts, crashes' \in 0 .. MaxCrashes,
         tx' \in [Actor -> Transaction],
         \A o \in Actor \ {t} : tx'[o] = tx[o],
         Flushed(t)' <=> tx'[t].user # NoUser,
         t \in Server => StartOK(t)',
         t \in Request => RequestOK(t)',
         FlushOK(t)',
         HoldsRole(t)' => HoldsRole(t) \/ \A s \in Server \ {t} : ~HoldsRole(s)
  PROVE  IInv'
<1>1. TypeOK'
  BY DEF IInv, TypeOK, Flushed
<1>2. AccountsOK' /\ Managers' = Managers
  BY DEF IInv, AccountsOK, OneInitialManager, LoginsUnique, Managers, Exists
<1>3. RoleRowExclusive'
  BY DEF IInv, RoleRowExclusive, HoldsRole, Flushed, Actor
<1>4. \A s \in Server : StartOK(s)'
  BY <1>2 DEF IInv, StartOK, Flushed, Actor
<1>5. \A r \in Request : RequestOK(r)'
  BY DEF IInv, RequestOK, Exists, Actor
<1>6. ASSUME NEW o \in Actor PROVE FlushOK(o)'
  <2>1. CASE o = t
    BY <2>1
  <2>2. CASE o # t
    <3>1. FlushOK(o)
      BY DEF IInv
    <3>2. QED
      BY <2>2, <3>1 DEF FlushOK, Flushed, LoginTaken, Exists
  <2>3. QED
    BY <2>1, <2>2
<1>7. QED
  BY <1>1, <1>2, <1>3, <1>4, <1>5, <1>6 DEF IInv

\* A transaction that only moves on keeps everything else it has.
LEMMA GotoEffect ==
  ASSUME TypeOK, NEW t \in Actor, NEW next \in Step, Goto(t, next)
  PROVE  /\ tx' \in [Actor -> Transaction]
         /\ \A o \in Actor \ {t} : tx'[o] = tx[o]
         /\ tx'[t].pc = next /\ tx'[t].name = tx[t].name /\ tx'[t].role = tx[t].role
         /\ tx'[t].actor = tx[t].actor /\ tx'[t].user = tx[t].user /\ tx'[t].late = tx[t].late
<1>1. tx[t] \in Transaction /\ tx' = [tx EXCEPT ![t] = [tx[t] EXCEPT !.pc = next]]
  BY DEF TypeOK, Goto
<1>2. [tx[t] EXCEPT !.pc = next] \in Transaction
  BY <1>1 DEF Transaction
<1>3. tx'[t] = [tx[t] EXCEPT !.pc = next]
  BY <1>1 DEF TypeOK
<1>4. QED
  BY <1>1, <1>2, <1>3 DEF TypeOK, Transaction

LEMMA RollbackEffect ==
  ASSUME NEW x \in Transaction
  PROVE  /\ RolledBack(x) \in Transaction
         /\ RolledBack(x).pc = "failed" /\ RolledBack(x).user = NoUser
         /\ RolledBack(x).actor = x.actor /\ RolledBack(x).role = x.role
         /\ RolledBack(x).late = x.late
BY DEF RolledBack, Transaction, Step

-----------------------------------------------------------------------------
(* The actions, one lemma each *)

\* Steps of a transaction that flush nothing and neither take nor need a lock.
LEMMA StartIInv ==
  ASSUME IInv, NEW s \in Server, Start(s) \/ Serve(s)
  PROVE  IInv'
<1>1. TypeOK /\ StartOK(s) /\ s \in Actor /\ s \notin Request /\ UNCHANGED <<accounts, crashes>>
  BY NameAssumption DEF IInv, Actor, Start, Serve
<1>2. PICK next \in {"begun", "serving"} : Goto(s, next) /\ (next = "serving" => tx[s].pc = "committed")
  BY DEF Start, Serve
<1>3. next \in Step
  BY DEF Step
<1>4. ~Flushed(s) /\ tx[s].user = NoUser
  BY <1>1 DEF Start, Serve, Flushed, TypeOK
<1>5. /\ tx' \in [Actor -> Transaction]
      /\ \A o \in Actor \ {s} : tx'[o] = tx[o]
      /\ tx'[s].pc = next /\ tx'[s].role = tx[s].role
      /\ tx'[s].actor = tx[s].actor /\ tx'[s].user = NoUser
  BY <1>1, <1>2, <1>3, <1>4, GotoEffect
<1>6. StartOK(s)' /\ FlushOK(s)' /\ ~HoldsRole(s)' /\ ~Flushed(s)'
  BY <1>1, <1>2, <1>5 DEF StartOK, FlushOK, HoldsRole, Flushed, Managers
<1>7. QED
  BY <1>1, <1>5, <1>6, OwnStep DEF TypeOK

LEMMA LockRoleIInv ==
  ASSUME IInv, NEW s \in Server, LockRole(s)
  PROVE  IInv'
<1>1. TypeOK /\ StartOK(s) /\ s \in Actor /\ s \notin Request /\ UNCHANGED <<accounts, crashes>>
  BY NameAssumption DEF IInv, Actor, LockRole
<1>2. tx[s].pc = "begun" /\ tx[s].user = NoUser /\ "locked" \in Step
  BY <1>1 DEF LockRole, TypeOK, Step
<1>3. /\ tx' \in [Actor -> Transaction]
      /\ \A o \in Actor \ {s} : tx'[o] = tx[o]
      /\ tx'[s].pc = "locked" /\ tx'[s].role = tx[s].role
      /\ tx'[s].actor = tx[s].actor /\ tx'[s].user = NoUser
  BY <1>1, <1>2, GotoEffect DEF LockRole
<1>4. StartOK(s)' /\ FlushOK(s)' /\ ~Flushed(s)'
  BY <1>1, <1>3 DEF StartOK, FlushOK, Flushed
<1>5. \A o \in Server \ {s} : ~HoldsRole(o)
  BY DEF LockRole, RoleRowFree, Actor
<1>6. QED
  BY <1>1, <1>3, <1>4, <1>5, OwnStep DEF TypeOK

LEMMA CheckManagerIInv ==
  ASSUME IInv, NEW s \in Server, CheckManager(s)
  PROVE  IInv'
<1>1. TypeOK /\ StartOK(s) /\ s \in Actor /\ s \notin Request /\ UNCHANGED <<accounts, crashes>>
  BY NameAssumption DEF IInv, Actor, CheckManager
<1>2. PICK next \in {"committed", "creating"} :
        Goto(s, next) /\ (next = "creating" <=> Managers = {})
  BY DEF CheckManager, ManagerExists
<1>3. tx[s].pc = "locked" /\ tx[s].user = NoUser /\ next \in Step /\ HoldsRole(s)
  BY <1>1 DEF CheckManager, TypeOK, Step, HoldsRole
<1>4. /\ tx' \in [Actor -> Transaction]
      /\ \A o \in Actor \ {s} : tx'[o] = tx[o]
      /\ tx'[s].pc = next /\ tx'[s].role = tx[s].role
      /\ tx'[s].actor = tx[s].actor /\ tx'[s].user = NoUser
  BY <1>1, <1>2, <1>3, GotoEffect
<1>5. StartOK(s)' /\ FlushOK(s)' /\ ~Flushed(s)'
  BY <1>1, <1>2, <1>4 DEF StartOK, FlushOK, Flushed, Managers
<1>6. QED
  BY <1>1, <1>3, <1>4, <1>5, OwnStep DEF TypeOK

\* The two steps of a request before it creates anything.
LEMMA AuthorizeIInv ==
  ASSUME IInv, NEW r \in Request, Authorize(r) \/ Register(r)
  PROVE  IInv'
<1>1. TypeOK /\ RequestOK(r) /\ r \in Actor /\ r \notin Server /\ UNCHANGED <<accounts, crashes>>
  BY NameAssumption DEF IInv, Actor, Authorize, Register
<1>2. PICK next \in {"authorized", "creating", "failed"} :
        /\ Goto(r, next)
        /\ next = "authorized" => MayAct(tx[r].actor)
        /\ next = "creating" => tx[r].pc = "authorized"
  BY DEF Authorize, Register
<1>3. tx[r].pc \in {"begun", "authorized"} /\ tx[r].user = NoUser /\ next \in Step
  BY <1>1 DEF Authorize, Register, TypeOK, Step
<1>4. /\ tx' \in [Actor -> Transaction]
      /\ \A o \in Actor \ {r} : tx'[o] = tx[o]
      /\ tx'[r].pc = next /\ tx'[r].actor = tx[r].actor
      /\ tx'[r].user = NoUser /\ tx'[r].late = tx[r].late
  BY <1>1, <1>2, <1>3, GotoEffect
<1>5. tx[r].late => next = "failed"
  BY <1>1, <1>2 DEF RequestOK, MayAct
<1>6. RequestOK(r)' /\ FlushOK(r)' /\ ~HoldsRole(r)' /\ ~Flushed(r)'
  BY <1>1, <1>3, <1>4, <1>5 DEF RequestOK, FlushOK, HoldsRole, Flushed, Exists
<1>7. QED
  BY <1>1, <1>4, <1>6, OwnStep DEF TypeOK

LEMMA ArriveIInv ==
  ASSUME IInv, NEW r \in Request, NEW s \in Server, NEW actor \in User,
         NEW name \in Spelling, NEW role \in Role, Arrive(r, s, actor, name, role)
  PROVE  IInv'
<1>1. TypeOK /\ r \in Actor /\ r \notin Server /\ UNCHANGED <<accounts, crashes>>
  BY NameAssumption DEF IInv, Actor, Arrive
<1> DEFINE x == [pc |-> "begun", on |-> s, name |-> name, role |-> role, actor |-> actor,
                 user |-> NoUser, late |-> accounts[actor].status = "disabled"]
<1>2. x \in Transaction
  BY DEF Transaction, Step
<1>3. tx' = [tx EXCEPT ![r] = x]
  BY DEF Arrive
<1>4. tx' \in [Actor -> Transaction] /\ tx'[r] = x /\ \A o \in Actor \ {r} : tx'[o] = tx[o]
  BY <1>1, <1>2, <1>3 DEF TypeOK
<1>5. RequestOK(r)' /\ FlushOK(r)' /\ ~HoldsRole(r)' /\ ~Flushed(r)'
  BY <1>1, <1>4 DEF Arrive, RequestOK, FlushOK, HoldsRole, Flushed, Exists
<1>6. tx'[r].user = NoUser
  BY <1>4
<1>7. QED
  BY <1>1, <1>4, <1>5, <1>6, OwnStep DEF TypeOK

\* A transaction flushes its account row only when no other row, committed
\* or not, has its login.
LEMMA FlushAccountIInv ==
  ASSUME IInv, NEW t \in Actor, FlushAccount(t)
  PROVE  IInv'
<1>1. /\ TypeOK /\ tx[t] \in Transaction /\ tx[t].pc = "creating"
      /\ UNCHANGED <<accounts, crashes>>
      /\ t \in Server => StartOK(t) /\ HoldsRole(t)
      /\ t \in Request => RequestOK(t)
  BY DEF IInv, TypeOK, FlushAccount, HoldsRole
<1>2. CASE tx' = [tx EXCEPT ![t] = RolledBack(tx[t])]
  <2>1. tx'[t] = RolledBack(tx[t]) /\ \A o \in Actor \ {t} : tx'[o] = tx[o]
    BY <1>1, <1>2 DEF TypeOK
  <2>2. /\ tx' \in [Actor -> Transaction]
        /\ tx'[t].pc = "failed" /\ tx'[t].user = NoUser /\ tx'[t].actor = tx[t].actor
        /\ tx'[t].role = tx[t].role /\ tx'[t].late = tx[t].late
    BY <1>1, <1>2, <2>1, RollbackEffect DEF TypeOK
  <2>3. /\ FlushOK(t)' /\ ~HoldsRole(t)' /\ ~Flushed(t)'
        /\ t \in Server => StartOK(t)'
        /\ t \in Request => RequestOK(t)'
    BY <1>1, <2>2 DEF StartOK, RequestOK, FlushOK, HoldsRole, Flushed, Exists
  <2>4. QED
    BY <1>1, <2>1, <2>2, <2>3, OwnStep DEF TypeOK
<1>3. ASSUME NEW u \in User, FreshUser(u), ~LoginTaken(t),
             tx' = [tx EXCEPT ![t].pc = "account", ![t].user = u]
      PROVE  IInv'
  <2> DEFINE x == [tx[t] EXCEPT !.pc = "account", !.user = u]
  <2>1. /\ x \in Transaction /\ x.pc = "account" /\ x.user = u /\ x.name = tx[t].name
        /\ x.role = tx[t].role /\ x.actor = tx[t].actor /\ x.late = tx[t].late
    BY <1>1 DEF Transaction, Step
  <2>2. tx' = [tx EXCEPT ![t] = x]
    BY <1>1, <1>3 DEF TypeOK, Transaction
  <2> HIDE DEF x
  <2>3. tx' \in [Actor -> Transaction] /\ tx'[t] = x /\ \A o \in Actor \ {t} : tx'[o] = tx[o]
    BY <1>1, <2>1, <2>2 DEF TypeOK
  <2>4. Flushed(t)' /\ tx'[t].user # NoUser
    BY <2>1, <2>3, NameAssumption DEF Flushed
  <2>5. ~LoginPending(t)
    BY DEF FlushAccount
  <2>6. FlushOK(t)'
    BY <1>1, <1>3, <2>1, <2>3, <2>5
    DEF FlushOK, Flushed, LoginPending, LoginTaken, FreshUser, Exists, Actor
  <2>7. t \in Server => StartOK(t)'
    BY <1>1, <2>1, <2>3 DEF StartOK, Flushed, Managers
  <2>8. t \in Request => RequestOK(t)'
    BY <1>1, <2>1, <2>3 DEF RequestOK, Exists
  <2>9. HoldsRole(t)' => HoldsRole(t)
    BY <1>1 DEF HoldsRole
  <2>10. QED
    BY <1>1, <2>3, <2>4, <2>6, <2>7, <2>8, <2>9, OwnStep DEF TypeOK
<1>4. QED
  BY <1>2, <1>3 DEF FlushAccount

\* The rows of the membership and of the role belong to the same transaction.
LEMMA FlushRestIInv ==
  ASSUME IInv, NEW t \in Actor, FlushMembership(t) \/ FlushRole(t)
  PROVE  IInv'
<1>1. /\ TypeOK /\ FlushOK(t) /\ UNCHANGED <<accounts, crashes>>
      /\ t \in Server => StartOK(t)
      /\ t \in Request => RequestOK(t)
  BY DEF IInv, FlushMembership, FlushRole
<1>2. PICK next \in {"membership", "granted"} : Goto(t, next)
  BY DEF FlushMembership, FlushRole
<1>3. Flushed(t) /\ tx[t].pc # "idle" /\ next \in Step /\ tx[t].user # NoUser
  BY <1>1 DEF FlushMembership, FlushRole, Flushed, Step, TypeOK
<1>4. /\ tx' \in [Actor -> Transaction]
      /\ \A o \in Actor \ {t} : tx'[o] = tx[o]
      /\ tx'[t].pc = next /\ tx'[t].name = tx[t].name /\ tx'[t].role = tx[t].role
      /\ tx'[t].actor = tx[t].actor /\ tx'[t].user = tx[t].user /\ tx'[t].late = tx[t].late
  BY <1>1, <1>2, <1>3, GotoEffect
<1>5. Flushed(t)'
  BY <1>4 DEF Flushed
<1>6. FlushOK(t)'
  BY <1>1, <1>3, <1>4 DEF FlushOK, Flushed, LoginTaken, Exists
<1>7. (t \in Server => StartOK(t)') /\ (t \in Request => RequestOK(t)')
  BY <1>1, <1>3, <1>4 DEF StartOK, RequestOK, Managers, Exists, Flushed, FlushMembership, FlushRole
<1>8. HoldsRole(t)' => HoldsRole(t)
  BY <1>3 DEF HoldsRole
<1>9. QED
  BY <1>1, <1>3, <1>4, <1>5, <1>6, <1>7, <1>8, OwnStep DEF TypeOK

\* A commit adds one row, with a login and an id nobody has.  A start commits
\* the first account there is; a request commits when there is a manager, so
\* no start is creating one.
LEMMA CommitIInv ==
  ASSUME IInv, NEW t \in Actor, Commit(t)
  PROVE  IInv'
<1> DEFINE u == tx[t].user
           new == [login |-> StoredLogin(tx[t].name), role |-> tx[t].role,
                   by |-> tx[t].actor, status |-> "active", membership |-> "active"]
           x == [tx[t] EXCEPT !.pc = "committed", !.user = NoUser]
<1>1. /\ TypeOK /\ AccountsOK /\ RoleRowExclusive /\ FlushOK(t) /\ tx[t] \in Transaction
      /\ tx[t].pc = "granted" /\ Flushed(t) /\ crashes' = crashes
      /\ t \in Server => StartOK(t) /\ HoldsRole(t)
      /\ t \in Request => RequestOK(t)
  BY DEF IInv, TypeOK, Commit, Flushed, HoldsRole
<1>2. u \in User /\ ~Exists(u) /\ ~LoginTaken(t)
  BY <1>1 DEF FlushOK, TypeOK, Flushed, Transaction
<1>3. new \in Account /\ new # NoRow /\ Normal[new.login] = new.login
  BY <1>1, NameAssumption, NoRowAssumption DEF Account, Transaction, StoredLogin, Status
<1>4. /\ x \in Transaction /\ x.pc = "committed" /\ x.user = NoUser
      /\ x.role = tx[t].role /\ x.actor = tx[t].actor /\ x.late = tx[t].late
  BY <1>1 DEF Transaction, Step
<1>5. tx' = [tx EXCEPT ![t] = x]
  BY <1>1 DEF Commit, TypeOK, Transaction
<1>6. accounts' = [accounts EXCEPT ![u] = new]
  BY DEF Commit
<1>7. new.login = StoredLogin(tx[t].name) /\ new.role = tx[t].role /\ new.by = tx[t].actor
  OBVIOUS
<1> HIDE DEF u, new, x
<1>8. /\ tx' \in [Actor -> Transaction] /\ tx'[t] = x
      /\ \A o \in Actor \ {t} : tx'[o] = tx[o]
  BY <1>1, <1>4, <1>5 DEF TypeOK
<1>9. /\ accounts' \in [User -> Account \cup {NoRow}] /\ accounts'[u] = new
      /\ \A v \in User \ {u} : accounts'[v] = accounts[v]
  BY <1>1, <1>2, <1>3, <1>6 DEF TypeOK
<1>10. Managers \subseteq Managers' /\ (new.role = "manager" => u \in Managers')
  BY <1>2, <1>3, <1>9 DEF Managers, Exists
<1>11. /\ t \in Server => new.role = "manager" /\ Managers = {} /\ \A v \in User : ~Exists(v)
       /\ t \in Request => new.by \in User /\ Managers # {}
  BY <1>1, <1>7 DEF StartOK, RequestOK, AccountsOK
<1>12. Managers' # {}
  BY <1>10, <1>11 DEF Actor
<1>13. \A s \in Server \ {t} : tx[s].pc # "creating" /\ ~Flushed(s)
  <2>1. SUFFICES ASSUME NEW s \in Server \ {t}, tx[s].pc = "creating" \/ Flushed(s) PROVE FALSE
    OBVIOUS
  <2>2. HoldsRole(s) /\ Managers = {}
    BY <2>1 DEF HoldsRole, IInv, StartOK
  <2>3. QED
    BY <1>1, <1>11, <2>1, <2>2 DEF RoleRowExclusive, Actor
<1>14. TypeOK'
  <2>1. \A o \in Actor : tx'[o].pc \in {"account", "membership", "granted"} <=> tx'[o].user # NoUser
    BY <1>1, <1>4, <1>8 DEF TypeOK
  <2>2. QED
    BY <1>1, <1>8, <1>9, <2>1 DEF TypeOK
<1>15. OneInitialManager'
  BY <1>1, <1>7, <1>9, <1>11, NameAssumption DEF AccountsOK, OneInitialManager, Exists, Actor
<1>16. \A v \in User \ {u} : accounts[v] # NoRow =>
         Normal[accounts[v].login] = accounts[v].login /\ accounts[v].login # new.login
  BY <1>1, <1>2, <1>7 DEF AccountsOK, LoginTaken, Exists
<1>17. LoginsUnique'
  BY <1>1, <1>3, <1>9, <1>16 DEF AccountsOK, LoginsUnique
<1>18. AccountsOK'
  BY <1>3, <1>9, <1>12, <1>15, <1>16, <1>17 DEF AccountsOK, Exists
<1>19. RoleRowExclusive'
  BY <1>1, <1>4, <1>8 DEF RoleRowExclusive, HoldsRole, Flushed, Actor
<1>20. ASSUME NEW s \in Server PROVE StartOK(s)'
  <2>1. StartOK(s) /\ s \in Actor
    BY DEF IInv, Actor
  <2>2. CASE s = t
    BY <1>4, <1>8, <1>12, <2>1, <2>2 DEF StartOK, Flushed
  <2>3. CASE s # t
    BY <1>8, <1>12, <1>13, <2>1, <2>3 DEF StartOK, Flushed
  <2>4. QED
    BY <2>2, <2>3
<1>21. ASSUME NEW r \in Request PROVE RequestOK(r)'
  <2>1. RequestOK(r) /\ r \in Actor
    BY DEF IInv, Actor
  <2>2. tx'[r].actor = tx[r].actor /\ tx'[r].late = tx[r].late /\ (tx'[r].pc # "idle" <=> tx[r].pc # "idle")
    BY <1>1, <1>4, <1>8, <2>1
  <2>3. tx[r].pc # "idle" => accounts'[tx[r].actor] = accounts[tx[r].actor]
    BY <1>2, <1>9, <2>1 DEF RequestOK
  <2>4. tx[r].late => tx'[r].pc = tx[r].pc
    BY <1>1, <1>8, <2>1 DEF RequestOK
  <2>5. QED
    BY <2>1, <2>2, <2>3, <2>4 DEF RequestOK, Exists
<1>22. ASSUME NEW o \in Actor PROVE FlushOK(o)'
  <2>1. CASE o = t
    BY <1>4, <1>8, <2>1 DEF FlushOK, Flushed
  <2>2. CASE o # t
    <3>1. SUFFICES ASSUME Flushed(o) PROVE FlushOK(o)'
      BY <1>8, <2>2 DEF FlushOK, Flushed
    <3>2. /\ ~LoginTaken(o) /\ ~Exists(tx[o].user)
          /\ \A p \in Actor \ {o} : Flushed(p) =>
                StoredLogin(tx[p].name) # StoredLogin(tx[o].name) /\ tx[p].user # tx[o].user
      BY <3>1 DEF IInv, FlushOK
    <3>3. new.login # StoredLogin(tx[o].name) /\ u # tx[o].user
      BY <1>1, <1>7, <2>2, <3>2 DEF u
    <3>4. tx[o].user \in User /\ tx'[o] = tx[o]
      BY <1>1, <1>8, <2>2, <3>1 DEF TypeOK, Flushed, Transaction
    <3>5. ~LoginTaken(o)' /\ ~Exists(tx[o].user)'
      BY <1>9, <3>2, <3>3, <3>4 DEF LoginTaken, Exists, StoredLogin
    <3>6. \A p \in Actor \ {o} : Flushed(p)' => Flushed(p) /\ tx'[p] = tx[p]
      BY <1>4, <1>8 DEF Flushed
    <3>7. QED
      BY <3>2, <3>4, <3>5, <3>6 DEF FlushOK, StoredLogin, Exists
  <2>3. QED
    BY <2>1, <2>2
<1>23. QED
  BY <1>14, <1>18, <1>19, <1>20, <1>21, <1>22 DEF IInv

\* A crash takes locks and flushed rows away and leaves what is committed.
LEMMA CrashIInv ==
  ASSUME IInv, NEW s \in Server, Crash(s)
  PROVE  IInv'
<1> DEFINE Dies(t) == t \in Request /\ tx[t].on = s /\ tx[t].pc \notin {"idle", "committed"}
<1>1. TypeOK /\ AccountsOK /\ accounts' = accounts /\ crashes' \in 0 .. MaxCrashes
  BY NameAssumption DEF IInv, Crash, TypeOK
<1>2. /\ Idle(s, InitialName[s]) \in Transaction
      /\ Idle(s, InitialName[s]).pc = "idle" /\ Idle(s, InitialName[s]).user = NoUser
      /\ Idle(s, InitialName[s]).actor = NoUser /\ Idle(s, InitialName[s]).role = "manager"
  BY NameAssumption DEF Idle, Transaction, Step, Role
<1>3. \A t \in Actor : tx[t] \in Transaction
  BY <1>1 DEF TypeOK
<1>4. tx' = [t \in Actor |-> IF t = s THEN Idle(s, InitialName[s])
                             ELSE IF Dies(t) THEN RolledBack(tx[t]) ELSE tx[t]]
  BY DEF Crash
<1>5. \A t \in Actor :
        \/ t = s /\ tx'[t] = Idle(s, InitialName[s])
        \/ t # s /\ Dies(t) /\ tx'[t] = RolledBack(tx[t])
        \/ t # s /\ tx'[t] = tx[t]
  BY <1>4
<1>6. \A t \in Actor : tx'[t] \in Transaction
  BY <1>2, <1>3, <1>5, RollbackEffect
<1>7. tx' \in [Actor -> Transaction]
  BY <1>4, <1>6
<1>8. \A t \in Actor : Flushed(t)' => Flushed(t) /\ tx'[t] = tx[t] /\ t # s
  BY <1>2, <1>3, <1>5, RollbackEffect DEF Flushed
<1>9. \A t \in Actor : tx'[t].pc \in {"account", "membership", "granted"} <=> tx'[t].user # NoUser
  BY <1>1, <1>2, <1>3, <1>5, RollbackEffect DEF TypeOK
<1>10. TypeOK'
  BY <1>1, <1>7, <1>9 DEF TypeOK
<1>11. AccountsOK' /\ Managers' = Managers
  BY <1>1 DEF AccountsOK, OneInitialManager, LoginsUnique, Managers, Exists
<1>12. \A o \in Server : o \in Actor /\ o \notin Request
  BY NameAssumption DEF Actor
<1>13. \A o \in Server \ {s} : tx'[o] = tx[o]
  BY <1>5, <1>12
<1>14. RoleRowExclusive'
  BY <1>2, <1>5, <1>8, <1>12, <1>13 DEF IInv, RoleRowExclusive, HoldsRole
<1>15. ASSUME NEW o \in Server PROVE StartOK(o)'
  <2>1. CASE o = s
    BY <1>2, <1>5, <1>12, <2>1 DEF StartOK, Flushed
  <2>2. CASE o # s
    BY <1>11, <1>13, <2>2 DEF IInv, StartOK, Flushed
  <2>3. QED
    BY <2>1, <2>2
<1>16. ASSUME NEW r \in Request PROVE RequestOK(r)'
  <2>1. RequestOK(r) /\ r \in Actor /\ r # s /\ tx[r] \in Transaction
    BY <1>3, NameAssumption DEF IInv, Actor
  <2>2. \/ tx'[r] = tx[r]
        \/ /\ tx'[r].pc = "failed" /\ tx'[r].actor = tx[r].actor /\ tx'[r].late = tx[r].late
           /\ tx[r].pc # "idle"
    BY <1>5, <2>1, RollbackEffect
  <2>3. QED
    BY <1>1, <2>1, <2>2 DEF RequestOK, Exists
<1>17. ASSUME NEW t \in Actor PROVE FlushOK(t)'
  <2>1. FlushOK(t)
    BY DEF IInv
  <2>2. QED
    BY <1>1, <1>8, <2>1 DEF FlushOK, LoginTaken, Exists, StoredLogin
<1>18. QED
  BY <1>10, <1>11, <1>14, <1>15, <1>16, <1>17 DEF IInv

\* Disabling an account or a membership leaves who it is alone.
LEMMA DisableIInv ==
  ASSUME IInv, NEW u \in User, Disable(u)
  PROVE  IInv'
<1>1. TypeOK /\ AccountsOK /\ tx' = tx /\ crashes' = crashes /\ accounts[u] \in Account
  BY DEF IInv, TypeOK, Disable
<1>2. PICK new \in Account :
        /\ accounts' = [accounts EXCEPT ![u] = new]
        /\ new.login = accounts[u].login /\ new.role = accounts[u].role
        /\ new.by = accounts[u].by
        /\ new.status \in {accounts[u].status, "disabled"}
  <2>1. "disabled" \in Status
    BY DEF Status
  <2>2. [accounts[u] EXCEPT !.status = "disabled"] \in Account
        /\ [accounts[u] EXCEPT !.membership = "disabled"] \in Account
    BY <1>1, <2>1 DEF Account
  <2>3. CASE accounts' = [accounts EXCEPT ![u].status = "disabled"]
    <3>1. PICK new \in Account : new = [accounts[u] EXCEPT !.status = "disabled"]
      BY <2>2
    <3>2. accounts' = [accounts EXCEPT ![u] = new]
      BY <2>3, <3>1
    <3>3. /\ new.login = accounts[u].login /\ new.role = accounts[u].role
          /\ new.by = accounts[u].by
          /\ new.status \in {accounts[u].status, "disabled"}
      BY <1>1, <3>1 DEF Account
    <3>4. QED
      BY <3>2, <3>3
  <2>4. CASE accounts' = [accounts EXCEPT ![u].membership = "disabled"]
    <3>1. PICK new \in Account : new = [accounts[u] EXCEPT !.membership = "disabled"]
      BY <2>2
    <3>2. accounts' = [accounts EXCEPT ![u] = new]
      BY <2>4, <3>1
    <3>3. /\ new.login = accounts[u].login /\ new.role = accounts[u].role
          /\ new.by = accounts[u].by
          /\ new.status \in {accounts[u].status, "disabled"}
      BY <1>1, <3>1 DEF Account
    <3>4. QED
      BY <3>2, <3>3
  <2>5. QED
    BY <2>3, <2>4 DEF Disable
<1>3. /\ accounts' \in [User -> Account \cup {NoRow}] /\ accounts'[u] = new /\ new # NoRow
      /\ \A v \in User \ {u} : accounts'[v] = accounts[v]
  BY <1>1, <1>2, NoRowAssumption DEF TypeOK
<1>4. \A v \in User :
        /\ accounts'[v] # NoRow <=> accounts[v] # NoRow
        /\ accounts[v] # NoRow =>
             /\ accounts'[v].login = accounts[v].login /\ accounts'[v].role = accounts[v].role
             /\ accounts'[v].by = accounts[v].by
             /\ accounts[v].status = "disabled" => accounts'[v].status = "disabled"
  BY <1>2, <1>3 DEF Disable
<1>5. TypeOK'
  BY <1>1, <1>3 DEF TypeOK
<1>6. Managers' = Managers
  BY <1>4 DEF Managers
<1>7. AccountsOK'
  BY <1>1, <1>4, <1>6 DEF AccountsOK, OneInitialManager, LoginsUnique, Exists
<1>8. RoleRowExclusive' /\ \A s \in Server : StartOK(s)'
  BY <1>1, <1>6 DEF IInv, RoleRowExclusive, HoldsRole, Flushed, StartOK
<1>9. ASSUME NEW r \in Request PROVE RequestOK(r)'
  BY <1>1, <1>4 DEF IInv, RequestOK, Exists
<1>10. ASSUME NEW t \in Actor PROVE FlushOK(t)'
  <2>1. FlushOK(t) /\ (Flushed(t) => tx[t].user \in User)
    BY <1>1 DEF IInv, TypeOK, Flushed, Transaction
  <2>2. QED
    BY <1>1, <1>4, <2>1 DEF FlushOK, Flushed, LoginTaken, Exists, StoredLogin
<1>11. QED
  BY <1>5, <1>7, <1>8, <1>9, <1>10 DEF IInv

LEMMA NextIInv == IInv /\ [Next]_vars => IInv'
<1>1. SUFFICES ASSUME IInv, [Next]_vars PROVE IInv'
  OBVIOUS
<1>2. ASSUME NEW t \in Actor, Progress(t) PROVE IInv'
  BY <1>1, <1>2, FlushAccountIInv, FlushRestIInv, CommitIInv, StartIInv, LockRoleIInv,
     CheckManagerIInv, AuthorizeIInv
  DEF Progress
<1>3. ASSUME NEW s \in Server, Crash(s) PROVE IInv'
  BY <1>1, <1>3, CrashIInv
<1>4. ASSUME NEW r \in Request, NEW s \in Server, NEW actor \in User, NEW name \in Spelling,
             NEW role \in Role, Arrive(r, s, actor, name, role)
      PROVE  IInv'
  BY <1>1, <1>4, ArriveIInv
<1>5. ASSUME NEW u \in User, Disable(u) PROVE IInv'
  BY <1>1, <1>5, DisableIInv
<1>6. CASE UNCHANGED vars
  BY <1>1, <1>6
  DEF vars, IInv, TypeOK, AccountsOK, OneInitialManager, LoginsUnique, RoleRowExclusive,
      StartOK, RequestOK, FlushOK, HoldsRole, Flushed, LoginTaken, Exists, Managers
<1>7. QED
  BY <1>1, <1>2, <1>3, <1>4, <1>5, <1>6 DEF Next

-----------------------------------------------------------------------------
(* The theorems *)

\* The inductive invariant holds in every state: of whatever starts,
\* registrations, crashes and disabled accounts a state is the result.
THEOREM Invariance == Spec => []IInv
<1>1. QED
  BY InitIInv, NextIInv, PTL DEF Spec

\* Every variable keeps its type, and rows that are flushed belong to a
\* transaction that is open.
THEOREM TypeCorrectness == Spec => []TypeOK
<1>1. IInv => TypeOK
  BY DEF IInv
<1>2. QED
  BY <1>1, Invariance, PTL

\* However many processes start and crash and whatever is registered
\* meanwhile: one initial manager, found by every process that serves,
\* created without waiting and without a conflict, and one account a login.
THEOREM OneManagerIsProvisioned == Spec => []ProvisioningAgrees
<1>1. IInv => ProvisioningAgrees
  <2>1. SUFFICES ASSUME IInv PROVE ProvisioningAgrees
    OBVIOUS
  <2>2. OneInitialManager /\ LoginsUnique
    BY <2>1 DEF IInv, AccountsOK
  <2>3. ServingHasManager
    BY <2>1 DEF IInv, StartOK, ServingHasManager
  <2>4. ASSUME NEW s \in Server, tx[s].pc = "creating"
        PROVE  ~LoginPending(s) /\ ~LoginTaken(s)
    <3>1. HoldsRole(s) /\ \A u \in User : ~Exists(u)
      BY <2>1, <2>4 DEF IInv, AccountsOK, StartOK, HoldsRole
    <3>2. \A o \in Server \ {s} : ~Flushed(o)
      BY <2>1, <3>1 DEF IInv, RoleRowExclusive, HoldsRole
    <3>3. \A r \in Request : ~Flushed(r)
      BY <2>1, <3>1 DEF IInv, RequestOK, Flushed
    <3>4. QED
      BY <3>1, <3>2, <3>3 DEF LoginPending, LoginTaken, Exists, Actor
  <2>5. QED
    BY <2>2, <2>3, <2>4 DEF ProvisioningAgrees, BootstrapNeverConflicts
<1>2. QED
  BY <1>1, Invariance, PTL

\* A request that arrives after its actor was disabled creates nothing: the
\* check of the principal reads a status that never becomes active again.
THEOREM DisabledActorsAreRefused == Spec => []DisabledManagersCreateNothing
<1>1. IInv => DisabledManagersCreateNothing
  BY DEF IInv, RequestOK, DisabledManagersCreateNothing
<1>2. QED
  BY <1>1, Invariance, PTL

-----------------------------------------------------------------------------
(* PasswordRehash *)

\* A hash has its first work factors and version, or was written once: every
\* login that rehashes has read the first one, and all write the same.
RehashedOnce(read) == \/ read.work = "old" /\ read.version = 1
                      \/ read.work = "new" /\ read.version = 2

\* The account and what every login has read are the first hash or the one
\* that replaced it; a login that has updated the row holds the new one.
RehashIInv ==
    /\ Rehash!TypeOK
    /\ RehashedOnce(row)
    /\ \A r \in LoginRequest : /\ RehashedOnce(login[r].read)
                               /\ login[r].pc = "written" => login[r].read.work = "new"

\* The values that a row of identity_account takes.
LEMMA RowFacts ==
  /\ Rehash!Factors \subseteq {"old", "new"} /\ "old" \in Rehash!Factors
  /\ \A p \in Process : "new" \in Rehash!Factors
  /\ MaxVersion \in Nat /\ 1 \in 1 .. MaxVersion + 1 /\ 2 \in 1 .. MaxVersion + 1
BY RehashAssumption DEF Rehash!WorkAssumption, Rehash!Factors

\* At first nobody has logged in.
LEMMA InitRehashIInv == Rehash!Init => RehashIInv
<1> SUFFICES ASSUME Rehash!Init PROVE RehashIInv
  OBVIOUS
<1>1. row = [work |-> "old", version |-> 1, active |-> TRUE] /\ row \in Rehash!Row /\ RehashedOnce(row)
  BY RowFacts DEF Rehash!Init, Rehash!Row, RehashedOnce
<1>2. PICK p \in Process : login = [r \in LoginRequest |-> [pc |-> "idle", on |-> p, read |-> row]]
  BY DEF Rehash!Init
<1>3. QED
  BY <1>1, <1>2 DEF RehashIInv, Rehash!TypeOK, Rehash!Step

\* What replace_password makes of a first hash.
LEMMA ReplacedFacts ==
  ASSUME NEW read \in Rehash!Row, read.version = 1, NEW p \in Process
  PROVE  /\ Rehash!Replaced(read, "new") \in Rehash!Row
         /\ Rehash!Replaced(read, "new").work = "new" /\ Rehash!Replaced(read, "new").version = 2
<1>1. /\ "new" \in Rehash!Factors /\ 2 \in 1 .. MaxVersion + 1
      /\ read \in [work : Rehash!Factors, version : 1 .. MaxVersion + 1, active : BOOLEAN]
  BY RowFacts DEF Rehash!Row
<1>2. Rehash!Replaced(read, "new") = [read EXCEPT !.work = "new", !.version = 2]
  BY <1>1 DEF Rehash!Replaced
<1>3. QED
  BY <1>1, <1>2 DEF Rehash!Row

\* A login moves, and leaves the others.
LEMMA LoginMoves ==
  ASSUME RehashIInv, row' \in Rehash!Row, RehashedOnce(row'), NEW r \in LoginRequest,
         NEW new \in [pc : Rehash!Step, on : Process, read : Rehash!Row], login' = [login EXCEPT ![r] = new],
         RehashedOnce(new.read), new.pc = "written" => new.read.work = "new"
  PROVE  RehashIInv'
<1>1. login' \in [LoginRequest -> [pc : Rehash!Step, on : Process, read : Rehash!Row]]
  BY DEF RehashIInv, Rehash!TypeOK
<1>2. \A q \in LoginRequest : login'[q] = IF q = r THEN new ELSE login[q]
  BY DEF RehashIInv, Rehash!TypeOK
<1>3. QED
  BY <1>1, <1>2 DEF RehashIInv, Rehash!TypeOK

\* One case per action of a login, and the operator; only Commit and Disable
\* write the row.
LEMMA NextRehashIInv ==
  ASSUME RehashIInv, [Rehash!Next]_(Rehash!vars)
  PROVE  /\ RehashIInv'
         /\ \/ UNCHANGED row
            \/ /\ ~row.active => ~row'.active
               /\ row'.version >= row.version
               /\ row'.work # row.work => row'.version = row.version + 1
<1>0. /\ row \in Rehash!Row /\ RehashedOnce(row)
      /\ \A r \in LoginRequest : /\ login[r] \in [pc : Rehash!Step, on : Process, read : Rehash!Row]
                                 /\ RehashedOnce(login[r].read)
                                 /\ login[r].pc = "written" => login[r].read.work = "new"
  BY DEF RehashIInv, Rehash!TypeOK
<1>1. ASSUME NEW r \in LoginRequest, NEW p \in Process, Rehash!Arrive(r, p) PROVE RehashIInv' /\ UNCHANGED row
  <2> DEFINE new == [login[r] EXCEPT !.pc = "arrived", !.on = p]
  <2>1. /\ new \in [pc : Rehash!Step, on : Process, read : Rehash!Row]
        /\ new.read = login[r].read /\ new.pc = "arrived"
    BY <1>0 DEF Rehash!Step
  <2>2. login' = [login EXCEPT ![r] = new] /\ UNCHANGED row
    BY <1>1 DEF Rehash!Arrive
  <2> HIDE DEF new
  <2>3. QED
    BY <1>0, <2>1, <2>2, LoginMoves
<1>2. ASSUME NEW r \in LoginRequest, Rehash!Verify(r) PROVE RehashIInv' /\ UNCHANGED row
  <2>1. PICK v \in {"verified", "refused"} : login' = [login EXCEPT ![r].pc = v, ![r].read = row] /\ UNCHANGED row
    BY <1>2 DEF Rehash!Verify
  <2> DEFINE new == [login[r] EXCEPT !.pc = v, !.read = row]
  <2>2. new \in [pc : Rehash!Step, on : Process, read : Rehash!Row] /\ new.read = row /\ new.pc = v
    BY <1>0 DEF Rehash!Step
  <2>3. login' = [login EXCEPT ![r] = new]
    BY <2>1
  <2> HIDE DEF new
  <2>4. QED
    BY <1>0, <2>1, <2>2, <2>3, LoginMoves
<1>3. ASSUME NEW r \in LoginRequest, Rehash!UpdateHash(r) PROVE RehashIInv' /\ UNCHANGED row
  <2> DEFINE work == [p \in Process |-> "new"][login[r].on]
             read == Rehash!Replaced(login[r].read, work)
             new == [login[r] EXCEPT !.pc = "written", !.read = read]
  <2>1. work = "new"
    BY <1>0
  <2>2. login[r].read.work # work /\ UNCHANGED row
    BY <1>3 DEF Rehash!UpdateHash, Rehash!NeedsRehash
  <2>3. login' = [login EXCEPT ![r] = new]
    <3>1. login' = [login EXCEPT ![r].pc = "written", ![r].read = Rehash!Replaced(@, work)]
      BY <1>3 DEF Rehash!UpdateHash
    <3>2. /\ login \in [LoginRequest -> [pc : Rehash!Step, on : Process, read : Rehash!Row]]
          /\ login[r] \in [pc : Rehash!Step, on : Process, read : Rehash!Row]
      BY DEF RehashIInv, Rehash!TypeOK
    <3> HIDE DEF work
    <3>3. QED
      BY <3>1, <3>2 DEF Rehash!Replaced
  <2> HIDE DEF work
  <2>4. login[r].read.version = 1 /\ login[r].read \in Rehash!Row /\ login[r].on \in Process
    BY <1>0, <2>1, <2>2 DEF RehashedOnce
  <2>5. read \in Rehash!Row /\ read.work = "new" /\ read.version = 2
    BY <2>1, <2>4, ReplacedFacts
  <2> HIDE DEF read
  <2>6. new \in [pc : Rehash!Step, on : Process, read : Rehash!Row] /\ new.read = read /\ new.pc = "written"
    BY <1>0, <2>5 DEF Rehash!Step
  <2> HIDE DEF new
  <2>7. RehashedOnce(new.read)
    BY <2>5, <2>6 DEF RehashedOnce
  <2>8. QED
    BY <1>0, <2>2, <2>3, <2>5, <2>6, <2>7, LoginMoves
<1>4. ASSUME NEW r \in LoginRequest, Rehash!Commit(r)
      PROVE  /\ RehashIInv'
             /\ \/ UNCHANGED row
                \/ /\ ~row.active => ~row'.active
                   /\ row'.version >= row.version
                   /\ row'.work # row.work => row'.version = row.version + 1
  <2> DEFINE new == [login[r] EXCEPT !.pc = "done"]
  <2>1. new \in [pc : Rehash!Step, on : Process, read : Rehash!Row] /\ new.read = login[r].read /\ new.pc = "done"
    BY <1>0 DEF Rehash!Step
  <2>2. login' = [login EXCEPT ![r] = new]
    BY <1>4 DEF Rehash!Commit
  <2> HIDE DEF new
  <2>3. CASE UNCHANGED row
    BY <1>0, <2>1, <2>2, <2>3, LoginMoves
  <2>4. CASE login[r].pc = "written" /\ row' = Rehash!Merged(login[r].read)
    <3>1. login[r].read.work = "new" /\ login[r].read.version = 2 /\ login[r].read \in Rehash!Row
      BY <1>0, <2>4 DEF RehashedOnce
    <3>2. row' \in Rehash!Row /\ row'.work = "new" /\ row'.version = 2 /\ row'.active = row.active
      BY <1>0, <2>4, <3>1 DEF Rehash!Merged, Rehash!Row
    <3>3. RehashedOnce(row')
      BY <3>2 DEF RehashedOnce
    <3>4. RehashIInv'
      BY <1>0, <2>1, <2>2, <3>2, <3>3, LoginMoves
    <3>5. row'.version >= row.version /\ (row'.work # row.work => row'.version = row.version + 1)
      BY <1>0, <3>2 DEF RehashedOnce
    <3>6. QED
      BY <3>2, <3>4, <3>5
  <2>5. QED
    BY <1>4, <2>3, <2>4 DEF Rehash!Commit
<1>5. ASSUME NEW r \in LoginRequest, Rehash!Rollback(r) PROVE RehashIInv' /\ UNCHANGED row
  <2> DEFINE new == [login[r] EXCEPT !.pc = "refused"]
  <2>1. new \in [pc : Rehash!Step, on : Process, read : Rehash!Row] /\ new.read = login[r].read /\ new.pc = "refused"
    BY <1>0 DEF Rehash!Step
  <2>2. login' = [login EXCEPT ![r] = new] /\ UNCHANGED row
    BY <1>5 DEF Rehash!Rollback
  <2> HIDE DEF new
  <2>3. QED
    BY <1>0, <2>1, <2>2, LoginMoves
<1>6. ASSUME Rehash!Disable
      PROVE  /\ RehashIInv' /\ row'.version = row.version /\ row'.work = row.work /\ ~row'.active
  <2>1. row' \in Rehash!Row /\ row'.version = row.version /\ row'.work = row.work /\ ~row'.active /\ UNCHANGED login
    BY <1>0, <1>6 DEF Rehash!Disable, Rehash!Row
  <2>2. QED
    BY <1>0, <2>1 DEF RehashIInv, Rehash!TypeOK, RehashedOnce
<1>7. CASE UNCHANGED Rehash!vars
  BY <1>7 DEF RehashIInv, Rehash!TypeOK, RehashedOnce, Rehash!vars
<1>8. row.version \in Nat
  BY <1>0, RowFacts DEF Rehash!Row
<1>9. CASE Rehash!Disable
  BY <1>6, <1>8, <1>9
<1>10. QED
  BY <1>1, <1>2, <1>3, <1>4, <1>5, <1>7, <1>9 DEF Rehash!Next

\* The invariant of concurrent logins on one account.
THEOREM RehashInvariance == Rehash!Spec => []RehashIInv
<1>1. RehashIInv /\ [Rehash!Next]_(Rehash!vars) => RehashIInv'
  BY NextRehashIInv
<1>2. QED
  BY <1>1, InitRehashIInv, PTL DEF Rehash!Spec

\* However many logins verify and rehash one password at once
\* (update_password_hash) while an operator disables the account: it stays
\* disabled, password_version never goes back, and counts the new hash once.
THEOREM RehashesKeepUpdates == Rehash!Spec => RehashKeepsUpdates
<1>1. RehashIInv /\ [Rehash!Next]_(Rehash!vars) =>
        [/\ ~row.active => ~row'.active
         /\ row'.version >= row.version
         /\ row'.work # row.work => row'.version = row.version + 1]_row
  BY NextRehashIInv
<1>2. QED
  BY <1>1, RehashInvariance, PTL DEF Rehash!Spec, RehashKeepsUpdates, Rehash!RehashKeepsUpdates

-----------------------------------------------------------------------------
(* The composition *)

\* A behaviour of MCAccounts is one of each of its parts.
THEOREM AccountsCompose == MCSpec => Spec /\ Rehash!Spec
<1>1. MCInit => Init /\ Rehash!Init
  BY DEF MCInit
<1>2. [MCNext]_<<part, vars, row, login>> => [Next]_vars /\ [Rehash!Next]_(Rehash!vars)
  BY DEF MCNext, Rehash!vars
<1>3. QED
  BY <1>1, <1>2, PTL DEF MCSpec, Spec, Rehash!Spec

\* Accounts, transactions, the row of a login and its reads keep their types.
THEOREM AccountsTypeCorrectness == MCSpec => []WellTyped
<1>1. TypeOK /\ RehashIInv => WellTyped
  BY DEF WellTyped, RehashIInv
<1>2. QED
  BY <1>1, AccountsCompose, TypeCorrectness, RehashInvariance, PTL
=============================================================================

----------------------------- MODULE MCAccounts -----------------------------
(***************************************************************************)
(* The two ways in which code writes accounts: IdentityProvisioning creates*)
(* them, PasswordRehash updates their password hash.  Neither reads what   *)
(* the other writes, so one of the two moves in each behaviour and their   *)
(* state spaces add up instead of multiplying.                             *)
(***************************************************************************)
EXTENDS IdentityProvisioning, TLC

CONSTANTS s1, s2, LoginRequest, Process, MaxVersion

VARIABLES part, row, login

\* Two of the three spellings are the same name.
Names == {"boss", "ana", "Ana"}
MCNormal == [n \in Names |-> IF n = "Ana" THEN "ana" ELSE n]

\* Two processes are deployed with different names of the initial manager.
MCInitialName == [s \in Server |-> IF s = s1 THEN "boss" ELSE "ana"]

\* All processes are deployed with the same work factors.
Rehash == INSTANCE PasswordRehash WITH Work <- [p \in Process |-> "new"], OldWork <- "old"

ASSUME RehashAssumption == Rehash!WorkAssumption

MCInit ==
    /\ part \in {"provisioning", "rehash"}
    /\ Init
    /\ Rehash!Init
    /\ part = "rehash" => \A r \in Request : tx[r].on = s1
    /\ part = "provisioning" => login = [r \in LoginRequest |->
          [pc |-> "idle", on |-> CHOOSE p \in Process : TRUE, read |-> row]]

MCNext ==
    \/ part = "provisioning" /\ Next /\ UNCHANGED <<part, row, login>>
    \/ part = "rehash" /\ Rehash!Next /\ UNCHANGED <<part, vars>>

MCSpec == MCInit /\ [][MCNext]_<<part, vars, row, login>>

\* Requests, user ids and logins are interchangeable.
Symmetry ==
    UNION {Permutations(S) : S \in {Request, User, LoginRequest}}

\* The state of both parts.
WellTyped == TypeOK /\ Rehash!TypeOK

\* Logins that rehash one password at a time undo no other update of the
\* account (update_password_hash).
RehashKeepsUpdates == Rehash!RehashKeepsUpdates
=============================================================================

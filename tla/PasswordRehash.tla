--------------------------- MODULE PasswordRehash ---------------------------
(***************************************************************************)
(* A login reads the account, verifies the password, and writes the hash   *)
(* again when its work factors are not those of the process.  The account  *)
(* is read without a lock and written by an UPDATE of two columns, in one  *)
(* READ COMMITTED transaction; other logins and an operator who disables   *)
(* the account run in between.                                             *)
(***************************************************************************)
EXTENDS Naturals

CONSTANTS
    LoginRequest,   \* login requests
    Process,        \* API processes
    Work,           \* the Argon2 work factors of every process
    OldWork,        \* the work factors of the stored hash at first
    MaxVersion      \* bound on password_version

\* What is assumed of the constants.
WorkAssumption == DOMAIN Work = Process /\ MaxVersion \in Nat \ {0}

Factors == {Work[p] : p \in Process} \cup {OldWork}

\* A row of identity_account: the work factors in password_hash,
\* password_version, and whether the status is active.
Row == [work : Factors, version : 1 .. MaxVersion + 1, active : BOOLEAN]

VARIABLES
    row,       \* the committed row of the account
    login      \* what every login is doing, and what it has read

vars == <<row, login>>

Step == {"idle", "arrived", "verified", "written", "done", "refused"}

TypeOK ==
    /\ row \in Row
    /\ login \in [LoginRequest -> [pc : Step, on : Process, read : Row]]

Init ==
    /\ row = [work |-> OldWork, version |-> 1, active |-> TRUE]
    /\ \E p \in Process :
          login = [r \in LoginRequest |-> [pc |-> "idle", on |-> p, read |-> row]]

Arrive(r, p) ==
    /\ login[r].pc = "idle"
    /\ login' = [login EXCEPT ![r].pc = "arrived", ![r].on = p]
    /\ UNCHANGED row

\* get_account_by_login, verify and the membership: the login goes on with
\* the row it has read, or is refused for any of the reasons it does not tell.
Verify(r) ==
    /\ login[r].pc = "arrived"
    /\ \/ /\ row.active
          /\ login' = [login EXCEPT ![r].pc = "verified", ![r].read = row]
       \/ login' = [login EXCEPT ![r].pc = "refused", ![r].read = row]
    /\ UNCHANGED row

\* verify_and_update: the hash has other work factors than this process.
NeedsRehash(r) == login[r].read.work # Work[login[r].on]

\* LocalAccount.replace_password
Replaced(read, work) == [read EXCEPT !.work = work, !.version = @ + 1]

\* The UPDATE waits for the transaction that has updated the row.
UpdateHash(r) ==
    /\ login[r].pc = "verified" /\ NeedsRehash(r)
    /\ \A o \in LoginRequest : login[o].pc # "written"
    /\ login[r].read.version <= MaxVersion
    /\ login' = [login EXCEPT ![r].pc = "written",
                              ![r].read = Replaced(@, Work[login[r].on])]
    /\ UNCHANGED row

\* Variant: the whole row is written back.
MergedWhole(new) == new

\* password_hash and password_version are the columns of the UPDATE.
Merged(new) == [row EXCEPT !.work = new.work, !.version = new.version]

Commit(r) ==
    /\ \/ login[r].pc = "verified" /\ ~NeedsRehash(r) /\ UNCHANGED row
       \/ login[r].pc = "written" /\ row' = Merged(login[r].read)
    /\ login' = [login EXCEPT ![r].pc = "done"]

\* The transaction is rolled back: the process dies, or the request fails later.
Rollback(r) ==
    /\ login[r].pc \in {"verified", "written"}
    /\ login' = [login EXCEPT ![r].pc = "refused"]
    /\ UNCHANGED row

\* An operator sets the status column; the update waits for the row.
Disable ==
    /\ row.active
    /\ \A r \in LoginRequest : login[r].pc # "written"
    /\ row' = [row EXCEPT !.active = FALSE]
    /\ UNCHANGED login

Next ==
    \/ \E r \in LoginRequest :
          \/ \E p \in Process : Arrive(r, p)
          \/ Verify(r) \/ UpdateHash(r) \/ Commit(r) \/ Rollback(r)
    \/ Disable

Spec == Init /\ [][Next]_vars

-----------------------------------------------------------------------------
(* Properties *)

\* Concurrent logins that write what they computed from an old read undo
\* nothing, while all processes use the same work factors: a disabled account stays disabled (update_password_hash sets two
\* columns only), password_version counts the hashes and never goes back.
RehashKeepsUpdates ==
    [][/\ ~row.active => ~row'.active
       /\ row'.version >= row.version
       /\ row'.work # row.work => row'.version = row.version + 1]_row
=============================================================================

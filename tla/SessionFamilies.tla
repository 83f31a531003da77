--------------------------- MODULE SessionFamilies ---------------------------
(***************************************************************************)
(* What refresh-session families promise, with every transaction atomic:   *)
(* a family has one current credential, a rotation replaces it by a fresh  *)
(* one, and a revoked credential is never rotated again.  It is the        *)
(* abstract specification that RefreshSessions implements.                 *)
(***************************************************************************)
CONSTANTS
    Session,    \* refresh credentials: a session id and the digest of its token
    Family,     \* rotation families, one per login
    NoSession   \* "no credential"

VARIABLES
    current,    \* the unconsumed credential of each family
    used,       \* every credential ever issued
    barred      \* the credentials that were revoked

vars == <<current, used, barred>>

TypeOK ==
    /\ current \in [Family -> Session \cup {NoSession}]
    /\ used \in SUBSET Session
    /\ barred \in SUBSET Session

Init ==
    /\ current = [f \in Family |-> NoSession]
    /\ used = {}
    /\ barred = {}

\* A login opens a family with its first credential.
Open(f, s) ==
    /\ current[f] = NoSession
    /\ s \notin used
    /\ current' = [current EXCEPT ![f] = s]
    /\ used' = used \cup {s}
    /\ UNCHANGED barred

\* A refresh replaces the current credential, unless it was revoked.
Rotate(f, t) ==
    /\ current[f] # NoSession
    /\ current[f] \notin barred
    /\ t \notin used
    /\ current' = [current EXCEPT ![f] = t]
    /\ used' = used \cup {t}
    /\ UNCHANGED barred

\* A logout or a replay revokes credentials.
Bar(S) ==
    /\ S \subseteq used
    /\ barred' = barred \cup S
    /\ UNCHANGED <<current, used>>

Next ==
    \/ \E f \in Family, s \in Session : Open(f, s) \/ Rotate(f, s)
    \/ \E S \in SUBSET Session : Bar(S)

Spec == Init /\ [][Next]_vars
=============================================================================

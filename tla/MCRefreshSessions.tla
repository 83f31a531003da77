-------------------------- MODULE MCRefreshSessions --------------------------
(* RefreshSessions for TLC, with a note of whether requests ever overlapped. *)
EXTENDS RefreshSessions, FiniteSets, TLC

VARIABLE overlapped    \* two requests have been in progress at once

Overlap == Cardinality({r \in Request : pc[r] # "idle"}) > 1

MCInit == Init /\ overlapped = FALSE
MCNext == Next /\ overlapped' = (overlapped \/ Overlap')
MCSpec == MCInit /\ [][MCNext]_<<vars, overlapped>>

\* Requests and credentials are interchangeable.
Symmetry == Permutations(Request) \cup Permutations(Session) \cup Permutations(Family)

\* As long as requests do not overlap, no credential of a family is active
\* after its logout or after a credential was presented for the second time
\* (revoke_refresh_family_by_digest, rotate_refresh_session).
RevocationEndsFamily == ~overlapped => LoggedOutFamilyIsDead /\ ReplayedFamilyIsDead
=============================================================================

----------------------------- MODULE Principals -----------------------------
(***************************************************************************)
(* Access tokens and the principals that requests resolve them to.  Login  *)
(* and refresh issue one token per session; a request verifies its token   *)
(* against the clock, then reads the account, the membership and the       *)
(* session one after the other, and acts later on the principal it got.    *)
(* Times are in ticks, Second of which the integer claims of a token tell  *)
(* apart.  One account is modelled; RefreshSessions has the sessions whole.*)
(***************************************************************************)
EXTENDS Naturals, Sequences, FiniteSets

CONSTANTS
    Request,
    Second,                          \* ticks in a second
    TokenTtl, IdleTtl, AbsoluteTtl,  \* in seconds
    MaxSessions, Horizon             \* bounds

\* What is assumed of the constants (SecuritySettings).
TtlAssumption ==
    /\ {Second, TokenTtl, IdleTtl, AbsoluteTtl} \subseteq Nat \ {0}
    /\ IdleTtl <= AbsoluteTtl /\ {MaxSessions, Horizon} \subseteq Nat

VARIABLES
    now,
    account, membership,    \* "active" or "disabled"
    session,                \* the sessions in the order of issue
    req,                    \* per request: where it is, its token, when it began
    valid                   \* history: requests that saw an instant at which all was active

vars == <<now, account, membership, session, req, valid>>

Sessions == DOMAIN session
Floor(t) == t \div Second

\* RefreshSession.is_active
IsActive(s, t) ==
    session[s].state = "active" /\ t < session[s].idle /\ t < session[s].absolute

\* AccessTokenIssuer.issue: iat, nbf and exp of the token of session s.
Iat(s) == Floor(session[s].issued)

Exp(s) == Floor(session[s].issued + TokenTtl * Second)

\* _validated_claims; signature, key, issuer and audience are right.
Verifies(s, t) == Iat(s) <= Floor(t) /\ Exp(s) > Floor(t)

TypeOK ==
    /\ now \in 0 .. Horizon
    /\ {account, membership} \subseteq {"active", "disabled"}
    /\ \A s \in Sessions :
         /\ session[s].family \in 1 .. s
         /\ session[s].state \in {"active", "consumed", "revoked"}
         /\ session[s].issued <= now
         /\ session[s].idle <= session[s].absolute
    /\ req \in [Request -> [pc : {"idle", "account", "membership", "session", "resolved", "acted", "refused"},
                            token : 0 .. MaxSessions, at : 0 .. Horizon]]
    /\ valid \subseteq Request

Init ==
    /\ now = 0
    /\ account = "active" /\ membership = "active"
    /\ session = <<>>
    /\ req = [r \in Request |-> [pc |-> "idle", token |-> 0, at |-> 0]]
    /\ valid = {}

-----------------------------------------------------------------------------
\* A state in which request r, with the token of session s, may be resolved.
AllActive(s) == account = "active" /\ membership = "active" /\ IsActive(s, now)

\* Requests note that state whenever it holds between their begin and now.
Observe == valid' = valid \cup {r \in Request : req[r].pc' \in {"account", "membership", "session", "resolved"}
                                                  /\ AllActive(req[r].token)'}

Min2(a, b) == IF a <= b THEN a ELSE b

\* RefreshSession.issue, or the replacement of rotate.
Issued(family, absolute) ==
    [family |-> family, state |-> "active", issued |-> now,
     idle |-> Min2(now + IdleTtl * Second, absolute), absolute |-> absolute]

\* login
Login ==
    /\ Len(session) < MaxSessions /\ account = "active" /\ membership = "active"
    /\ session' = Append(session, Issued(Len(session) + 1, now + AbsoluteTtl * Second))
    /\ UNCHANGED <<now, account, membership, req>>

\* refresh: the session is consumed, its replacement gets a token of its own.
Refresh(s) ==
    /\ Len(session) < MaxSessions /\ AllActive(s)
    /\ session' = Append([session EXCEPT ![s].state = "consumed"],
                         Issued(session[s].family, session[s].absolute))
    /\ UNCHANGED <<now, account, membership, req>>

\* logout, or a replay that was noticed: the family is revoked.
RevokeFamily(f) ==
    /\ \E s \in Sessions : session[s].family = f /\ session[s].state # "revoked"
    /\ session' = [s \in Sessions |-> IF session[s].family = f
                                       THEN [session[s] EXCEPT !.state = "revoked"] ELSE session[s]]
    /\ UNCHANGED <<now, account, membership, req>>

\* LocalAccount.disable and TenantMembership.disable
Disable ==
    /\ \/ account = "active" /\ account' = "disabled" /\ UNCHANGED membership
       \/ membership = "active" /\ membership' = "disabled" /\ UNCHANGED account
    /\ UNCHANGED <<now, session, req>>

Tick == now < Horizon /\ now' = now + 1 /\ UNCHANGED <<account, membership, session, req>>

-----------------------------------------------------------------------------
Goes(r, pc) == req' = [req EXCEPT ![r].pc = pc]
IfElse(r, test, pc) == Goes(r, IF test THEN pc ELSE "refused") /\ UNCHANGED <<now, account, membership, session>>

\* get_current_principal: the time is taken and the token verified.
Begin(r, s) ==
    /\ req[r].pc = "idle"
    /\ req' = [req EXCEPT ![r] = [pc |-> IF Verifies(s, now) THEN "account" ELSE "refused",
                                  token |-> s, at |-> now]]
    /\ UNCHANGED <<now, account, membership, session>>

\* No credentials, or none that BearerTokenParser and jwt accept.
BeginWithout(r) == req[r].pc = "idle" /\ IfElse(r, FALSE, "refused")

\* ResolveIdentityHandler.handle, read by read; READ COMMITTED.
ReadAccount(r) == req[r].pc = "account" /\ IfElse(r, account = "active", "membership")

ReadMembership(r) == req[r].pc = "membership" /\ IfElse(r, membership = "active", "session")

\* Variant: the session that replaced the token's is good enough.
SessionAnswersFamily(r) ==
    \E s \in Sessions : session[s].family = session[req[r].token].family /\ IsActive(s, req[r].at)

\* The session is the token's own, and active when the request began.
SessionAnswers(r) == IsActive(req[r].token, req[r].at)

ReadSession(r) == req[r].pc = "session" /\ IfElse(r, SessionAnswers(r), "resolved")

\* PermissionEvaluator, then the use case.
Act(r, permitted) == req[r].pc = "resolved" /\ IfElse(r, permitted, "acted")

Step ==
    \/ Login \/ Disable \/ Tick
    \/ \E s \in Sessions : Refresh(s)
    \/ \E f \in 1 .. Len(session) : RevokeFamily(f)
    \/ \E r \in Request :
         \/ \E s \in Sessions : Begin(r, s)
         \/ BeginWithout(r) \/ ReadAccount(r) \/ ReadMembership(r) \/ ReadSession(r)
         \/ \E permitted \in BOOLEAN : Act(r, permitted)

Next == Step /\ Observe

Spec == Init /\ [][Next]_vars

-----------------------------------------------------------------------------
(* Properties *)

\* The three reads make one answer: for every principal there was an instant,
\* after its request began, at which account, membership and session were
\* all active; so nothing acts whose request began after a revocation
\* (ResolveIdentityHandler).
PrincipalWasValidAtOnce ==
    \A r \in Request : req[r].pc \in {"resolved", "acted"} => r \in valid

\* A token is accepted from its issue for at least TokenTtl less one second,
\* and never after TokenTtl, whatever fractions of seconds are cut off
\* (AccessTokenIssuer.issue, _validated_claims).
TokenLifetime ==
    \A s \in Sessions :
        LET age == now - session[s].issued
        IN  /\ age + Second <= TokenTtl * Second => Verifies(s, now)
            /\ Verifies(s, now) => age < TokenTtl * Second

\* One family has at most one session whose token a request could resolve:
\* a refresh retires the tokens issued before it.
OneUsableToken ==
    \A s, t \in Sessions :
        session[s].family = session[t].family /\ AllActive(s) /\ AllActive(t) => s = t

\* A principal stands for rights that were all there at one instant, by a
\* token within its lifetime, of which a family has one at a time.
PrincipalsSound == PrincipalWasValidAtOnce /\ TokenLifetime /\ OneUsableToken
=============================================================================

----------------------------- MODULE MCHttpEdge -----------------------------
(***************************************************************************)
(* What stands between a client and a use case: the middlewares and error  *)
(* handlers (RequestPipeline), the limit on logins (RateLimiter) and the   *)
(* resolution of access tokens (Principals).  They share no state; one of  *)
(* them moves in each behaviour, so that their state spaces add up.        *)
(***************************************************************************)
EXTENDS RequestPipeline, TLC

CONSTANTS
    LoginAccount, LoginRequest, Capacity, Window, LimiterHorizon,
    TokenRequest, Second, TokenTtl, IdleTtl, AbsoluteTtl, MaxSessions, TokenHorizon

VARIABLES
    part,
    now, counter, login,                                    \* RateLimiter
    clock, account, membership, session, bearer, valid      \* Principals

limiter == <<now, counter, login>>
principals == <<clock, account, membership, session, bearer, valid>>

\* LOGIN_RATE_POLICY denies in an outage.
Limiter == INSTANCE RateLimiter WITH
    Account <- LoginAccount, Request <- LoginRequest, OutageMode <- "deny",
    Horizon <- LimiterHorizon, req <- login

Tokens == INSTANCE Principals WITH
    Request <- TokenRequest, Horizon <- TokenHorizon, now <- clock, req <- bearer

ASSUME EdgeAssumption == Limiter!LoginAssumption /\ Tokens!TtlAssumption

\* The status of a business error is the one of its nearest listed base
\* ("concrete categories must match before their base classes").
ASSUME NearestBaseAnswers ==
    \A c \in ErrorClass : IsA(c, "BidSystemError") => NearestBaseStatus(c) = {BusinessStatus(c)}

MCInit ==
    /\ part \in {"pipeline", "limiter", "principals"}
    /\ Init /\ Limiter!Init /\ Tokens!Init
    /\ part # "pipeline" =>
         ~lateExit /\ request = [gate |-> "ok", declared |-> "none", size |-> 0, upload |-> FALSE,
                                 reader |-> "framework", transactional |-> FALSE]

MCNext ==
    \/ part = "pipeline" /\ Next /\ UNCHANGED <<part, limiter, principals>>
    \/ part = "limiter" /\ Limiter!Next /\ UNCHANGED <<part, vars, principals>>
    \/ part = "principals" /\ Tokens!Next /\ UNCHANGED <<part, vars, limiter>>

MCSpec == MCInit /\ [][MCNext]_<<part, vars, limiter, principals>>

Symmetry == Permutations(LoginRequest) \cup Permutations(TokenRequest)

-----------------------------------------------------------------------------
\* The state of the three parts.
WellTyped == TypeOK /\ Limiter!TypeOK /\ Tokens!TypeOK

\* At most Capacity logins for an account pass in one window of Redis, however
\* the name is spelt, and a denial ends with its window (RedisRateLimiter).
LimitHolds == Limiter!LimitHolds

\* A principal had all its rights at one instant, by a token within its
\* lifetime, of which a family has one (ResolveIdentityHandler).
PrincipalsSound == Tokens!PrincipalsSound
=============================================================================

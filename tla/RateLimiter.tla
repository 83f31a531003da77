---------------------------- MODULE RateLimiter ----------------------------
(***************************************************************************)
(* The fixed-window limit in front of the login route.  Requests of every  *)
(* API process count on one Redis key per client address and account; the  *)
(* script that counts is atomic, its answer may be late or lost, and it    *)
(* may run after the request gave up on it.  One client address is         *)
(* modelled; register and refresh count on keys of the same kind.          *)
(***************************************************************************)
EXTENDS Naturals, FiniteSets

CONSTANTS
    Account,          \* the names as they are stored
    Request,          \* login requests of all processes
    Capacity, Window, \* of the policy
    OutageMode,       \* of the policy: "deny" or "allow"
    Horizon           \* bound on the clock

\* RateLimitPolicy.__post_init__
PolicyAssumption ==
    /\ Capacity \in Nat \ {0} /\ Window \in Nat \ {0}
    /\ OutageMode \in {"deny", "allow"} /\ Horizon \in Nat

\* LOGIN_RATE_POLICY lets nobody through in an outage.
LoginAssumption ==
    PolicyAssumption /\ OutageMode = "deny" /\ IsFiniteSet(Request) /\ Account # {}

VARIABLES
    now,       \* the clock of Redis
    counter,   \* per key: count, expiry, and the ordinal of its window
    req        \* per request: state, name, and where and when it was counted

vars == <<now, counter, req>>

\* A name as a client types it; "blank" has nothing but white space.
Typed == [account : Account, spelling : {"stored", "other", "blank"}]

Ordinal == 0 .. Cardinality(Request)

Decided == {"admitted", "denied", "degraded", "rejected"}

\* Variant: the name is counted as it was typed.
KeyAsTyped(name) == name

\* RateLimitKey.login strips and casefolds, as Account does when it is stored.
Key(name) == [name EXCEPT !.spelling = "stored"]

TypeOK ==
    /\ now \in 0 .. Horizon
    /\ counter \in [Typed -> [count : Ordinal, expires : 0 .. Horizon + Window, window : Ordinal]]
    /\ req \in [Request -> [state : {"idle", "sent", "counted"} \cup Decided, name : Typed,
                            count : Ordinal, window : Ordinal, at : 0 .. Horizon]]

Init ==
    /\ now = 0
    /\ counter = [k \in Typed |-> [count |-> 0, expires |-> 0, window |-> 0]]
    /\ req = [r \in Request |->         \* the name is set by Ask
                [state |-> "idle", name |-> CHOOSE name \in Typed : TRUE,
                 count |-> 0, window |-> 0, at |-> 0]]

-----------------------------------------------------------------------------
\* login: the limit is the first thing the route looks at; a blank name
\* raises before anything is counted.
Ask(r, name) ==
    /\ req[r].state = "idle"
    /\ req' = [req EXCEPT ![r].name = name,
                          ![r].state = IF name.spelling = "blank" THEN "rejected" ELSE "sent"]
    /\ UNCHANGED <<now, counter>>

\* FIXED_WINDOW_SCRIPT: EXPIRE only when the key is new.
Expiry(old, count) == IF count = 1 THEN now + Window ELSE old

\* FIXED_WINDOW_SCRIPT: INCR, of 0 when the key is absent or has expired.
Count(r) ==
    LET k == Key(req[r].name)
        c == counter[k]
        live == c.count > 0 /\ now < c.expires
        count == IF live THEN c.count + 1 ELSE 1
        window == IF live THEN c.window ELSE c.window + 1
    IN  /\ req[r].state \in {"sent", "degraded"} /\ req[r].count = 0
        /\ counter' = [counter EXCEPT ![k] = [count |-> count, expires |-> Expiry(c.expires, count),
                                              window |-> window]]
        /\ req' = [req EXCEPT ![r].count = count, ![r].window = window, ![r].at = now,
                              ![r].state = IF @ = "sent" THEN "counted" ELSE @]
        /\ UNCHANGED now

\* RedisRateLimiter.check
Allowed(count) == count <= Capacity

\* check returns and _enforce_limit lets the request pass, or answers 429.
Answer(r) ==
    /\ req[r].state = "counted"
    /\ req' = [req EXCEPT ![r].state = IF Allowed(req[r].count) THEN "admitted" ELSE "denied"]
    /\ UNCHANGED <<now, counter>>

\* RedisError or TimeoutError: the script may have run, or may still run.
Outage(r) ==
    /\ req[r].state \in {"sent", "counted"}
    /\ req' = [req EXCEPT ![r].state = IF OutageMode = "allow" THEN "admitted" ELSE "degraded"]
    /\ UNCHANGED <<now, counter>>

Tick == now < Horizon /\ now' = now + 1 /\ UNCHANGED <<counter, req>>

Next ==
    \/ Tick
    \/ \E r \in Request, name \in Typed : Ask(r, name)
    \/ \E r \in Request : Count(r) \/ Answer(r) \/ Outage(r)

Spec == Init /\ [][Next]_vars

-----------------------------------------------------------------------------
(* Properties *)

\* Requests for account a that were let through.
Admitted(a) == {r \in Request : req[r].state = "admitted" /\ req[r].name.account = a}

\* However a name is spelt and whichever process asks, at most Capacity
\* requests for an account pass in one window of Redis, each of them counted:
\* an outage lets nobody through (RedisRateLimiter.check, LOGIN_RATE_POLICY).
WindowAdmits ==
    \A a \in Account : \A w \in Ordinal :
        /\ Cardinality({r \in Admitted(a) : req[r].window = w}) <= Capacity
        /\ w = 0 => {r \in Admitted(a) : req[r].window = w} = {}

\* Who was denied and waits for Retry-After, the whole window, finds the
\* window over in which it was denied: denied requests do not prolong it.
RetryAfterSuffices ==
    \A r \in Request :
        LET c == counter[Key(req[r].name)]
        IN  req[r].state = "denied" /\ now >= req[r].at + Window =>
              c.window > req[r].window \/ c.expires <= now

\* The limit holds for each account, and ends with its window.
LimitHolds == WindowAdmits /\ RetryAfterSuffices
=============================================================================

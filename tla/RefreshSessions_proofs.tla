----------------------- MODULE RefreshSessions_proofs -----------------------
(***************************************************************************)
(* Proofs about RefreshSessions, for every number of requests, sessions,   *)
(* families and accounts: type correctness, OneCurrentCredential and       *)
(* FamilyLifetime, from one inductive invariant, and the refinement of     *)
(* SessionFamilies.  For requests that do not overlap: a revocation ends   *)
(* the family, which MCRefreshSessions states with a history variable.     *)
(***************************************************************************)
EXTENDS MCRefreshSessions, FiniteSetTheorems, TLAPS

-----------------------------------------------------------------------------
(* The inductive invariant *)

\* What the statement a request executes next says of its token and outcome.
PhaseOK(r) ==
    /\ pc[r] = "idle" => minted[r] = NoSession
    /\ pc[r] \in {"idle", "select", "find"} => result[r] = "none"
    /\ pc[r] \in {"select", "find"} => token[r] \in Session
    /\ pc[r] = "select" => minted[r] \in Session
    /\ pc[r] = "resolve" => result[r] = "ROTATED"
    /\ pc[r] \in {"update", "updating"} => result[r] \in {"logout", "REPLAY_REVOKED"}
    /\ \A s \in snap[r] : Issued(s)

\* Ids are generated once, and none is in the table before its commit.
MintedOK ==
    /\ \A r \in Request, s \in Session : minted[r] = s => ~Issued(s)
    /\ \A r, q \in Request : minted[r] = minted[q] /\ minted[r] # NoSession => r = q

\* A transaction has written nothing.
Clean(r) == \A s \in Session : draft[r][s] = NoRow

\* A login has added the first row of a family that exists nowhere else.
LoggingIn(r) ==
    /\ minted[r] \in Session
    /\ \A s \in Session : draft[r][s] # NoRow <=> s = minted[r]
    /\ ~draft[r][minted[r]].consumed
    /\ ~draft[r][minted[r]].revoked
    /\ \A s \in Session : ~InFamily(s, draft[r][minted[r]].family)
    /\ \A q \in Request : result[q] = "login" /\ q # r =>
          draft[q][minted[q]].family # draft[r][minted[r]].family

\* A refresh holds the row it consumes, and has added its replacement.
Rotating(r) ==
    /\ minted[r] \in Session
    /\ token[r] \in Session
    /\ token[r] # minted[r]
    /\ Issued(token[r])
    /\ lock[token[r]] = r
    /\ ~rows[token[r]].consumed
    /\ ~rows[token[r]].revoked
    /\ \A s \in Session : draft[r][s] # NoRow <=> s \in {token[r], minted[r]}
    /\ draft[r][token[r]] = [rows[token[r]] EXCEPT !.consumed = TRUE]
    /\ draft[r][minted[r]].family = rows[token[r]].family
    /\ draft[r][minted[r]].user = rows[token[r]].user
    /\ draft[r][minted[r]].absolute = rows[token[r]].absolute
    /\ ~draft[r][minted[r]].consumed
    /\ ~draft[r][minted[r]].revoked

\* A family UPDATE holds every row it has revoked so far.
Revoking(r) ==
    /\ token[r] \in Session
    /\ Issued(token[r])
    /\ \A s \in Session : draft[r][s] # NoRow =>
          /\ Issued(s)
          /\ lock[s] = r
          /\ draft[r][s] = [rows[s] EXCEPT !.revoked = TRUE]

DraftOK(r) ==
    /\ result[r] \in {"none", "INVALID"} => Clean(r)
    /\ result[r] = "login" => LoggingIn(r)
    /\ result[r] = "ROTATED" => Rotating(r)
    /\ result[r] \in {"logout", "REPLAY_REVOKED"} => Revoking(r)

IInv ==
    /\ TypeOK
    /\ MintedOK
    /\ \A r \in Request : PhaseOK(r) /\ DraftOK(r)
    /\ OneCurrentCredential
    /\ FamilyLifetime

-----------------------------------------------------------------------------
(* Facts about the states of the invariant *)

\* A committed row is a row, and a draft is a row or nothing.
LEMMA RowTypes ==
  ASSUME TypeOK, NEW s \in Session
  PROVE  /\ Issued(s) => rows[s] \in Row
         /\ \A r \in Request : draft[r][s] # NoRow => draft[r][s] \in Row
BY DEF TypeOK, Issued

\* A transaction that has written a version of a committed row holds its
\* lock, and the only row it inserts is the one it generated.
LEMMA DraftOwned ==
  ASSUME IInv, NEW r \in Request, NEW s \in Session, draft[r][s] # NoRow
  PROVE  /\ Issued(s) => lock[s] = r
         /\ ~Issued(s) => s = minted[r]
<1>1. DraftOK(r) /\ MintedOK /\ result[r] \in Result
  BY DEF IInv, TypeOK
<1>2. CASE result[r] \in {"none", "INVALID"}
  BY <1>1, <1>2 DEF DraftOK, Clean
<1>3. CASE result[r] = "login"
  BY <1>1, <1>3 DEF DraftOK, LoggingIn, MintedOK
<1>4. CASE result[r] = "ROTATED"
  BY <1>1, <1>4 DEF DraftOK, Rotating, MintedOK
<1>5. CASE result[r] \in {"logout", "REPLAY_REVOKED"}
  BY <1>1, <1>5 DEF DraftOK, Revoking
<1>6. QED
  BY <1>1, <1>2, <1>3, <1>4, <1>5 DEF Result

\* The two rows that issue and rotate build are rows of the table.
LEMMA IssueType ==
  ASSUME NEW f \in Family, NEW u \in User, NEW now \in Nat
  PROVE  Issue(f, u, now) \in Row
BY TTLAssumption DEF Issue, Row, Min

LEMMA ReplacementType ==
  ASSUME NEW row \in Row, NEW now \in Nat
  PROVE  Replacement(row, now) \in Row
BY TTLAssumption DEF Replacement, Row, Min

\* Marking a row consumed or revoked changes nothing else.
LEMMA MarkType ==
  ASSUME NEW row \in Row
  PROVE  /\ [row EXCEPT !.consumed = TRUE] \in Row
         /\ [row EXCEPT !.revoked = TRUE] \in Row
BY DEF Row

LEMMA MarkFields ==
  ASSUME NEW row \in Row
  PROVE  /\ \A marked : marked = [row EXCEPT !.consumed = TRUE] =>
              /\ marked.family = row.family /\ marked.user = row.user
              /\ marked.absolute = row.absolute /\ marked.consumed
         /\ \A marked : marked = [row EXCEPT !.revoked = TRUE] =>
              /\ marked.family = row.family /\ marked.user = row.user
              /\ marked.absolute = row.absolute /\ marked.consumed = row.consumed
BY DEF Row

\* A step of another request that leaves the table and the locks of q alone,
\* and starts no login, leaves what the invariant says of q.
LEMMA OtherRequest ==
  ASSUME IInv, NEW q \in Request, UNCHANGED rows,
         pc'[q] = pc[q], token'[q] = token[q], minted'[q] = minted[q],
         snap'[q] = snap[q], draft'[q] = draft[q], result'[q] = result[q],
         \A s \in Session : lock[s] = q => lock'[s] = q,
         \A p \in Request : result'[p] = "login" =>
            /\ result[p] = "login"
            /\ draft'[p] = draft[p] /\ minted'[p] = minted[p]
  PROVE  PhaseOK(q)' /\ DraftOK(q)'
<1>1. PhaseOK(q) /\ DraftOK(q)
  BY DEF IInv
<1>2. PhaseOK(q)'
  BY <1>1 DEF PhaseOK, Issued
<1>3. Clean(q) => Clean(q)'
  BY DEF Clean
<1>4. LoggingIn(q) => LoggingIn(q)'
  BY DEF LoggingIn, InFamily, Issued
<1>5. Rotating(q) => Rotating(q)'
  BY DEF Rotating, Issued
<1>6. Revoking(q) => Revoking(q)'
  BY DEF Revoking, Issued
<1>7. QED
  BY <1>1, <1>2, <1>3, <1>4, <1>5, <1>6 DEF DraftOK

\* Steps that leave the table alone keep the two properties of the table.
LEMMA SameRows ==
  ASSUME IInv, UNCHANGED rows
  PROVE  OneCurrentCredential' /\ FamilyLifetime'
BY DEF IInv, OneCurrentCredential, FamilyLifetime, Issued, InFamily

-----------------------------------------------------------------------------
(* The actions, one lemma each *)

LEMMA InitIInv == Init => IInv
<1>1. SUFFICES ASSUME Init PROVE IInv
  OBVIOUS
<1>2. TypeOK
  BY <1>1 DEF Init, TypeOK, NoDraft, Pc, Result
<1>3. MintedOK
  BY <1>1, NoValueAssumption DEF Init, MintedOK
<1>4. \A r \in Request : PhaseOK(r) /\ DraftOK(r)
  BY <1>1 DEF Init, PhaseOK, DraftOK, Clean, NoDraft
<1>5. OneCurrentCredential /\ FamilyLifetime
  BY <1>1 DEF Init, OneCurrentCredential, FamilyLifetime, Issued
<1>6. QED
  BY <1>2, <1>3, <1>4, <1>5 DEF IInv

LEMMA LoginIInv ==
  ASSUME IInv, NEW r \in Request, NEW u \in User, NEW s \in Session,
         NEW f \in Family, Login(r, u, s, f)
  PROVE  IInv'
<1>1. /\ TypeOK /\ MintedOK /\ PhaseOK(r) /\ DraftOK(r)
      /\ \A q \in Request : PhaseOK(q) /\ DraftOK(q)
  BY DEF IInv
<1>2. Clean(r) /\ result[r] = "none"
  BY <1>1 DEF Login, PhaseOK, DraftOK
<1>3. Issue(f, u, clock) \in Row /\ Issue(f, u, clock) # NoRow
  BY <1>1, IssueType, NoValueAssumption DEF TypeOK
<1>4. TypeOK'
  BY <1>1, <1>3 DEF Login, TypeOK, db, history, Pc, Result
<1>5. MintedOK'
  BY <1>1, NoValueAssumption DEF Login, MintedOK, Fresh, Issued, TypeOK, db
<1>6. /\ UNCHANGED <<rows, lock, token, snap>>
      /\ \A q \in Request : q # r =>
            /\ pc'[q] = pc[q] /\ minted'[q] = minted[q]
            /\ draft'[q] = draft[q] /\ result'[q] = result[q]
      /\ pc'[r] = "commit" /\ minted'[r] = s /\ result'[r] = "login"
      /\ draft'[r][s] = Issue(f, u, clock)
      /\ \A v \in Session : v # s => draft'[r][v] = NoRow
  BY <1>1, <1>2 DEF Login, TypeOK, Clean, db
<1>7. ASSUME NEW q \in Request, q # r, result[q] = "login"
      PROVE  minted[q] \in Session /\ draft[q][minted[q]].family # f
  BY <1>1, <1>7 DEF DraftOK, LoggingIn, Login, FreshFamily
<1>8. ASSUME NEW q \in Request PROVE PhaseOK(q)' /\ DraftOK(q)'
  <2>1. CASE q = r
    <3>1. LoggingIn(r)'
      BY <1>3, <1>6, <1>7 DEF LoggingIn, Login, FreshFamily, InFamily, Issued, Issue
    <3>2. QED
      BY <1>1, <1>6, <2>1, <3>1 DEF PhaseOK, DraftOK, Issued
  <2>2. CASE q # r
    <3>1. PhaseOK(q)'
      BY <1>1, <1>6, <2>2 DEF PhaseOK, Issued
    <3>2. LoggingIn(q) /\ result[q] = "login" => LoggingIn(q)'
      BY <1>6, <1>7, <2>2 DEF LoggingIn, InFamily, Issued, Issue
    <3>3. /\ Clean(q) => Clean(q)'
          /\ Rotating(q) => Rotating(q)'
          /\ Revoking(q) => Revoking(q)'
      BY <1>6, <2>2 DEF Clean, Rotating, Revoking, Issued
    <3>4. QED
      BY <1>1, <1>6, <2>2, <3>1, <3>2, <3>3 DEF DraftOK
  <2>3. QED
    BY <2>1, <2>2
<1>9. QED
  BY <1>4, <1>5, <1>6, <1>8, SameRows DEF IInv

LEMMA RefreshBeginIInv ==
  ASSUME IInv, NEW r \in Request, NEW s \in Session, NEW t \in Session,
         RefreshBegin(r, s, t)
  PROVE  IInv'
<1>1. /\ TypeOK /\ MintedOK /\ PhaseOK(r) /\ DraftOK(r)
  BY DEF IInv
<1>2. TypeOK'
  BY <1>1 DEF RefreshBegin, TypeOK, db, history, Pc
<1>3. MintedOK'
  BY <1>1, NoValueAssumption DEF RefreshBegin, MintedOK, Fresh, Issued, TypeOK, db
<1>4. UNCHANGED <<rows, lock, snap, draft, result>> /\ result[r] = "none" /\ Clean(r)
  BY <1>1 DEF RefreshBegin, db, PhaseOK, DraftOK
<1>5. ASSUME NEW q \in Request PROVE PhaseOK(q)' /\ DraftOK(q)'
  <2>1. CASE q = r
    BY <1>1, <1>4, <2>1 DEF RefreshBegin, PhaseOK, DraftOK, Clean, Issued, TypeOK
  <2>2. CASE q # r
    BY <1>1, <1>4, <2>2, OtherRequest DEF RefreshBegin, TypeOK
  <2>3. QED
    BY <2>1, <2>2
<1>6. QED
  BY <1>2, <1>3, <1>4, <1>5, SameRows DEF IInv

LEMMA LogoutBeginIInv ==
  ASSUME IInv, NEW r \in Request, NEW s \in Session, LogoutBegin(r, s)
  PROVE  IInv'
<1>1. /\ TypeOK /\ MintedOK /\ PhaseOK(r) /\ DraftOK(r)
  BY DEF IInv
<1>2. TypeOK'
  BY <1>1 DEF LogoutBegin, TypeOK, db, history, Pc
<1>3. MintedOK'
  BY <1>1 DEF LogoutBegin, MintedOK, Issued, db
<1>4. UNCHANGED <<rows, lock, minted, snap, draft, result>> /\ result[r] = "none" /\ Clean(r)
  BY <1>1 DEF LogoutBegin, db, PhaseOK, DraftOK
<1>5. ASSUME NEW q \in Request PROVE PhaseOK(q)' /\ DraftOK(q)'
  <2>1. CASE q = r
    BY <1>1, <1>4, <2>1 DEF LogoutBegin, PhaseOK, DraftOK, Clean, Issued, TypeOK
  <2>2. CASE q # r
    BY <1>1, <1>4, <2>2, OtherRequest DEF LogoutBegin, TypeOK
  <2>3. QED
    BY <2>1, <2>2
<1>6. QED
  BY <1>2, <1>3, <1>4, <1>5, SameRows DEF IInv

LEMMA RefreshUnknownIInv ==
  ASSUME IInv, NEW r \in Request, RefreshUnknown(r)
  PROVE  IInv'
<1>1. TypeOK /\ MintedOK /\ PhaseOK(r) /\ DraftOK(r)
  BY DEF IInv
<1>2. TypeOK'
  BY <1>1 DEF RefreshUnknown, TypeOK, db, history, Pc, Result
<1>3. MintedOK'
  BY <1>1 DEF RefreshUnknown, MintedOK, Issued, db
<1>4. UNCHANGED <<rows, lock, token, minted, snap, draft>>
  BY DEF RefreshUnknown, db
<1>5. ASSUME NEW q \in Request PROVE PhaseOK(q)' /\ DraftOK(q)'
  <2>1. CASE q = r
    BY <1>1, <1>4, <2>1 DEF RefreshUnknown, PhaseOK, DraftOK, TypeOK, Clean, Issued
  <2>2. CASE q # r
    BY <1>1, <1>4, <2>2, OtherRequest DEF RefreshUnknown, TypeOK
  <2>3. QED
    BY <2>1, <2>2
<1>6. QED
  BY <1>2, <1>3, <1>4, <1>5, SameRows DEF IInv

LEMMA RefreshReplayIInv ==
  ASSUME IInv, NEW r \in Request, RefreshReplay(r)
  PROVE  IInv'
<1>1. TypeOK /\ MintedOK /\ PhaseOK(r) /\ DraftOK(r)
  BY DEF IInv
<1>2. TypeOK'
  BY <1>1 DEF RefreshReplay, TypeOK, db, history, Pc, Result, SelectForUpdate
<1>3. MintedOK'
  BY <1>1 DEF RefreshReplay, MintedOK, Issued, db
<1>4. UNCHANGED <<rows, token, minted, snap, draft>>
  BY DEF RefreshReplay, db, SelectForUpdate
<1>5. ASSUME NEW q \in Request PROVE PhaseOK(q)' /\ DraftOK(q)'
  <2>1. CASE q = r
    BY <1>1, <1>4, <2>1 DEF RefreshReplay, PhaseOK, DraftOK, TypeOK, Clean, Revoking, SelectForUpdate, Issued
  <2>2. CASE q # r
    BY <1>1, <1>4, <2>2, OtherRequest, NoValueAssumption DEF RefreshReplay, TypeOK, SelectForUpdate, CanLock
  <2>3. QED
    BY <2>1, <2>2
<1>6. QED
  BY <1>2, <1>3, <1>4, <1>5, SameRows DEF IInv

LEMMA RefreshInvalidIInv ==
  ASSUME IInv, NEW r \in Request, RefreshInvalid(r)
  PROVE  IInv'
<1>1. TypeOK /\ MintedOK /\ PhaseOK(r) /\ DraftOK(r)
  BY DEF IInv
<1>2. TypeOK'
  BY <1>1 DEF RefreshInvalid, TypeOK, db, history, Pc, Result, SelectForUpdate
<1>3. MintedOK'
  BY <1>1 DEF RefreshInvalid, MintedOK, Issued, db
<1>4. UNCHANGED <<rows, token, minted, snap, draft>>
  BY DEF RefreshInvalid, db, SelectForUpdate
<1>5. ASSUME NEW q \in Request PROVE PhaseOK(q)' /\ DraftOK(q)'
  <2>1. CASE q = r
    BY <1>1, <1>4, <2>1 DEF RefreshInvalid, PhaseOK, DraftOK, TypeOK, Clean, SelectForUpdate, Issued
  <2>2. CASE q # r
    BY <1>1, <1>4, <2>2, OtherRequest, NoValueAssumption DEF RefreshInvalid, TypeOK, SelectForUpdate, CanLock
  <2>3. QED
    BY <2>1, <2>2
<1>6. QED
  BY <1>2, <1>3, <1>4, <1>5, SameRows DEF IInv

LEMMA LogoutFindIInv ==
  ASSUME IInv, NEW r \in Request, LogoutFind(r)
  PROVE  IInv'
<1>1. TypeOK /\ MintedOK /\ PhaseOK(r) /\ DraftOK(r)
  BY DEF IInv
<1>2. TypeOK'
  BY <1>1 DEF LogoutFind, TypeOK, db, history, Pc, Result
<1>3. MintedOK'
  BY <1>1 DEF LogoutFind, MintedOK, Issued, db
<1>4. UNCHANGED <<rows, lock, token, minted, snap, draft>>
  BY DEF LogoutFind, db
<1>5. ASSUME NEW q \in Request PROVE PhaseOK(q)' /\ DraftOK(q)'
  <2>1. CASE q = r
    BY <1>1, <1>4, <2>1 DEF LogoutFind, PhaseOK, DraftOK, TypeOK, Clean, Revoking, Issued
  <2>2. CASE q # r
    BY <1>1, <1>4, <2>2, OtherRequest DEF LogoutFind, TypeOK
  <2>3. QED
    BY <2>1, <2>2
<1>6. QED
  BY <1>2, <1>3, <1>4, <1>5, SameRows DEF IInv

LEMMA UpdateFamilyIInv ==
  ASSUME IInv, NEW r \in Request, UpdateFamily(r)
  PROVE  IInv'
<1>1. TypeOK /\ MintedOK /\ PhaseOK(r) /\ DraftOK(r)
  BY DEF IInv
<1>2. TypeOK'
  BY <1>1 DEF UpdateFamily, TypeOK, db, history, Pc
<1>3. MintedOK'
  BY <1>1 DEF UpdateFamily, MintedOK, Issued, db
<1>4. UNCHANGED <<rows, lock, token, minted, draft, result>>
  BY DEF UpdateFamily, db
<1>5. ASSUME NEW q \in Request PROVE PhaseOK(q)' /\ DraftOK(q)'
  <2>1. CASE q = r
    BY <1>1, <1>4, <2>1 DEF UpdateFamily, PhaseOK, DraftOK, TypeOK, Revoking, InFamily, Issued
  <2>2. CASE q # r
    BY <1>1, <1>4, <2>2, OtherRequest DEF UpdateFamily, TypeOK
  <2>3. QED
    BY <2>1, <2>2
<1>6. QED
  BY <1>2, <1>3, <1>4, <1>5, SameRows DEF IInv

LEMMA UpdateDoneIInv ==
  ASSUME IInv, NEW r \in Request, UpdateDone(r)
  PROVE  IInv'
<1>1. TypeOK /\ MintedOK /\ PhaseOK(r) /\ DraftOK(r)
  BY DEF IInv
<1>2. TypeOK'
  BY <1>1 DEF UpdateDone, TypeOK, db, history, Pc, request
<1>3. MintedOK'
  BY <1>1 DEF UpdateDone, MintedOK, Issued, db, request
<1>4. UNCHANGED <<rows, lock, token, minted, snap, draft, result>>
  BY DEF UpdateDone, db, request
<1>5. ASSUME NEW q \in Request PROVE PhaseOK(q)' /\ DraftOK(q)'
  <2>1. CASE q = r
    BY <1>1, <1>4, <2>1 DEF UpdateDone, PhaseOK, DraftOK, TypeOK, Revoking, InFamily, Issued, request
  <2>2. CASE q # r
    BY <1>1, <1>4, <2>2, OtherRequest DEF UpdateDone, TypeOK, request
  <2>3. QED
    BY <2>1, <2>2
<1>6. QED
  BY <1>2, <1>3, <1>4, <1>5, SameRows DEF IInv

LEMMA RefreshRotateIInv ==
  ASSUME IInv, NEW r \in Request, RefreshRotate(r)
  PROVE  IInv'
<1> DEFINE s == token[r]
           t == minted[r]
<1>1. TypeOK /\ MintedOK /\ PhaseOK(r) /\ DraftOK(r)
  BY DEF IInv
<1>2. /\ s \in Session /\ t \in Session /\ s # t
      /\ Issued(s) /\ ~Issued(t) /\ rows[s] \in Row /\ Clean(r)
      /\ ~rows[s].consumed /\ ~rows[s].revoked
  BY <1>1 DEF RefreshRotate, SelectForUpdate, PhaseOK, MintedOK, TypeOK, Issued, DraftOK, IsActive
<1>3. /\ [rows[s] EXCEPT !.consumed = TRUE] \in Row
      /\ Replacement(rows[s], at[r]) \in Row
  BY <1>1, <1>2, MarkType, ReplacementType DEF TypeOK
<1>4. TypeOK'
  BY <1>1, <1>2, <1>3 DEF RefreshRotate, SelectForUpdate, TypeOK, history, Pc, Result
<1>5. MintedOK'
  BY <1>1 DEF RefreshRotate, MintedOK, Issued
<1>6. /\ UNCHANGED <<rows, token, minted, snap>>
      /\ lock'[s] = r /\ pc'[r] = "resolve" /\ result'[r] = "ROTATED"
      /\ draft'[r][s] = [rows[s] EXCEPT !.consumed = TRUE]
      /\ draft'[r][t] = Replacement(rows[s], at[r])
      /\ \A v \in Session \ {s, t} : draft'[r][v] = NoRow
  BY <1>1, <1>2 DEF RefreshRotate, SelectForUpdate, TypeOK, Clean
<1>7. ASSUME NEW q \in Request PROVE PhaseOK(q)' /\ DraftOK(q)'
  <2>1. CASE q = r
    <3>1. Rotating(r)'
      BY <1>2, <1>3, <1>6, NoValueAssumption DEF Rotating, Issued, Replacement
    <3>2. QED
      BY <1>1, <1>6, <2>1, <3>1 DEF PhaseOK, DraftOK, Issued
  <2>2. CASE q # r
    BY <1>1, <1>2, <1>6, <2>2, OtherRequest, NoValueAssumption
       DEF RefreshRotate, SelectForUpdate, CanLock, TypeOK
  <2>3. QED
    BY <2>1, <2>2
<1>8. QED
  BY <1>4, <1>5, <1>6, <1>7, SameRows DEF IInv

LEMMA UpdateRowIInv ==
  ASSUME IInv, NEW r \in Request, NEW s \in Session, UpdateRow(r, s)
  PROVE  IInv'
<1>1. TypeOK /\ MintedOK /\ PhaseOK(r) /\ DraftOK(r)
  BY DEF IInv
<1>2. Issued(s) /\ rows[s] \in Row /\ Revoking(r)
  BY <1>1 DEF UpdateRow, Unfinished, PhaseOK, DraftOK, TypeOK, Issued
<1>3. [rows[s] EXCEPT !.revoked = TRUE] \in Row
  BY <1>2, MarkType
<1>4. TypeOK'
  BY <1>1, <1>3 DEF UpdateRow, TypeOK, history
<1>5. MintedOK'
  BY <1>1 DEF UpdateRow, MintedOK, Issued
<1>6. /\ UNCHANGED <<rows, pc, token, minted, snap, result>>
      /\ lock' = [lock EXCEPT ![s] = r]
      /\ draft'[r][s] = [rows[s] EXCEPT !.revoked = TRUE]
      /\ \A v \in Session : v # s => draft'[r][v] = draft[r][v]
  BY <1>1 DEF UpdateRow, TypeOK
<1>7. ASSUME NEW q \in Request PROVE PhaseOK(q)' /\ DraftOK(q)'
  <2>1. CASE q = r
    <3>1. Revoking(r)'
      BY <1>1, <1>2, <1>6 DEF Revoking, Issued, TypeOK
    <3>2. result[r] \in {"logout", "REPLAY_REVOKED"}
      BY <1>1 DEF UpdateRow, PhaseOK
    <3>3. QED
      BY <1>1, <1>6, <2>1, <3>1, <3>2 DEF PhaseOK, DraftOK, Issued
  <2>2. CASE q # r
    <3>1. \A v \in Session : lock[v] = q => lock'[v] = q
      BY <1>1, <1>6, <2>2, NoValueAssumption DEF UpdateRow, CanLock, TypeOK
    <3>2. result[r] # "login"
      BY <1>1 DEF UpdateRow, PhaseOK
    <3>3. \A p \in Request : p # r => draft'[p] = draft[p]
      BY <1>1 DEF UpdateRow, TypeOK
    <3>4. QED
      BY <1>6, <2>2, <3>1, <3>2, <3>3, OtherRequest
  <2>3. QED
    BY <2>1, <2>2
<1>8. QED
  BY <1>4, <1>5, <1>6, <1>7, SameRows DEF IInv

\* What closing the transaction of r does to its own state.
LEMMA CloseTypes ==
  ASSUME TypeOK, NEW r \in Request, Close(r)
  PROVE  /\ lock' \in [Session -> Request \cup {NoRequest}]
         /\ pc' \in [Request -> Pc]
         /\ token' \in [Request -> Session \cup {NoSession}]
         /\ minted' \in [Request -> Session \cup {NoSession}]
         /\ at' \in [Request -> Nat]
         /\ snap' \in [Request -> SUBSET Session]
         /\ draft' \in [Request -> [Session -> Row \cup {NoRow}]]
         /\ result' \in [Request -> Result]
BY DEF TypeOK, Close, Pc, Result, NoDraft

\* ... and to the other requests.
LEMMA CloseOthers ==
  ASSUME TypeOK, NEW r \in Request, NEW q \in Request, q # r, Close(r)
  PROVE  /\ pc'[q] = pc[q] /\ token'[q] = token[q] /\ minted'[q] = minted[q]
         /\ snap'[q] = snap[q] /\ draft'[q] = draft[q] /\ result'[q] = result[q]
         /\ \A s \in Session : lock[s] = q => lock'[s] = q
BY DEF TypeOK, Close

LEMMA CloseOwn ==
  ASSUME TypeOK, NEW r \in Request, Close(r)
  PROVE  PhaseOK(r)' /\ DraftOK(r)' /\ result'[r] = "none" /\ minted'[r] = NoSession
BY DEF TypeOK, Close, PhaseOK, DraftOK, Clean, NoDraft

LEMMA RollbackIInv ==
  ASSUME IInv, NEW r \in Request, Rollback(r)
  PROVE  IInv'
<1>1. TypeOK /\ MintedOK /\ Close(r) /\ UNCHANGED <<clock, enabled, rows, loggedOut, replayed>>
  BY DEF IInv, Rollback, history
<1>2. TypeOK'
  BY <1>1, CloseTypes DEF TypeOK
<1>3. MintedOK'
  BY <1>1, CloseOthers, CloseOwn, NoValueAssumption DEF MintedOK, Issued
<1>4. ASSUME NEW q \in Request PROVE PhaseOK(q)' /\ DraftOK(q)'
  <2>1. CASE q = r
    BY <1>1, <2>1, CloseOwn
  <2>2. CASE q # r
    <3>1. \A p \in Request : result'[p] = "login" =>
            result[p] = "login" /\ draft'[p] = draft[p] /\ minted'[p] = minted[p]
      BY <1>1, CloseOthers, CloseOwn
    <3>2. QED
      BY <1>1, <2>2, <3>1, CloseOthers, OtherRequest
  <2>3. QED
    BY <2>1, <2>2
<1>5. QED
  BY <1>1, <1>2, <1>3, <1>4, SameRows DEF IInv

LEMMA RefreshResolveIInv ==
  ASSUME IInv, NEW r \in Request, RefreshResolve(r)
  PROVE  IInv'
<1>1. CASE Rollback(r)
  BY <1>1, RollbackIInv
<1>2. CASE /\ pc' = [pc EXCEPT ![r] = "commit"]
           /\ UNCHANGED <<clock, enabled, db, request, history>>
  <2>1. TypeOK /\ MintedOK /\ PhaseOK(r) /\ DraftOK(r)
    BY DEF IInv
  <2>2. TypeOK'
    BY <1>2, <2>1 DEF TypeOK, db, request, history, Pc
  <2>3. MintedOK'
    BY <1>2, <2>1 DEF MintedOK, Issued, db, request
  <2>4. UNCHANGED <<rows, lock, token, minted, snap, draft, result>>
    BY <1>2 DEF db, request
  <2>5. result[r] = "ROTATED"
    BY <2>1 DEF RefreshResolve, PhaseOK
  <2>6. ASSUME NEW q \in Request PROVE PhaseOK(q)' /\ DraftOK(q)'
    <3>1. CASE q = r
      BY <1>2, <2>1, <2>4, <2>5, <3>1 DEF PhaseOK, DraftOK, Rotating, Issued, TypeOK
    <3>2. CASE q # r
      BY <1>2, <2>1, <2>4, <3>2, OtherRequest DEF TypeOK
    <3>3. QED
      BY <3>1, <3>2
  <2>7. QED
    BY <2>2, <2>3, <2>4, <2>6, SameRows DEF IInv
<1>3. QED
  BY <1>1, <1>2 DEF RefreshResolve

-----------------------------------------------------------------------------
(* Commit, the only action that changes the table *)

\* What a commit does to one row: rows stay in the table, a row that another
\* transaction locks is untouched, and a row appears only if r generated it.
LEMMA CommitRows ==
  ASSUME IInv, NEW r \in Request, Commit(r)
  PROVE  /\ \A s \in Session : rows'[s] = IF draft[r][s] # NoRow THEN draft[r][s] ELSE rows[s]
         /\ \A s \in Session : Issued(s) => Issued(s)'
         /\ \A s \in Session : Issued(s) /\ lock[s] # r => rows'[s] = rows[s]
         /\ \A s \in Session : Issued(s)' /\ ~Issued(s) => s = minted[r] /\ rows'[s] = draft[r][s]
         /\ \A s \in Session : Issued(s) => rows'[s].family = rows[s].family
<1>1. \A s \in Session : rows'[s] = IF draft[r][s] # NoRow THEN draft[r][s] ELSE rows[s]
  BY DEF Commit
<1>2. ASSUME NEW s \in Session, Issued(s), draft[r][s] # NoRow
      PROVE  rows'[s].family = rows[s].family
  <2>1. DraftOK(r) /\ MintedOK /\ result[r] \in Result /\ rows[s] \in Row
    BY <1>2 DEF IInv, TypeOK, Issued
  <2>2. CASE result[r] = "ROTATED"
    <3>1. Rotating(r) /\ s = token[r]
      BY <1>2, <2>1, <2>2 DEF DraftOK, Rotating, MintedOK
    <3>2. QED
      BY <1>1, <1>2, <2>1, <3>1, MarkFields DEF Rotating
  <2>3. CASE result[r] \in {"logout", "REPLAY_REVOKED"}
    <3>1. draft[r][s] = [rows[s] EXCEPT !.revoked = TRUE]
      BY <1>2, <2>1, <2>3 DEF DraftOK, Revoking
    <3>2. QED
      BY <1>1, <1>2, <2>1, <3>1, MarkFields
  <2>4. QED
    BY <1>2, <2>1, <2>2, <2>3 DEF DraftOK, Result, Clean, LoggingIn, MintedOK
<1>3. QED
  BY <1>1, <1>2, DraftOwned DEF Issued

\* The table after the commit of a login: one more family, with one row.
LEMMA CommitLogin ==
  ASSUME IInv, NEW r \in Request, Commit(r), result[r] = "login"
  PROVE  OneCurrentCredential' /\ FamilyLifetime'
<1>1. LoggingIn(r) /\ MintedOK /\ OneCurrentCredential /\ FamilyLifetime
  BY DEF IInv, DraftOK
<1> PICK t \in Session : t = minted[r]
  BY <1>1 DEF LoggingIn
<1>2. /\ t \in Session /\ ~Issued(t) /\ Issued(t)' /\ ~rows'[t].consumed
      /\ \A s \in Session : s # t => rows'[s] = rows[s]
      /\ \A s \in Session : Issued(s) => rows[s].family # rows'[t].family
  <2>1. /\ t \in Session /\ ~Issued(t)
        /\ draft[r][t] # NoRow /\ ~draft[r][t].consumed
        /\ \A s \in Session : s # t => draft[r][s] = NoRow
        /\ \A s \in Session : Issued(s) => rows[s].family # draft[r][t].family
    BY <1>1 DEF LoggingIn, MintedOK, InFamily
  <2>2. rows'[t] = draft[r][t] /\ \A s \in Session : s # t => rows'[s] = rows[s]
    BY <2>1, CommitRows
  <2>3. QED
    BY <2>1, <2>2 DEF Issued
<1>3. OneCurrentCredential'
  <2>1. SUFFICES ASSUME NEW s \in Session, Issued(s)'
                 PROVE  \E v \in Session :
                          /\ InFamily(v, rows[s].family)' /\ ~rows'[v].consumed
                          /\ \A w \in Session :
                                InFamily(w, rows[s].family)' /\ ~rows'[w].consumed => w = v
    BY DEF OneCurrentCredential
  <2>2. CASE s = t
    <3>1. /\ InFamily(t, rows[s].family)' /\ ~rows'[t].consumed
          /\ \A w \in Session :
                InFamily(w, rows[s].family)' /\ ~rows'[w].consumed => w = t
      BY <1>2, <2>2 DEF InFamily, Issued
    <3>2. QED
      BY <1>2, <3>1
  <2>3. CASE s # t
    <3>1. PICK v \in Session :
            /\ InFamily(v, rows[s].family) /\ ~rows[v].consumed
            /\ \A w \in Session : InFamily(w, rows[s].family) /\ ~rows[w].consumed => w = v
      BY <1>1, <1>2, <2>1, <2>3 DEF OneCurrentCredential, Issued
    <3>2. QED
      BY <1>2, <2>1, <2>3, <3>1 DEF InFamily, Issued
  <2>4. QED
    BY <2>2, <2>3
<1>4. FamilyLifetime'
  BY <1>1, <1>2 DEF FamilyLifetime, InFamily, Issued
<1>5. QED
  BY <1>3, <1>4

\* The table after the commit of a rotation: the consumed credential and its
\* replacement change places.
LEMMA CommitRotated ==
  ASSUME IInv, NEW r \in Request, Commit(r), result[r] = "ROTATED"
  PROVE  OneCurrentCredential' /\ FamilyLifetime'
<1>0. Rotating(r) /\ MintedOK /\ OneCurrentCredential /\ FamilyLifetime /\ TypeOK
  BY DEF IInv, DraftOK
<1> PICK s \in Session, t \in Session : s = token[r] /\ t = minted[r]
  BY <1>0 DEF Rotating
<1>1. /\ Rotating(r) /\ MintedOK /\ OneCurrentCredential /\ FamilyLifetime
      /\ rows[s] \in Row
  BY <1>0 DEF TypeOK, Rotating, Issued
<1>2. /\ s \in Session /\ t \in Session /\ s # t
      /\ Issued(s) /\ ~Issued(t) /\ Issued(s)' /\ Issued(t)'
      /\ ~rows[s].consumed /\ rows'[s].consumed /\ ~rows'[t].consumed
      /\ rows'[s].family = rows[s].family /\ rows'[t].family = rows[s].family
      /\ rows'[s].user = rows[s].user /\ rows'[t].user = rows[s].user
      /\ rows'[s].absolute = rows[s].absolute /\ rows'[t].absolute = rows[s].absolute
      /\ \A v \in Session \ {s, t} : rows'[v] = rows[v]
  <2>1. /\ s \in Session /\ t \in Session /\ s # t
        /\ Issued(s) /\ ~Issued(t) /\ ~rows[s].consumed
        /\ draft[r][s] # NoRow /\ draft[r][s] = [rows[s] EXCEPT !.consumed = TRUE]
        /\ draft[r][t] # NoRow /\ ~draft[r][t].consumed
        /\ draft[r][t].family = rows[s].family /\ draft[r][t].user = rows[s].user
        /\ draft[r][t].absolute = rows[s].absolute
        /\ \A v \in Session \ {s, t} : draft[r][v] = NoRow
    BY <1>1 DEF Rotating, MintedOK
  <2>2. /\ rows'[s] = draft[r][s] /\ rows'[t] = draft[r][t]
        /\ \A v \in Session \ {s, t} : rows'[v] = rows[v]
    BY <2>1, CommitRows
  <2>3. /\ rows'[s].family = rows[s].family /\ rows'[s].user = rows[s].user
        /\ rows'[s].absolute = rows[s].absolute /\ rows'[s].consumed
    BY <1>1, <2>1, <2>2, MarkFields
  <2>4. QED
    BY <2>1, <2>2, <2>3 DEF Issued
<1>3. OneCurrentCredential'
  <2>1. SUFFICES ASSUME NEW v \in Session, Issued(v)'
                 PROVE  \E w \in Session :
                          /\ InFamily(w, rows[v].family)' /\ ~rows'[w].consumed
                          /\ \A x \in Session :
                                InFamily(x, rows[v].family)' /\ ~rows'[x].consumed => x = w
    BY DEF OneCurrentCredential
  <2>2. \A x \in Session : InFamily(x, rows[s].family) /\ ~rows[x].consumed => x = s
    BY <1>1, <1>2 DEF OneCurrentCredential, InFamily
  <2>3. CASE rows'[v].family = rows[s].family
    <3>1. /\ InFamily(t, rows[v].family)' /\ ~rows'[t].consumed
          /\ \A x \in Session :
                InFamily(x, rows[v].family)' /\ ~rows'[x].consumed => x = t
      BY <1>2, <2>2, <2>3 DEF InFamily, Issued
    <3>2. QED
      BY <1>2, <3>1
  <2>4. CASE rows'[v].family # rows[s].family
    <3>1. v # s /\ v # t /\ rows'[v] = rows[v] /\ Issued(v)
      BY <1>2, <2>1, <2>4 DEF Issued
    <3>2. PICK w \in Session :
            /\ InFamily(w, rows[v].family) /\ ~rows[w].consumed
            /\ \A x \in Session : InFamily(x, rows[v].family) /\ ~rows[x].consumed => x = w
      BY <1>1, <3>1 DEF OneCurrentCredential
    <3>3. QED
      BY <1>2, <2>4, <3>1, <3>2 DEF InFamily, Issued
  <2>5. QED
    BY <2>3, <2>4
<1>4. FamilyLifetime'
  BY <1>1, <1>2 DEF FamilyLifetime, InFamily, Issued
<1>5. QED
  BY <1>3, <1>4

\* The table after any other commit: rows may have been revoked, no more.
LEMMA CommitOther ==
  ASSUME IInv, NEW r \in Request, Commit(r), result[r] \notin {"login", "ROTATED"}
  PROVE  OneCurrentCredential' /\ FamilyLifetime'
<1>1. /\ TypeOK /\ DraftOK(r) /\ MintedOK /\ OneCurrentCredential /\ FamilyLifetime
      /\ result[r] \in Result
  BY DEF IInv, TypeOK
<1>2. ASSUME NEW s \in Session
      PROVE  /\ Issued(s)' <=> Issued(s)
             /\ Issued(s) => /\ rows'[s].family = rows[s].family
                            /\ rows'[s].user = rows[s].user
                            /\ rows'[s].absolute = rows[s].absolute
                            /\ rows'[s].consumed = rows[s].consumed
  <2>1. CASE draft[r][s] = NoRow
    BY <2>1, CommitRows DEF Issued
  <2>2. CASE draft[r][s] # NoRow
    <3>1. Revoking(r)
      BY <1>1, <2>2 DEF DraftOK, Clean, Result
    <3>2. /\ Issued(s) /\ rows[s] \in Row
          /\ rows'[s] = [rows[s] EXCEPT !.revoked = TRUE]
      BY <1>1, <2>2, <3>1, CommitRows DEF Revoking, TypeOK, Issued
    <3>3. QED
      BY <3>2, MarkFields, CommitRows
  <2>3. QED
    BY <2>1, <2>2
<1>3. OneCurrentCredential'
  <2>1. SUFFICES ASSUME NEW s \in Session, Issued(s)'
                 PROVE  \E v \in Session :
                          /\ InFamily(v, rows[s].family)' /\ ~rows'[v].consumed
                          /\ \A w \in Session :
                                InFamily(w, rows[s].family)' /\ ~rows'[w].consumed => w = v
    BY DEF OneCurrentCredential
  <2>2. PICK v \in Session :
            /\ InFamily(v, rows[s].family) /\ ~rows[v].consumed
            /\ \A w \in Session : InFamily(w, rows[s].family) /\ ~rows[w].consumed => w = v
    BY <1>1, <1>2, <2>1 DEF OneCurrentCredential
  <2>3. QED
    BY <1>2, <2>1, <2>2 DEF InFamily
<1>4. FamilyLifetime'
  BY <1>1, <1>2 DEF FamilyLifetime, InFamily
<1>5. QED
  BY <1>3, <1>4

LEMMA CommitType ==
  ASSUME IInv, NEW r \in Request, Commit(r)
  PROVE  TypeOK'
<1>1. TypeOK /\ DraftOK(r) /\ Close(r) /\ UNCHANGED <<clock, enabled>>
  BY DEF IInv, Commit
<1>2. rows' \in [Session -> Row \cup {NoRow}]
  BY <1>1 DEF Commit, TypeOK
<1>3. result[r] \in {"logout", "REPLAY_REVOKED"} => TokenFamily(r) \in Family
  BY <1>1 DEF DraftOK, Revoking, TokenFamily, TypeOK, Issued, Row
<1>4. loggedOut' \in SUBSET Family /\ replayed' \in SUBSET Family
  BY <1>1, <1>3 DEF Commit, TypeOK
<1>5. QED
  BY <1>1, <1>2, <1>4, CloseTypes DEF TypeOK

LEMMA CommitMinted ==
  ASSUME IInv, NEW r \in Request, Commit(r)
  PROVE  MintedOK'
<1>1. TypeOK /\ MintedOK /\ Close(r)
  BY DEF IInv, Commit
<1>2. ASSUME NEW q \in Request, NEW s \in Session, minted'[q] = s
      PROVE  ~Issued(s)'
  <2>1. q # r /\ minted[q] = s
    BY <1>1, <1>2, CloseOwn, CloseOthers, NoValueAssumption
  <2>2. ~Issued(s) /\ s # minted[r]
    BY <1>1, <2>1, NoValueAssumption DEF MintedOK
  <2>3. QED
    BY <2>2, CommitRows
<1>3. ASSUME NEW q \in Request, NEW p \in Request,
             minted'[q] = minted'[p], minted'[q] # NoSession
      PROVE  q = p
  BY <1>1, <1>3, CloseOwn, CloseOthers DEF MintedOK
<1>4. QED
  BY <1>2, <1>3 DEF MintedOK

LEMMA CommitDrafts ==
  ASSUME IInv, NEW r \in Request, NEW q \in Request, Commit(r)
  PROVE  PhaseOK(q)' /\ DraftOK(q)'
<1>1. /\ TypeOK /\ MintedOK /\ Close(r) /\ DraftOK(r)
      /\ PhaseOK(q) /\ DraftOK(q)
  BY DEF IInv, Commit
<1>2. CASE q = r
  BY <1>1, <1>2, CloseOwn
<1>3. CASE q # r
  <2>1. /\ pc'[q] = pc[q] /\ token'[q] = token[q] /\ minted'[q] = minted[q]
        /\ snap'[q] = snap[q] /\ draft'[q] = draft[q] /\ result'[q] = result[q]
        /\ \A s \in Session : lock[s] = q => lock'[s] = q
    BY <1>1, <1>3, CloseOthers
  <2>2. /\ \A s \in Session : Issued(s) => Issued(s)'
        /\ \A s \in Session : Issued(s) /\ lock[s] = q => rows'[s] = rows[s]
    BY <1>3, CommitRows
  <2>3. PhaseOK(q)'
    BY <1>1, <2>1, <2>2 DEF PhaseOK, TypeOK
  <2>4. Clean(q) => Clean(q)'
    BY <2>1 DEF Clean
  <2>5. ASSUME Rotating(q) PROVE Rotating(q)'
    BY <2>1, <2>2, <2>5 DEF Rotating
  <2>6. ASSUME Revoking(q) PROVE Revoking(q)'
    BY <2>1, <2>2, <2>6 DEF Revoking
  <2>7. ASSUME LoggingIn(q), result[q] = "login" PROVE LoggingIn(q)'
    <3> PICK t \in Session : t = minted[q]
      BY <2>7 DEF LoggingIn
    <3>1. ASSUME NEW s \in Session, Issued(s)'
          PROVE  rows'[s].family # draft[q][t].family
      <4>1. CASE Issued(s)
        BY <2>7, <4>1, CommitRows DEF LoggingIn, InFamily
      <4>2. CASE ~Issued(s)
        <5>1. s = minted[r] /\ rows'[s] = draft[r][s] /\ draft[r][s] # NoRow
          BY <3>1, <4>2, CommitRows DEF Issued
        <5>2. CASE result[r] = "login"
          BY <1>3, <2>7, <5>1, <5>2 DEF LoggingIn
        <5>3. CASE result[r] = "ROTATED"
          BY <1>1, <2>7, <5>1, <5>3 DEF DraftOK, Rotating, LoggingIn, InFamily
        <5>4. QED
          BY <1>1, <4>2, <5>1, <5>2, <5>3 DEF DraftOK, Clean, Revoking, Result, TypeOK
      <4>3. QED
        BY <4>1, <4>2
    <3>2. ASSUME NEW p \in Request, result'[p] = "login"
          PROVE  result[p] = "login" /\ draft'[p] = draft[p] /\ minted'[p] = minted[p]
      BY <1>1, <3>2, CloseOwn, CloseOthers
    <3>3. QED
      BY <2>1, <2>7, <3>1, <3>2 DEF LoggingIn, InFamily
  <2>8. QED
    BY <1>1, <2>1, <2>3, <2>4, <2>5, <2>6, <2>7 DEF DraftOK
<1>4. QED
  BY <1>2, <1>3

LEMMA CommitIInv ==
  ASSUME IInv, NEW r \in Request, Commit(r)
  PROVE  IInv'
BY CommitType, CommitMinted, CommitDrafts, CommitLogin, CommitRotated, CommitOther DEF IInv

-----------------------------------------------------------------------------
(* The invariant *)

\* Steps of the environment touch neither the table nor the requests.
LEMMA EnvironmentIInv ==
  ASSUME IInv, UNCHANGED <<db, pc, request, history>>,
         clock' \in Nat, enabled' \in [User -> BOOLEAN]
  PROVE  IInv'
<1>1. UNCHANGED <<rows, lock, pc, token, minted, at, snap, draft, result, loggedOut, replayed>>
  BY DEF db, request, history
<1>2. TypeOK' /\ MintedOK'
  BY <1>1 DEF IInv, TypeOK, MintedOK, Issued
<1>3. ASSUME NEW q \in Request PROVE PhaseOK(q)' /\ DraftOK(q)'
  BY <1>1, OtherRequest
<1>4. QED
  BY <1>1, <1>2, <1>3, SameRows DEF IInv

LEMMA NextIInv == IInv /\ [Next]_vars => IInv'
<1>1. SUFFICES ASSUME IInv, [Next]_vars PROVE IInv'
  OBVIOUS
<1>2. ASSUME NEW r \in Request, Begin(r) PROVE IInv'
  BY <1>1, <1>2, LoginIInv, RefreshBeginIInv, LogoutBeginIInv DEF Begin
<1>3. ASSUME NEW r \in Request, Step(r) PROVE IInv'
  BY <1>1, <1>3, RefreshUnknownIInv, RefreshReplayIInv, RefreshInvalidIInv, RefreshRotateIInv,
     RefreshResolveIInv, LogoutFindIInv, UpdateFamilyIInv, UpdateRowIInv, UpdateDoneIInv,
     CommitIInv DEF Step
<1>4. ASSUME NEW r \in Request, Rollback(r) \/ DeadlockVictim(r) PROVE IInv'
  BY <1>1, <1>4, RollbackIInv DEF DeadlockVictim
<1>5. ASSUME NEW u \in User, SetEnabled(u) PROVE IInv'
  BY <1>1, <1>5, EnvironmentIInv DEF SetEnabled, IInv, TypeOK
<1>6. CASE Tick
  BY <1>1, <1>6, EnvironmentIInv DEF Tick, IInv, TypeOK
<1>7. CASE UNCHANGED vars
  BY <1>1, <1>7, EnvironmentIInv DEF vars, IInv, TypeOK
<1>8. QED
  BY <1>1, <1>2, <1>3, <1>4, <1>5, <1>6, <1>7 DEF Next

\* The inductive invariant holds in every reachable state, whatever the number
\* of concurrent login, refresh and logout transactions.
THEOREM Invariance == Spec => []IInv
BY InitIInv, NextIInv, PTL DEF Spec

\* Every reachable state is well typed; in particular every stored row has its
\* idle expiry within its absolute expiry (RefreshSession.__post_init__).
THEOREM TypeCorrectness == Spec => []TypeOK
<1>1. IInv => TypeOK
  BY DEF IInv
<1>2. QED
  BY <1>1, Invariance, PTL

\* rotate_refresh_session never forks or loses a family: at any time it has
\* exactly one unconsumed credential.
THEOREM SoleReplacement == Spec => []OneCurrentCredential
<1>1. IInv => OneCurrentCredential
  BY DEF IInv
<1>2. QED
  BY <1>1, Invariance, PTL

\* No chain of rotations changes the account of a family or outlives the
\* absolute expiry that its login set.
THEOREM LifetimeIsFixed == Spec => []FamilyLifetime
<1>1. IInv => FamilyLifetime
  BY DEF IInv
<1>2. QED
  BY <1>1, Invariance, PTL

-----------------------------------------------------------------------------
(* RefreshSessions implements SessionFamilies: every commit is one atomic    *)
(* step on one family, and every other step changes nothing that the         *)
(* abstract specification sees.                                              *)

\* The current credential of a family is its unconsumed row.
LEMMA CurrentIsUnconsumed ==
  ASSUME OneCurrentCredential, NEW s \in Session, NEW f,
         InFamily(s, f), ~rows[s].consumed
  PROVE  Current(f) = s
<1>1. /\ Current(f) \in Session
      /\ InFamily(Current(f), f) /\ ~rows[Current(f)].consumed
  BY DEF Current
<1>2. rows[s].family = f /\ Issued(s)
  BY DEF InFamily
<1>3. QED
  BY <1>1, <1>2 DEF OneCurrentCredential

\* A family has a current credential exactly when it has a row.
LEMMA CurrentOfEmptyFamily ==
  ASSUME NEW f, \A s \in Session : ~InFamily(s, f)
  PROVE  Current(f) = NoSession
BY DEF Current

\* Steps that leave the table alone are stutters.
LEMMA SameTableStutters ==
  ASSUME UNCHANGED rows
  PROVE  UNCHANGED Families!vars
BY DEF Families!vars, Current, InFamily, Issued

\* The same fact about the state after a step.
LEMMA NextCurrentIsUnconsumed ==
  ASSUME OneCurrentCredential', NEW s \in Session, NEW f,
         Issued(s)', rows'[s].family = f, ~rows'[s].consumed
  PROVE  Current(f)' = s
<1>1. \E t \in Session : InFamily(t, f)' /\ ~rows'[t].consumed
  BY DEF InFamily
<1>2. PICK t \in Session : t = Current(f)' /\ InFamily(t, f)' /\ ~rows'[t].consumed
  BY <1>1 DEF Current
<1>3. QED
  BY <1>2 DEF OneCurrentCredential, InFamily

\* A family whose rows a commit leaves alone, as far as they are consumed,
\* keeps its current credential.
LEMMA SameFamilySameCurrent ==
  ASSUME NEW f,
         \A s \in Session : (InFamily(s, f) /\ ~rows[s].consumed)
                             <=> (InFamily(s, f)' /\ ~rows'[s].consumed)
  PROVE  Current(f)' = Current(f)
BY DEF Current

LEMMA CommitLoginOpens ==
  ASSUME IInv, IInv', NEW r \in Request, Commit(r), result[r] = "login"
  PROVE  \E f \in Family, s \in Session : Families!Open(f, s)
<1>1. /\ LoggingIn(r) /\ MintedOK /\ TypeOK /\ TypeOK'
      /\ OneCurrentCredential /\ OneCurrentCredential'
  BY DEF IInv, DraftOK
<1> PICK t \in Session : t = minted[r]
  BY <1>1 DEF LoggingIn
<1>2. /\ ~Issued(t) /\ draft[r][t] # NoRow
      /\ ~draft[r][t].consumed /\ ~draft[r][t].revoked
      /\ \A s \in Session : s # t => draft[r][s] = NoRow
      /\ \A s \in Session : ~InFamily(s, draft[r][t].family)
  BY <1>1 DEF LoggingIn, MintedOK
<1>3. rows'[t] = draft[r][t] /\ \A s \in Session : s # t => rows'[s] = rows[s]
  BY <1>2, CommitRows
<1> PICK f \in Family : f = draft[r][t].family
  BY <1>1, <1>2, RowTypes DEF Row
<1>4. Issued(t)' /\ rows'[t].family = f /\ ~rows'[t].consumed /\ ~rows'[t].revoked
  BY <1>2, <1>3 DEF Issued
<1>5. Current(f) = NoSession /\ Current(f)' = t
  BY <1>1, <1>2, <1>4, CurrentOfEmptyFamily, NextCurrentIsUnconsumed
<1>6. ASSUME NEW g \in Family, g # f PROVE Current(g)' = Current(g)
  BY <1>2, <1>3, <1>4, <1>6, SameFamilySameCurrent DEF InFamily, Issued
<1>7. {s \in Session : Issued(s)}' = {s \in Session : Issued(s)} \cup {t}
  BY <1>2, <1>3, <1>4 DEF Issued
<1>8. UNCHANGED {s \in Session : Issued(s) /\ rows[s].revoked}
  BY <1>2, <1>3, <1>4 DEF Issued
<1>9. [g \in Family |-> Current(g)]' = [[g \in Family |-> Current(g)] EXCEPT ![f] = t]
  BY <1>5, <1>6
<1>10. Families!Open(f, t)
  BY <1>2, <1>5, <1>7, <1>8, <1>9 DEF Families!Open
<1>11. QED
  BY <1>10

LEMMA CommitRotatedRotates ==
  ASSUME IInv, IInv', NEW r \in Request, Commit(r), result[r] = "ROTATED"
  PROVE  \E f \in Family, s \in Session : Families!Rotate(f, s)
<1>1. /\ Rotating(r) /\ MintedOK /\ TypeOK
      /\ OneCurrentCredential /\ OneCurrentCredential'
  BY DEF IInv, DraftOK
<1> PICK s \in Session, t \in Session : s = token[r] /\ t = minted[r]
  BY <1>1 DEF Rotating
<1>2. /\ s # t /\ Issued(s) /\ ~Issued(t) /\ rows[s] \in Row
      /\ ~rows[s].consumed /\ ~rows[s].revoked
      /\ draft[r][s] # NoRow /\ draft[r][s] = [rows[s] EXCEPT !.consumed = TRUE]
      /\ draft[r][t] # NoRow /\ draft[r][t].family = rows[s].family
      /\ ~draft[r][t].consumed /\ ~draft[r][t].revoked
      /\ \A v \in Session \ {s, t} : draft[r][v] = NoRow
  <2>1. Issued(s) /\ rows[s] \in Row
    BY <1>1, RowTypes DEF Rotating
  <2>2. QED
    BY <1>1, <2>1 DEF Rotating, MintedOK
<1>3. /\ rows'[s] = [rows[s] EXCEPT !.consumed = TRUE] /\ rows'[t] = draft[r][t]
      /\ \A v \in Session \ {s, t} : rows'[v] = rows[v]
  BY <1>2, CommitRows
<1> PICK f \in Family : f = rows[s].family
  BY <1>2 DEF Row
<1>4. /\ Issued(s)' /\ rows'[s].family = f /\ rows'[s].consumed
      /\ rows'[s].revoked = rows[s].revoked
      /\ Issued(t)' /\ rows'[t].family = f /\ ~rows'[t].consumed /\ ~rows'[t].revoked
  <2>1. rows'[s].family = rows[s].family /\ rows'[s].consumed
    <3>1. rows[s] \in Row /\ rows'[s] = [rows[s] EXCEPT !.consumed = TRUE]
      BY <1>2, <1>3
    <3>2. QED
      BY <3>1, MarkFields, ZenonT(30)
  <2>2. rows'[s].revoked = rows[s].revoked
    BY <1>2, <1>3 DEF Row
  <2>3. QED
    BY <1>2, <1>3, <2>1, <2>2, CommitRows DEF Issued
<1>5. Current(f) = s /\ Current(f)' = t
  <2>1. InFamily(s, f)
    BY <1>2 DEF InFamily
  <2>2. Current(f) = s
    BY <1>1, <1>2, <2>1, CurrentIsUnconsumed
  <2>3. Current(f)' = t
    BY <1>1, <1>4, NextCurrentIsUnconsumed
  <2>4. QED
    BY <2>2, <2>3
<1>6. ASSUME NEW g \in Family, g # f PROVE Current(g)' = Current(g)
  <2>1. ASSUME NEW v \in Session
        PROVE  (InFamily(v, g) /\ ~rows[v].consumed) <=> (InFamily(v, g)' /\ ~rows'[v].consumed)
    <3>1. CASE v \in {s, t}
      BY <1>2, <1>4, <1>6, <3>1 DEF InFamily
    <3>2. CASE v \notin {s, t}
      BY <1>3, <3>2 DEF InFamily, Issued
    <3>3. QED
      BY <3>1, <3>2
  <2>2. QED
    BY <2>1, SameFamilySameCurrent
<1>7. {v \in Session : Issued(v)}' = {v \in Session : Issued(v)} \cup {t}
  BY <1>2, <1>3, <1>4 DEF Issued
<1>8. UNCHANGED {v \in Session : Issued(v) /\ rows[v].revoked}
  <2>1. ASSUME NEW v \in Session
        PROVE  (Issued(v)' /\ rows'[v].revoked) <=> (Issued(v) /\ rows[v].revoked)
    <3>1. CASE v = s
      BY <1>2, <1>4, <3>1
    <3>2. CASE v = t
      BY <1>2, <1>4, <3>2
    <3>3. CASE v \notin {s, t}
      <4>1. rows'[v] = rows[v]
        BY <1>3, <3>3
      <4>2. QED
        BY <4>1 DEF Issued
    <3>4. QED
      BY <3>1, <3>2, <3>3
  <2>2. QED
    BY <2>1
<1>9. [g \in Family |-> Current(g)]' = [[g \in Family |-> Current(g)] EXCEPT ![f] = t]
  BY <1>5, <1>6
<1>10. s # NoSession
  BY NoValueAssumption
<1>11. Families!Rotate(f, t)
  BY <1>2, <1>5, <1>7, <1>8, <1>9, <1>10 DEF Families!Rotate
<1>12. QED
  BY <1>11

LEMMA CommitOtherBars ==
  ASSUME IInv, NEW r \in Request, Commit(r), result[r] \notin {"login", "ROTATED"}
  PROVE  \E S \in SUBSET Session : Families!Bar(S)
<1>1. TypeOK /\ DraftOK(r)
  BY DEF IInv
<1> DEFINE S == {s \in Session : draft[r][s] # NoRow}
<1>2. ASSUME NEW s \in Session, draft[r][s] # NoRow
      PROVE  /\ Issued(s) /\ rows[s] \in Row
             /\ rows'[s] = [rows[s] EXCEPT !.revoked = TRUE]
  <2>1. Revoking(r)
    BY <1>1, <1>2 DEF DraftOK, Clean, Result, TypeOK
  <2>2. Issued(s) /\ draft[r][s] = [rows[s] EXCEPT !.revoked = TRUE]
    BY <1>2, <2>1 DEF Revoking
  <2>3. QED
    BY <1>1, <1>2, <2>2, CommitRows, RowTypes
<1>3. ASSUME NEW s \in Session, draft[r][s] # NoRow
      PROVE  /\ Issued(s) /\ Issued(s)' /\ rows'[s].revoked
             /\ rows'[s].family = rows[s].family
             /\ rows'[s].consumed = rows[s].consumed
  <2>1. rows'[s].revoked
    BY <1>2, <1>3 DEF Row
  <2>2. rows'[s].family = rows[s].family /\ rows'[s].consumed = rows[s].consumed
    <3>1. rows[s] \in Row /\ rows'[s] = [rows[s] EXCEPT !.revoked = TRUE]
      BY <1>2, <1>3
    <3>2. QED
      BY <3>1, MarkFields, ZenonT(30)
  <2>3. rows'[s] # NoRow
    BY <1>3, CommitRows
  <2>4. Issued(s) /\ Issued(s)'
    BY <1>2, <1>3, <2>3 DEF Issued
  <2>5. QED
    BY <2>1, <2>2, <2>4
<1>4. \A s \in Session : draft[r][s] = NoRow => rows'[s] = rows[s]
  BY CommitRows
<1>5. ASSUME NEW g \in Family PROVE Current(g)' = Current(g)
  <2>1. ASSUME NEW s \in Session
        PROVE  (InFamily(s, g) /\ ~rows[s].consumed) <=> (InFamily(s, g)' /\ ~rows'[s].consumed)
    BY <1>3, <1>4 DEF InFamily, Issued
  <2>2. QED
    BY <2>1, SameFamilySameCurrent
<1>6. UNCHANGED {s \in Session : Issued(s)}
  BY <1>3, <1>4 DEF Issued
<1>7. {s \in Session : Issued(s) /\ rows[s].revoked}'
        = {s \in Session : Issued(s) /\ rows[s].revoked} \cup S
  BY <1>3, <1>4 DEF Issued
<1>8. S \subseteq {s \in Session : Issued(s)}
  BY <1>3
<1>9. PICK T \in SUBSET Session : T = S
  OBVIOUS
<1>10. Families!Bar(T)
  BY <1>5, <1>6, <1>7, <1>8, <1>9 DEF Families!Bar
<1>11. QED
  BY <1>10

\* Only a commit changes the table.
LEMMA OnlyCommitWrites ==
  ASSUME [Next]_vars
  PROVE  UNCHANGED rows \/ \E r \in Request : Commit(r)
<1>1. ASSUME NEW r \in Request, Begin(r) PROVE UNCHANGED rows
  BY <1>1 DEF Begin, Login, RefreshBegin, LogoutBegin, db
<1>2. ASSUME NEW r \in Request, Step(r), ~Commit(r) PROVE UNCHANGED rows
  BY <1>2 DEF Step, RefreshUnknown, RefreshReplay, RefreshInvalid, RefreshRotate, RefreshResolve,
     LogoutFind, UpdateFamily, UpdateRow, UpdateDone, Rollback, db
<1>3. ASSUME NEW r \in Request, Rollback(r) \/ DeadlockVictim(r) PROVE UNCHANGED rows
  BY <1>3 DEF Rollback, DeadlockVictim
<1>4. ASSUME NEW u \in User, SetEnabled(u) PROVE UNCHANGED rows
  BY <1>4 DEF SetEnabled, db
<1>5. CASE Tick
  BY <1>5 DEF Tick, db
<1>6. CASE UNCHANGED vars
  BY <1>6 DEF vars, db
<1>7. QED
  BY <1>1, <1>2, <1>3, <1>4, <1>5, <1>6 DEF Next

\* Concurrent login, refresh and logout transactions take effect as the atomic
\* steps of SessionFamilies: no family forks, and no revoked credential is
\* ever rotated, for every number of requests, sessions and families.
THEOREM Refinement == Spec => RotatesAtomically
<1>1. Init => Families!Init
  BY DEF Init, Families!Init, Current, InFamily, Issued
<1>2. IInv /\ IInv' /\ [Next]_vars => [Families!Next]_(Families!vars)
  <2>1. SUFFICES ASSUME IInv, IInv', [Next]_vars
                 PROVE  [Families!Next]_(Families!vars)
    OBVIOUS
  <2>2. CASE UNCHANGED rows
    BY <2>2, SameTableStutters
  <2>3. ASSUME NEW r \in Request, Commit(r) PROVE Families!Next
    BY <2>1, <2>3, CommitLoginOpens, CommitRotatedRotates, CommitOtherBars DEF Families!Next
  <2>4. QED
    BY <2>1, <2>2, <2>3, OnlyCommitWrites
<1>3. QED
  BY <1>1, <1>2, Invariance, PTL DEF Spec, RotatesAtomically, Families!Spec

-----------------------------------------------------------------------------
(* Requests that do not overlap: MCRefreshSessions *)

\* The requests in progress; they are finitely many.
Active == {r \in Request : pc[r] # "idle"}

Alone == \A r, q \in Request : pc[r] # "idle" /\ pc[q] # "idle" => r = q

\* A family that was revoked has a row.
HistoryOK == \A f \in loggedOut \cup replayed : \E s \in Session : InFamily(s, f)

\* The family UPDATE misses no row: its snapshot has all that is not revoked
\* yet, and at its commit all have been written.
RevokesAll(r) ==
    /\ pc[r] = "updating" =>
         \A s \in Session : InFamily(s, TokenFamily(r)) => rows[s].revoked \/ s \in snap[r]
    /\ pc[r] = "commit" /\ result[r] \in {"logout", "REPLAY_REVOKED"} =>
         \A s \in Session : InFamily(s, TokenFamily(r)) => rows[s].revoked \/ draft[r][s] # NoRow

\* Every row of a family that was revoked is revoked.
DeadOK == \A s \in Session : Issued(s) /\ rows[s].family \in loggedOut \cup replayed => rows[s].revoked

\* The inductive invariant of requests that may or may not have overlapped.
SequentialIInv ==
    /\ IsFiniteSet(Active)
    /\ HistoryOK
    /\ ~overlapped => Alone /\ DeadOK /\ \A r \in Request : RevokesAll(r)

\* A step is one of a request, or leaves the requests and the table alone.
LEMMA StepOf ==
  ASSUME [Next]_vars
  PROVE  \/ UNCHANGED <<rows, lock, pc, token, snap, draft, result, loggedOut, replayed>>
         \/ \E r \in Request : Begin(r) \/ Step(r) \/ Rollback(r)
<1>1. ASSUME NEW u \in User, SetEnabled(u)
      PROVE  UNCHANGED <<rows, lock, pc, token, snap, draft, result, loggedOut, replayed>>
  BY <1>1 DEF SetEnabled, db, request, history
<1>2. CASE Tick
  BY <1>2 DEF Tick, db, request, history
<1>3. CASE UNCHANGED vars
  BY <1>3 DEF vars, db, request, history
<1>4. QED
  BY <1>1, <1>2, <1>3 DEF Next, DeadlockVictim

\* A request is in progress before or after its step, and moves no other.
LEMMA OwnPc ==
  ASSUME TypeOK, NEW r \in Request, Begin(r) \/ Step(r) \/ Rollback(r)
  PROVE  /\ \A q \in Request : q # r => pc'[q] = pc[q]
         /\ pc[r] # "idle" \/ pc'[r] # "idle"
<1>1. \A v : pc' = [pc EXCEPT ![r] = v] => /\ \A q \in Request : q # r => pc'[q] = pc[q]
                                           /\ pc'[r] = v
  BY DEF TypeOK
<1>2. CASE Begin(r)
  <2>1. PICK v \in {"commit", "select", "find"} : pc' = [pc EXCEPT ![r] = v]
    BY <1>2 DEF Begin, Login, RefreshBegin, LogoutBegin
  <2>2. QED
    BY <1>1, <2>1
<1>3. CASE Rollback(r) \/ Commit(r)
  <2>1. pc' = [pc EXCEPT ![r] = "idle"] /\ pc[r] # "idle"
    BY <1>3 DEF Rollback, Commit, Close
  <2>2. QED
    BY <1>1, <2>1
<1>4. CASE \E s \in Session : UpdateRow(r, s)
  BY <1>4 DEF UpdateRow
<1>5. CASE Step(r) /\ ~Commit(r) /\ ~Rollback(r) /\ ~\E s \in Session : UpdateRow(r, s)
  <2>1. pc[r] # "idle" /\ \E v : pc' = [pc EXCEPT ![r] = v]
    BY <1>5 DEF Step, RefreshUnknown, RefreshReplay, RefreshInvalid, RefreshRotate, RefreshResolve,
       SelectForUpdate, LogoutFind, UpdateFamily, UpdateDone
  <2>2. QED
    BY <1>1, <2>1
<1>6. QED
  BY <1>2, <1>3, <1>4, <1>5

\* Every step adds at most one request in progress.
LEMMA ActiveFinite ==
  ASSUME TypeOK, [Next]_vars, IsFiniteSet(Active)
  PROVE  IsFiniteSet(Active')
<1>1. CASE UNCHANGED pc
  BY <1>1 DEF Active
<1>2. ASSUME NEW r \in Request, Begin(r) \/ Step(r) \/ Rollback(r) PROVE IsFiniteSet(Active')
  <2>1. Active' \subseteq Active \cup {r}
    BY <1>2, OwnPc DEF Active
  <2>2. IsFiniteSet(Active \cup {r})
    BY FS_AddElement
  <2>3. QED
    BY <2>1, <2>2, FS_Subset
<1>3. QED
  BY <1>1, <1>2, StepOf

\* A set of cardinality at most one has at most one element.
LEMMA AtMostOne ==
  ASSUME NEW S, IsFiniteSet(S), ~(Cardinality(S) > 1), NEW r \in S, NEW q \in S
  PROVE  r = q
<1>1. Cardinality(S) \in Nat
  BY FS_CardinalityType
<1>2. SUFFICES ASSUME r # q PROVE FALSE
  OBVIOUS
<1>3. IsFiniteSet({r}) /\ Cardinality({r}) = 1 /\ q \notin {r} /\ {r} \cup {q} \subseteq S
  BY <1>2, FS_Singleton
<1>4. Cardinality({r} \cup {q}) = Cardinality({r}) + 1
  BY <1>3, FS_AddElement
<1>5. Cardinality({r} \cup {q}) <= Cardinality(S)
  BY <1>3, FS_Subset
<1>6. QED
  BY <1>1, <1>3, <1>4, <1>5

\* Two different requests in progress are an overlap.
LEMMA NextAlone ==
  ASSUME IsFiniteSet(Active'), ~Overlap'
  PROVE  Alone'
<1>1. ~(Cardinality(Active') > 1)
  BY DEF Overlap, Active
<1>2. ASSUME NEW r \in Request, NEW q \in Request, pc'[r] # "idle", pc'[q] # "idle" PROVE r = q
  <2>1. r \in Active' /\ q \in Active'
    BY <1>2 DEF Active
  <2>2. QED
    BY <1>1, <2>1, AtMostOne
<1>3. QED
  BY <1>2 DEF Alone

\* Only a commit revokes, and only a family UPDATE that has a row.
LEMMA OnlyCommitRevokes ==
  ASSUME [Next]_vars
  PROVE  UNCHANGED <<rows, loggedOut, replayed>> \/ \E r \in Request : Commit(r)
<1>1. ASSUME NEW r \in Request, Begin(r) PROVE UNCHANGED <<rows, loggedOut, replayed>>
  BY <1>1 DEF Begin, Login, RefreshBegin, LogoutBegin, db, history
<1>2. ASSUME NEW r \in Request, Step(r), ~Commit(r) PROVE UNCHANGED <<rows, loggedOut, replayed>>
  BY <1>2 DEF Step, RefreshUnknown, RefreshReplay, RefreshInvalid, RefreshRotate, RefreshResolve,
     LogoutFind, UpdateFamily, UpdateRow, UpdateDone, Rollback, db, history
<1>3. ASSUME NEW r \in Request, Rollback(r) PROVE UNCHANGED <<rows, loggedOut, replayed>>
  BY <1>3 DEF Rollback, history
<1>4. QED
  BY <1>1, <1>2, <1>3, StepOf

\* Rows stay in their families.
LEMMA CommitHistory ==
  ASSUME IInv, HistoryOK, NEW r \in Request, Commit(r)
  PROVE  HistoryOK'
<1>1. ASSUME NEW s \in Session, NEW f, InFamily(s, f) PROVE InFamily(s, f)'
  BY <1>1, CommitRows DEF InFamily
<1>2. result[r] \in {"logout", "REPLAY_REVOKED"} => \E s \in Session : InFamily(s, TokenFamily(r))
  BY DEF IInv, DraftOK, Revoking, TokenFamily, InFamily
<1>3. \A f \in loggedOut' \cup replayed' :
         f \in loggedOut \cup replayed \/ (f = TokenFamily(r) /\ result[r] \in {"logout", "REPLAY_REVOKED"})
  BY DEF Commit
<1>4. QED
  BY <1>1, <1>2, <1>3 DEF HistoryOK

\* No commit brings a credential to a family that was revoked: a login has a
\* family of its own, a rotation has found its credential alive, and the
\* family UPDATE has written every row.
LEMMA CommitDead ==
  ASSUME IInv, HistoryOK, DeadOK, NEW r \in Request, RevokesAll(r), Commit(r)
  PROVE  DeadOK'
<1>0. DraftOK(r) /\ MintedOK /\ result[r] \in Result /\ TypeOK
  BY DEF IInv, TypeOK
<1>1. SUFFICES ASSUME NEW s \in Session, Issued(s)', rows'[s].family \in loggedOut' \cup replayed'
               PROVE  rows'[s].revoked
  BY DEF DeadOK
<1>2. rows'[s] = IF draft[r][s] # NoRow THEN draft[r][s] ELSE rows[s]
  BY CommitRows
<1>3. CASE result[r] \notin {"logout", "REPLAY_REVOKED"}
  <2>1. rows'[s].family \in loggedOut \cup replayed
    BY <1>1, <1>3 DEF Commit
  <2>2. draft[r][s] = NoRow
    <3>1. SUFFICES ASSUME draft[r][s] # NoRow PROVE FALSE
      OBVIOUS
    <3>2. CASE result[r] = "login"
      <4>1. s = minted[r] /\ \A t \in Session : ~InFamily(t, draft[r][s].family)
        BY <1>0, <3>1, <3>2 DEF DraftOK, LoggingIn
      <4>2. QED
        BY <1>2, <2>1, <3>1, <4>1 DEF HistoryOK
    <3>3. CASE result[r] = "ROTATED"
      <4>1. /\ token[r] \in Session /\ Issued(token[r]) /\ ~rows[token[r]].revoked
            /\ draft[r][s].family = rows[token[r]].family
        <5>1. Rotating(r) /\ s \in {token[r], minted[r]}
          BY <1>0, <3>1, <3>3 DEF DraftOK, Rotating
        <5>2. rows[token[r]] \in Row
          BY <1>0, <5>1, RowTypes DEF Rotating
        <5>3. QED
          BY <5>1, <5>2, MarkFields DEF Rotating
      <4>2. QED
        BY <1>2, <2>1, <3>1, <4>1 DEF DeadOK
    <3>4. QED
      BY <1>0, <1>3, <3>1, <3>2, <3>3 DEF DraftOK, Clean, Result
  <2>3. QED
    BY <1>1, <1>2, <2>1, <2>2 DEF DeadOK, Issued
<1>4. CASE result[r] \in {"logout", "REPLAY_REVOKED"}
  <2>1. CASE draft[r][s] # NoRow
    <3>1. draft[r][s] = [rows[s] EXCEPT !.revoked = TRUE] /\ rows[s] \in Row
      BY <1>0, <1>4, <2>1, RowTypes DEF DraftOK, Revoking
    <3>2. draft[r][s].revoked
      BY <3>1 DEF Row
    <3>3. QED
      BY <1>2, <2>1, <3>2
  <2>2. CASE draft[r][s] = NoRow
    <3>1. rows'[s] = rows[s] /\ Issued(s)
      BY <1>1, <1>2, <2>2 DEF Issued
    <3>2. rows[s].family \in loggedOut \cup replayed \/ rows[s].family = TokenFamily(r)
      BY <1>1, <3>1 DEF Commit
    <3>3. CASE rows[s].family \in loggedOut \cup replayed
      BY <3>1, <3>3 DEF DeadOK
    <3>4. CASE rows[s].family = TokenFamily(r)
      BY <1>4, <2>2, <3>1, <3>4 DEF RevokesAll, Commit, InFamily
    <3>5. QED
      BY <3>2, <3>3, <3>4
  <2>3. QED
    BY <2>1, <2>2
<1>5. QED
  BY <1>3, <1>4

\* A request that is alone takes its snapshot and writes all of it.
LEMMA OwnRevokesAll ==
  ASSUME IInv, NEW r \in Request, RevokesAll(r), Begin(r) \/ Step(r) \/ Rollback(r)
  PROVE  RevokesAll(r)'
<1>0. TypeOK /\ PhaseOK(r)
  BY DEF IInv
<1>1. CASE UpdateFamily(r)
  <2>1. /\ pc'[r] = "updating" /\ UNCHANGED <<rows, token>>
        /\ snap'[r] = {s \in Session : InFamily(s, TokenFamily(r)) /\ ~rows[s].revoked}
    BY <1>0, <1>1 DEF UpdateFamily, TypeOK, db
  <2>2. QED
    BY <2>1 DEF RevokesAll, InFamily, Issued, TokenFamily
<1>2. CASE \E s \in Session : UpdateRow(r, s)
  <2>1. /\ pc'[r] = "updating" /\ pc[r] = "updating" /\ UNCHANGED <<rows, token, snap>>
    BY <1>2 DEF UpdateRow
  <2>2. QED
    BY <2>1 DEF RevokesAll, InFamily, Issued, TokenFamily
<1>3. CASE UpdateDone(r)
  <2>1. /\ pc[r] = "updating" /\ pc'[r] = "commit" /\ UNCHANGED <<rows, token, snap, draft, result>>
        /\ \A s \in Session : s \in snap[r] => rows[s].revoked \/ draft[r][s] # NoRow
    BY <1>0, <1>3 DEF UpdateDone, Unfinished, TypeOK, db, request
  <2>2. QED
    BY <2>1 DEF RevokesAll, InFamily, Issued, TokenFamily
<1>4. CASE Commit(r) \/ Rollback(r)
  <2>1. pc'[r] = "idle"
    BY <1>0, <1>4 DEF Commit, Rollback, Close, TypeOK
  <2>2. QED
    BY <2>1 DEF RevokesAll
<1>5. CASE RefreshUnknown(r) \/ RefreshInvalid(r)
  <2>1. pc'[r] = "commit" /\ result'[r] = "INVALID"
    BY <1>0, <1>5 DEF RefreshUnknown, RefreshInvalid, TypeOK
  <2>2. QED
    BY <2>1 DEF RevokesAll
<1>6. CASE RefreshReplay(r) \/ RefreshRotate(r)
  <2>1. pc'[r] \in {"update", "resolve"}
    BY <1>0, <1>6 DEF RefreshReplay, RefreshRotate, TypeOK
  <2>2. QED
    BY <2>1 DEF RevokesAll
<1>7. CASE RefreshResolve(r) /\ ~Rollback(r)
  <2>1. pc'[r] = "commit" /\ result'[r] = "ROTATED"
    BY <1>0, <1>7 DEF RefreshResolve, PhaseOK, request, TypeOK
  <2>2. QED
    BY <2>1 DEF RevokesAll
<1>8. CASE LogoutFind(r)
  <2>1. pc'[r] = "update" \/ (pc'[r] = "commit" /\ result'[r] = "none")
    BY <1>0, <1>8 DEF LogoutFind, PhaseOK, TypeOK
  <2>2. QED
    BY <2>1 DEF RevokesAll
<1>9. CASE Begin(r)
  <2>1. pc'[r] \in {"select", "find"} \/ (pc'[r] = "commit" /\ result'[r] = "login")
    BY <1>0, <1>9 DEF Begin, Login, RefreshBegin, LogoutBegin, TypeOK
  <2>2. QED
    BY <2>1 DEF RevokesAll
<1>10. QED
  BY <1>1, <1>2, <1>3, <1>4, <1>5, <1>6, <1>7, <1>8, <1>9 DEF Step

LEMMA NextSequentialIInv ==
  ASSUME IInv, SequentialIInv, [MCNext]_<<vars, overlapped>>
  PROVE  SequentialIInv'
<1>0. TypeOK /\ [Next]_vars
  BY DEF IInv, MCNext
<1>1. IsFiniteSet(Active')
  BY <1>0, ActiveFinite DEF SequentialIInv
<1>2. HistoryOK'
  <2>1. CASE UNCHANGED <<rows, loggedOut, replayed>>
    BY <2>1 DEF SequentialIInv, HistoryOK, InFamily, Issued
  <2>2. QED
    BY <1>0, <2>1, OnlyCommitRevokes, CommitHistory DEF SequentialIInv
<1>3. ASSUME ~overlapped'
      PROVE  Alone' /\ DeadOK' /\ \A r \in Request : RevokesAll(r)'
  <2>1. ~overlapped /\ Alone /\ DeadOK /\ HistoryOK /\ \A r \in Request : RevokesAll(r)
    <3>1. CASE UNCHANGED <<vars, overlapped>>
      BY <1>3, <3>1 DEF SequentialIInv
    <3>2. CASE overlapped' = (overlapped \/ Overlap')
      <4>1. ~overlapped
        BY <1>3, <3>2, Zenon
      <4>2. QED
        BY <4>1 DEF SequentialIInv
    <3>3. QED
      BY <3>1, <3>2 DEF MCNext
  <2>2. Alone'
    <3>1. CASE UNCHANGED <<vars, overlapped>>
      BY <2>1, <3>1 DEF Alone, vars
    <3>2. CASE MCNext
      <4>1. ~Overlap'
        BY <1>3, <3>2 DEF MCNext
      <4>2. QED
        BY <1>1, <4>1, NextAlone
    <3>3. QED
      BY <3>1, <3>2
  <2>3. DeadOK'
    <3>1. CASE UNCHANGED <<rows, loggedOut, replayed>>
      BY <2>1, <3>1 DEF DeadOK, Issued
    <3>2. QED
      BY <1>0, <2>1, <3>1, OnlyCommitRevokes, CommitDead
  <2>4. ASSUME NEW q \in Request PROVE RevokesAll(q)'
    <3>1. CASE UNCHANGED <<rows, lock, pc, token, snap, draft, result, loggedOut, replayed>>
      BY <2>1, <3>1 DEF RevokesAll, InFamily, Issued, TokenFamily
    <3>2. ASSUME NEW r \in Request, Begin(r) \/ Step(r) \/ Rollback(r) PROVE RevokesAll(q)'
      <4>1. CASE q = r
        BY <2>1, <3>2, <4>1, OwnRevokesAll
      <4>2. CASE q # r
        <5>1. pc'[q] = pc[q] /\ (pc[r] # "idle" \/ pc'[r] # "idle")
          BY <1>0, <3>2, <4>2, OwnPc
        <5>2. pc'[q] = "idle"
          BY <2>1, <2>2, <4>2, <5>1 DEF Alone
        <5>3. QED
          BY <5>2 DEF RevokesAll
      <4>3. QED
        BY <4>1, <4>2
    <3>3. QED
      BY <1>0, <3>1, <3>2, StepOf
  <2>5. QED
    BY <2>2, <2>3, <2>4
<1>4. QED
  BY <1>1, <1>2, <1>3 DEF SequentialIInv

\* Both invariants hold in every state.  The second one is empty once requests
\* have overlapped: it is what the row locks alone do not give.
THEOREM SequentialInvariance == MCSpec => [](IInv /\ SequentialIInv)
<1>1. MCInit => IInv /\ SequentialIInv
  <2> SUFFICES ASSUME MCInit PROVE IInv /\ SequentialIInv
    OBVIOUS
  <2>1. IInv
    BY InitIInv DEF MCInit
  <2>2. Active = {} /\ Alone
    BY DEF MCInit, Init, Active, Alone
  <2>3. IsFiniteSet(Active)
    BY <2>2, FS_EmptySet
  <2>4. HistoryOK /\ DeadOK /\ \A r \in Request : RevokesAll(r)
    BY DEF MCInit, Init, HistoryOK, DeadOK, RevokesAll, Issued
  <2>5. QED
    BY <2>1, <2>2, <2>3, <2>4 DEF SequentialIInv
<1>2. IInv /\ SequentialIInv /\ [MCNext]_<<vars, overlapped>> => (IInv /\ SequentialIInv)'
  <2> SUFFICES ASSUME IInv, SequentialIInv, [MCNext]_<<vars, overlapped>> PROVE (IInv /\ SequentialIInv)'
    OBVIOUS
  <2>1. [Next]_vars
    BY DEF MCNext
  <2>2. QED
    BY <2>1, NextIInv, NextSequentialIInv
<1>3. QED
  BY <1>1, <1>2, PTL DEF MCSpec

\* As long as requests do not overlap, every credential of a family is dead
\* after its logout or the answer to a replay, for any number of requests
\* before and after (revoke_refresh_family_by_digest, rotate_refresh_session).
THEOREM RevocationsEndFamilies == MCSpec => []RevocationEndsFamily
<1>1. IInv /\ SequentialIInv => RevocationEndsFamily
  BY DEF SequentialIInv, DeadOK, RevocationEndsFamily, LoggedOutFamilyIsDead, ReplayedFamilyIsDead, IsActive
<1>2. QED
  BY <1>1, SequentialInvariance, PTL
=============================================================================

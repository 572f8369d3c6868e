-------------------------- MODULE TokenSessionProofs --------------------------
(***************************************************************************)
(* What holds of TokenSession for all users, handlers and lifetimes.       *)
(***************************************************************************)
EXTENDS TokenSession, TLAPS

-----------------------------------------------------------------------------
(***************************************************************************)
(* The inductive invariant.  A family is named by a uuid drawn before, so  *)
(* a new login cannot meet an old family.  While a password change or a    *)
(* deletion is open, each session it will not revoke and each call under   *)
(* way carries the mark late.                                              *)
(***************************************************************************)
FamiliesDrawn ==
  /\ \A s \in sessions : s.family <= drawn
  /\ \A h \in Handlers : pc[h] # "idle" => call[h].family <= drawn

SessionsMarked ==
  \A s \in sessions :
     Active(s) /\ closing[s.user] # "no" => s.id \in locked[s.user] \/ s.late

CallsMarked ==
  \A h \in Handlers :
     pc[h] # "idle" /\ (closing[call[h].user] # "no" \/ Outdated(call[h])) => call[h].late

TokenInv ==
  /\ TypeOK
  /\ FamiliesDrawn
  /\ OneTokenPerFamily
  /\ SessionsMarked
  /\ CallsMarked
  /\ OnlyLateSessionsAreOutdated

-----------------------------------------------------------------------------
(***************************************************************************)
(* Every step keeps the types.                                             *)
(***************************************************************************)
LEMMA NewCallType ==
  ASSUME TypeOK, NEW h \in Handlers, NEW step \in {"find", "generate"}, NEW c \in Call,
         Goto(h, step), call' = [call EXCEPT ![h] = c]
  PROVE  /\ pc' \in [Handlers -> HandlerStates]
         /\ call' \in [Handlers -> Call \union {NoCall}]
         /\ \A g \in Handlers : pc'[g] # "idle" => call'[g] \in Call
BY DEF TypeOK, Goto, HandlerStates

LEMMA ReturnType ==
  ASSUME TypeOK, NEW h \in Handlers, Return(h)
  PROVE  /\ pc' \in [Handlers -> HandlerStates]
         /\ call' \in [Handlers -> Call \union {NoCall}]
         /\ \A g \in Handlers : pc'[g] # "idle" => call'[g] \in Call
BY DEF TypeOK, Return, Goto, HandlerStates

\* A login's call, by register, create_guest or login.
LEMMA BeginType ==
  ASSUME TypeOK, NEW h \in Handlers, NEW u \in Users, Begin(h, u)
  PROVE  /\ pc' \in [Handlers -> HandlerStates]
         /\ call' \in [Handlers -> Call \union {NoCall}]
         /\ \A g \in Handlers : pc'[g] # "idle" => call'[g] \in Call
<1>1. [user |-> u, family |-> NewFamily, opened |-> password[u], late |-> closing[u] # "no"]
        \in Call
  BY DEF TypeOK, Call
<1>2. QED
  BY <1>1, NewCallType DEF Begin

LEMMA Typing == TypeOK /\ [Next]_vars => TypeOK'
<1> SUFFICES ASSUME TypeOK, [Next]_vars PROVE TypeOK'
  OBVIOUS
<1> USE TokenSessionAssumption
<1>1. ASSUME NEW h \in Handlers, NEW u \in Users, CreateAccount(h, u)
      PROVE  TypeOK'
  BY <1>1, BeginType DEF CreateAccount, TypeOK
<1>2. ASSUME NEW h \in Handlers, NEW u \in Users, Login(h, u)
      PROVE  TypeOK'
  BY <1>2, BeginType DEF Login, TypeOK, accounts
<1>3. ASSUME NEW h \in Handlers, NEW s \in sessions, ConsumeRefreshToken(h, s)
      PROVE  TypeOK'
  <2>1. s \in Row
    BY DEF TypeOK
  <2>2. [user |-> s.user, family |-> s.family, opened |-> s.opened, late |-> s.late] \in Call
    BY <2>1 DEF Row, Call
  <2>3. revoked' \subseteq Uuid
    BY <1>3, <2>1 DEF ConsumeRefreshToken, TypeOK, Row
  <2>4. /\ pc' \in [Handlers -> HandlerStates]
        /\ call' \in [Handlers -> Call \union {NoCall}]
        /\ \A g \in Handlers : pc'[g] # "idle" => call'[g] \in Call
    BY <1>3, <2>2, NewCallType DEF ConsumeRefreshToken
  <2>5. QED
    BY <1>3, <2>3, <2>4 DEF ConsumeRefreshToken, TypeOK, accounts
<1>4. ASSUME NEW h \in Handlers, FindUser(h)
      PROVE  TypeOK'
  BY <1>4 DEF FindUser, Goto, TypeOK, HandlerStates, accounts
<1>5. ASSUME NEW h \in Handlers, RejectDeleted(h) \/ Abort(h)
      PROVE  TypeOK'
  BY <1>5, ReturnType DEF RejectDeleted, Abort, TypeOK, accounts
<1>6. ASSUME NEW h \in Handlers, GenerateTokens(h)
      PROVE  TypeOK'
  <2> DEFINE c == call[h]
             n == [id |-> drawn + 2, jti |-> drawn + 1, user |-> c.user,
                   expires |-> now + RefreshLife,
                   family |-> IF c.family = NewFamily THEN drawn + 1 ELSE c.family,
                   opened |-> c.opened, late |-> c.late]
  <2>1. c \in Call
    BY <1>6 DEF GenerateTokens, TypeOK
  <2>2. drawn + 2 \in Uuid /\ drawn + 1 \in Uuid
    BY <1>6 DEF GenerateTokens, TypeOK, Uuid
  <2>3. now + RefreshLife \in 0..(EndOfTime + RefreshLife)
    BY DEF TypeOK
  <2>4. n \in Row
    BY <2>1, <2>2, <2>3 DEF Row, Call
  <2>5. sessions' = sessions \union {n} /\ drawn' = drawn + 2 /\ Return(h)
    BY <1>6 DEF GenerateTokens
  <2>6. sessions' \subseteq Row /\ drawn' \in 0..MaxUuids
    BY <1>6, <2>2, <2>4, <2>5 DEF TypeOK, Uuid
  <2>7. QED
    BY <1>6, <2>5, <2>6, ReturnType DEF GenerateTokens, TypeOK, accounts
<1>7. ASSUME NEW s \in sessions, Logout(s)
      PROVE  TypeOK'
  BY <1>7 DEF Logout, TypeOK, Row, accounts
<1>8. ASSUME NEW s \in sessions, RevokeSession(s)
      PROVE  TypeOK'
  BY <1>8 DEF RevokeSession, TypeOK, Row, accounts
<1>9. ASSUME NEW u \in Users, LogoutAll(u)
      PROVE  TypeOK'
  BY <1>9 DEF LogoutAll, SessionsOf, TypeOK, Row, accounts
<1>10. ASSUME NEW u \in Users, NEW why \in {"password", "deletion"}, RevokeUserSessions(u, why)
       PROVE  TypeOK'
  <2>1. locked' \in [Users -> SUBSET Uuid]
    BY <1>10 DEF RevokeUserSessions, SessionsOf, TypeOK, Row
  <2>2. closing' \in [Users -> {"no", "password", "deletion"}]
    BY <1>10 DEF RevokeUserSessions, TypeOK
  <2>3. \A c \in Call : [c EXCEPT !.late = TRUE] \in Call
    BY DEF Call
  <2>4. /\ call' \in [Handlers -> Call \union {NoCall}]
        /\ \A h \in Handlers : pc'[h] # "idle" => call'[h] \in Call
    BY <1>10, <2>3 DEF RevokeUserSessions, TypeOK
  <2>5. QED
    BY <1>10, <2>1, <2>2, <2>4 DEF RevokeUserSessions, TypeOK
<1>11. ASSUME NEW u \in Users, Commit(u)
       PROVE  TypeOK'
  BY <1>11 DEF Commit, EndTx, TypeOK
<1>12. ASSUME NEW u \in Users, Rollback(u)
       PROVE  TypeOK'
  BY <1>12 DEF Rollback, EndTx, TypeOK
<1>13. ASSUME NEW u \in Users, NEW status \in {"active", "suspended"}, UpdateUserStatus(u, status)
       PROVE  TypeOK'
  BY <1>13 DEF UpdateUserStatus, TypeOK
<1>14. CASE CleanUp
  BY <1>14 DEF CleanUp, TypeOK, accounts
<1>15. CASE Tick
  BY <1>15 DEF Tick, TypeOK, accounts
<1>16. CASE UNCHANGED vars
  BY <1>16 DEF vars, TypeOK
<1>17. QED
  BY <1>1, <1>2, <1>3, <1>4, <1>5, <1>6, <1>7, <1>8, <1>9, <1>10, <1>11, <1>12, <1>13,
     <1>14, <1>15, <1>16 DEF Next, UpdatePassword, SoftDelete

LEMMA InitTyping == Init => TypeOK
BY TokenSessionAssumption DEF Init, TypeOK, HandlerStates

(***************************************************************************)
(* Every reachable state is well typed: tokens name drawn uuids and users  *)
(* the service knows, and no row outlives the clock's bound by more than a *)
(* refresh token's life (session_repository.rs, create).                   *)
(***************************************************************************)
THEOREM TokenTypeCorrect == Spec => []TypeOK
<1>1. QED
  BY InitTyping, Typing, PTL DEF Spec

-----------------------------------------------------------------------------
(***************************************************************************)
(* Every step keeps the inductive invariant.                               *)
(***************************************************************************)
LEMMA ConsumeKeeps ==
  ASSUME TokenInv, TypeOK', NEW h \in Handlers, NEW s \in sessions, ConsumeRefreshToken(h, s)
  PROVE  TokenInv'
<1> USE DEF TokenInv
<1>1. s \in Row /\ pc[h] = "idle" /\ Active(s) /\ s.id \notin locked[s.user]
  BY DEF ConsumeRefreshToken, Usable, TypeOK
<1>2. /\ UNCHANGED <<account, password, closing, locked, sessions, drawn>>
      /\ revoked' = revoked \union {s.id}
  BY DEF ConsumeRefreshToken, accounts
<1>3. /\ pc'[h] # "idle"
      /\ call'[h].user = s.user /\ call'[h].family = s.family
      /\ call'[h].opened = s.opened /\ call'[h].late = s.late
  BY DEF ConsumeRefreshToken, Goto, TypeOK
<1>4. \A g \in Handlers : g # h => pc'[g] = pc[g] /\ call'[g] = call[g]
  BY DEF ConsumeRefreshToken, Goto, TypeOK
<1>5. FamiliesDrawn'
  BY <1>1, <1>2, <1>3, <1>4 DEF FamiliesDrawn
<1>6. OneTokenPerFamily'
  <2>1. \A r \in sessions : Active(r)' => Active(r) /\ r.id # s.id
    BY <1>2 DEF Active
  <2>2. \A g \in Handlers, f \in Uuid :
          Rotating(g, f)' => (g = h /\ f = s.family) \/ (g # h /\ Rotating(g, f))
    <3> SUFFICES ASSUME NEW g \in Handlers, NEW f \in Uuid, Rotating(g, f)'
                 PROVE  (g = h /\ f = s.family) \/ (g # h /\ Rotating(g, f))
      OBVIOUS
    <3>1. CASE g = h
      BY <1>3, <3>1 DEF Rotating
    <3>2. CASE g # h
      BY <1>4, <3>2 DEF Rotating
    <3>3. QED
      BY <3>1, <3>2
  <2>3. \A r, t \in sessions : Active(r)' /\ Active(t)' /\ r.family = t.family => r = t
    BY <2>1 DEF OneTokenPerFamily
  <2>4. \A r \in sessions : r.family \in Uuid
    BY DEF TypeOK, Row
  <2>5. \A r \in sessions, g \in Handlers : Active(r)' => ~Rotating(g, r.family)'
    BY <1>1, <2>1, <2>2, <2>4 DEF OneTokenPerFamily
  <2>6. ASSUME NEW f \in Uuid, NEW g \in Handlers, NEW k \in Handlers,
               Rotating(g, f)', Rotating(k, f)'
        PROVE  g = k
    <3>1. \A m \in Handlers : ~Rotating(m, s.family)
      BY <1>1 DEF OneTokenPerFamily
    <3>2. CASE f = s.family
      BY <2>2, <2>6, <3>1, <3>2
    <3>3. CASE f # s.family
      BY <2>2, <2>6, <3>3 DEF OneTokenPerFamily
    <3>4. QED
      BY <3>2, <3>3
  <2>7. QED
    BY <1>2, <2>3, <2>5, <2>6 DEF OneTokenPerFamily
<1>7. SessionsMarked'
  BY <1>2 DEF SessionsMarked, Active
<1>8. CallsMarked'
  BY <1>1, <1>2, <1>3, <1>4 DEF CallsMarked, SessionsMarked, OnlyLateSessionsAreOutdated, Outdated
<1>9. OnlyLateSessionsAreOutdated'
  BY <1>2 DEF OnlyLateSessionsAreOutdated, Active, Outdated
<1>10. QED
  BY <1>5, <1>6, <1>7, <1>8, <1>9

\* A login starts under no family, with the password it has just checked.
LEMMA BeginKeeps ==
  ASSUME TokenInv, TypeOK', NEW h \in Handlers, NEW u \in Users, Begin(h, u),
         UNCHANGED <<password, closing, locked, sessions, revoked, drawn>>,
         account[u] # "deleted", account'[u] # "deleted",
         \A v \in Users : v # u => account'[v] = account[v]
  PROVE  TokenInv'
<1> USE DEF TokenInv
<1>1. /\ pc[h] = "idle"
      /\ call'[h].user = u /\ call'[h].family = NewFamily
      /\ call'[h].opened = password[u] /\ call'[h].late = (closing[u] # "no")
  BY DEF Begin, TypeOK
<1>2. \A g \in Handlers : g # h => pc'[g] = pc[g] /\ call'[g] = call[g]
  BY DEF Begin, Goto, TypeOK
<1>3. \A g \in Handlers, f \in Uuid : Rotating(g, f)' => Rotating(g, f)
  BY <1>1, <1>2 DEF Rotating, NewFamily, Uuid
<1>4. \A s \in sessions : s.user \in Users /\ s.family \in Uuid
  BY DEF TypeOK, Row
<1>5. \A g \in Handlers : pc[g] # "idle" => call[g].user \in Users
  BY DEF TypeOK, Call
<1>6. \A x : x.user \in Users /\ Outdated(x)' => Outdated(x)
  BY DEF Outdated
<1>7. FamiliesDrawn'
  BY <1>1, <1>2 DEF FamiliesDrawn, NewFamily, TypeOK
<1>8. OneTokenPerFamily'
  BY <1>3, <1>4 DEF OneTokenPerFamily, Active
<1>9. SessionsMarked'
  BY DEF SessionsMarked, Active
<1>10. ~Outdated(call[h])'
  BY <1>1 DEF Outdated, TypeOK
<1>11. CallsMarked'
  BY <1>1, <1>2, <1>5, <1>6, <1>10 DEF CallsMarked
<1>12. OnlyLateSessionsAreOutdated'
  BY <1>4, <1>6 DEF OnlyLateSessionsAreOutdated, Active
<1>13. QED
  BY <1>7, <1>8, <1>9, <1>11, <1>12

\* A call goes on, or ends, and nothing else changes.
LEMMA CallStepKeeps ==
  ASSUME TokenInv, TypeOK',
         \A g \in Handlers : pc'[g] # "idle" => pc[g] # "idle" /\ call'[g] = call[g],
         UNCHANGED <<accounts, sessions, revoked, drawn>>
  PROVE  TokenInv'
<1> USE DEF TokenInv, accounts
<1>1. \A g \in Handlers, f \in Uuid : Rotating(g, f)' => Rotating(g, f)
  BY DEF Rotating
<1>2. \A s \in sessions : s.family \in Uuid
  BY DEF TypeOK, Row
<1>3. OneTokenPerFamily'
  BY <1>1, <1>2 DEF OneTokenPerFamily, Active
<1>4. QED
  BY <1>3 DEF FamiliesDrawn, SessionsMarked, CallsMarked, OnlyLateSessionsAreOutdated,
              Active, Outdated

LEMMA GenerateKeeps ==
  ASSUME TokenInv, TypeOK', NEW h \in Handlers, GenerateTokens(h)
  PROVE  TokenInv'
<1> USE DEF TokenInv
<1>1. /\ pc[h] # "idle" /\ drawn' = drawn + 2 /\ drawn \in Nat
      /\ UNCHANGED <<account, password, closing, locked, revoked>>
  BY DEF GenerateTokens, accounts, TypeOK
<1>2. pc'[h] = "idle" /\ \A g \in Handlers : g # h => pc'[g] = pc[g] /\ call'[g] = call[g]
  BY DEF GenerateTokens, Return, Goto, TypeOK
<1>3. PICK n \in Row :
        /\ sessions' = sessions \union {n}
        /\ n.user = call[h].user /\ n.opened = call[h].opened /\ n.late = call[h].late
        /\ n.family = IF call[h].family = NewFamily THEN drawn + 1 ELSE call[h].family
  <2> DEFINE m == [id |-> drawn + 2, jti |-> drawn + 1, user |-> call[h].user,
                   expires |-> now + RefreshLife,
                   family |-> IF call[h].family = NewFamily THEN drawn + 1 ELSE call[h].family,
                   opened |-> call[h].opened, late |-> call[h].late]
  <2>1. sessions' = sessions \union {m}
    BY DEF GenerateTokens
  <2>2. m \in Row
    BY <2>1 DEF TypeOK
  <2>3. /\ m.user = call[h].user /\ m.opened = call[h].opened /\ m.late = call[h].late
        /\ m.family = IF call[h].family = NewFamily THEN drawn + 1 ELSE call[h].family
    OBVIOUS
  <2> HIDE DEF m
  <2>4. QED
    BY <2>1, <2>2, <2>3
<1>4. /\ n.family \in Uuid /\ n.family <= drawn + 2
      /\ call[h].family # NewFamily => Rotating(h, n.family)
      /\ call[h].family = NewFamily => n.family = drawn + 1
  <2>1. call[h] \in Call /\ call[h].family <= drawn
    BY <1>1 DEF TypeOK, FamiliesDrawn
  <2>2. n.family \in Uuid
    BY DEF Row
  <2>3. QED
    BY <1>1, <1>3, <2>1, <2>2 DEF Rotating, Call, Uuid
<1>5. FamiliesDrawn'
  <2>1. \A s \in sessions : s.family \in Nat
    BY DEF TypeOK, Row, Uuid
  <2>2. \A g \in Handlers : pc[g] # "idle" => call[g].family \in Nat
    BY DEF TypeOK, Call, Uuid, NewFamily
  <2>3. QED
    BY <1>1, <1>2, <1>3, <1>4, <2>1, <2>2 DEF FamiliesDrawn
<1>6. OneTokenPerFamily'
  <2>1. \A s \in sessions : s.family \in Uuid
    BY DEF TypeOK, Row
  <2>2. \A g \in Handlers, f \in Uuid : Rotating(g, f)' => Rotating(g, f) /\ g # h
    BY <1>1, <1>2 DEF Rotating
  <2>3. \A s \in sessions : Active(s) => s.family # n.family
    <3>1. CASE call[h].family = NewFamily
      BY <1>1, <1>4, <2>1, <3>1 DEF FamiliesDrawn, Uuid
    <3>2. CASE call[h].family # NewFamily
      BY <1>4, <3>2 DEF OneTokenPerFamily
    <3>3. QED
      BY <3>1, <3>2
  <2>4. \A g \in Handlers : ~Rotating(g, n.family)'
    <3>1. CASE call[h].family = NewFamily
      <4>1. \A g \in Handlers : pc[g] # "idle" => call[g].family \in Nat
        BY DEF TypeOK, Call, Uuid, NewFamily
      <4>2. QED
        BY <1>1, <1>4, <2>2, <3>1, <4>1 DEF FamiliesDrawn, Rotating
    <3>2. CASE call[h].family # NewFamily
      BY <1>4, <2>2, <3>2 DEF OneTokenPerFamily
    <3>3. QED
      BY <3>1, <3>2
  <2>5. \A s : Active(s)' => Active(s)
    BY <1>1 DEF Active
  <2>6. \A r, s \in sessions' : Active(r)' /\ Active(s)' /\ r.family = s.family => r = s
    BY <1>3, <2>3, <2>5 DEF OneTokenPerFamily
  <2>7. \A s \in sessions', g \in Handlers : Active(s)' => ~Rotating(g, s.family)'
    BY <1>3, <2>1, <2>2, <2>4, <2>5 DEF OneTokenPerFamily
  <2>8. \A f \in Uuid, g, k \in Handlers : Rotating(g, f)' /\ Rotating(k, f)' => g = k
    BY <2>2 DEF OneTokenPerFamily
  <2>9. QED
    BY <2>6, <2>7, <2>8 DEF OneTokenPerFamily
<1>7. SessionsMarked'
  BY <1>1, <1>3 DEF SessionsMarked, CallsMarked, Active
<1>8. CallsMarked'
  BY <1>1, <1>2 DEF CallsMarked, Outdated
<1>9. OnlyLateSessionsAreOutdated'
  BY <1>1, <1>3 DEF OnlyLateSessionsAreOutdated, CallsMarked, Active, Outdated
<1>10. QED
  BY <1>5, <1>6, <1>7, <1>8, <1>9

\* Revocations, expiry and the cleanup only make fewer sessions active.
LEMMA FewerActiveKeeps ==
  ASSUME TokenInv, TypeOK', sessions' \subseteq sessions, revoked \subseteq revoked',
         UNCHANGED <<accounts, drawn, pc, call>>
  PROVE  TokenInv'
<1> USE DEF TokenInv, accounts
<1>1. \A s : Active(s)' => Active(s)
  BY DEF Active
<1>2. OneTokenPerFamily'
  BY <1>1 DEF OneTokenPerFamily, Rotating
<1>3. QED
  BY <1>1, <1>2 DEF FamiliesDrawn, SessionsMarked, CallsMarked, OnlyLateSessionsAreOutdated,
                    Outdated

\* The transaction marks every call of the user, and locks what it revokes.
LEMMA RevokeUserKeeps ==
  ASSUME TokenInv, TypeOK', NEW u \in Users, NEW why, RevokeUserSessions(u, why)
  PROVE  TokenInv'
<1> USE DEF TokenInv
<1>1. /\ UNCHANGED <<account, password, sessions, revoked, drawn, pc>>
      /\ locked'[u] = {s.id : s \in {s \in SessionsOf(u) : Active(s)}}
      /\ \A v \in Users : v # u => closing'[v] = closing[v] /\ locked'[v] = locked[v]
  BY DEF RevokeUserSessions, TypeOK
<1>2. \A h \in Handlers : pc[h] # "idle" =>
        /\ call'[h].user = call[h].user /\ call'[h].family = call[h].family
        /\ call'[h].opened = call[h].opened
        /\ call[h].late \/ call[h].user = u => call'[h].late
  <2>1. \A c \in Call : LET d == [c EXCEPT !.late = TRUE] IN
          d.user = c.user /\ d.family = c.family /\ d.opened = c.opened /\ d.late = TRUE
    BY DEF Call
  <2>2. \A h \in Handlers : pc[h] # "idle" => call[h] \in Call /\ call[h].late \in BOOLEAN
    BY DEF TypeOK, Call
  <2>3. \A h \in Handlers :
          call'[h] = IF pc[h] # "idle" /\ call[h].user = u
                     THEN [call[h] EXCEPT !.late = TRUE] ELSE call[h]
    BY DEF RevokeUserSessions
  <2>4. QED
    BY <2>1, <2>2, <2>3
<1>3. FamiliesDrawn'
  BY <1>1, <1>2 DEF FamiliesDrawn
<1>4. OneTokenPerFamily'
  <2>1. \A h \in Handlers : \A f : Rotating(h, f)' <=> Rotating(h, f)
    BY <1>1, <1>2 DEF Rotating
  <2>2. QED
    BY <1>1, <2>1 DEF OneTokenPerFamily, Active
<1>5. SessionsMarked'
  <2> SUFFICES ASSUME NEW s \in sessions, Active(s), closing'[s.user] # "no"
               PROVE  s.id \in locked'[s.user] \/ s.late
    BY <1>1 DEF SessionsMarked, Active
  <2>1. s.user \in Users
    BY DEF TypeOK, Row
  <2>2. CASE s.user = u
    BY <1>1, <2>2 DEF SessionsOf
  <2>3. CASE s.user # u
    BY <1>1, <2>1, <2>3 DEF SessionsMarked
  <2>4. QED
    BY <2>2, <2>3
<1>6. CallsMarked'
  <2>1. \A h \in Handlers : pc[h] # "idle" => call[h].user \in Users
    BY DEF TypeOK, Call
  <2>2. QED
    BY <1>1, <1>2, <2>1 DEF CallsMarked, Outdated
<1>7. OnlyLateSessionsAreOutdated'
  BY <1>1 DEF OnlyLateSessionsAreOutdated, Active, Outdated
<1>8. QED
  BY <1>3, <1>4, <1>5, <1>6, <1>7

LEMMA CommitKeeps ==
  ASSUME TokenInv, TypeOK', NEW u \in Users, Commit(u)
  PROVE  TokenInv'
<1> USE DEF TokenInv
<1>1. /\ UNCHANGED <<sessions, drawn, pc, call>>
      /\ closing[u] # "no" /\ closing'[u] = "no"
      /\ revoked' = revoked \union locked[u]
      /\ \A v \in Users : v # u => /\ closing'[v] = closing[v] /\ locked'[v] = locked[v]
                                   /\ account'[v] = account[v] /\ password'[v] = password[v]
  BY DEF Commit, EndTx, TypeOK
<1>2. \A s : Active(s)' => Active(s) /\ s.id \notin locked[u]
  BY <1>1 DEF Active
<1>3. \A x : x.user \in Users /\ x.user # u /\ Outdated(x)' => Outdated(x)
  BY <1>1 DEF Outdated
<1>4. \A s \in sessions : s.user \in Users
  BY DEF TypeOK, Row
<1>5. \A h \in Handlers : pc[h] # "idle" => call[h].user \in Users
  BY DEF TypeOK, Call
<1>6. OneTokenPerFamily'
  BY <1>1, <1>2 DEF OneTokenPerFamily, Rotating
<1>7. SessionsMarked'
  BY <1>1, <1>2, <1>4 DEF SessionsMarked
<1>8. CallsMarked'
  BY <1>1, <1>3, <1>5 DEF CallsMarked
<1>9. OnlyLateSessionsAreOutdated'
  BY <1>1, <1>2, <1>3, <1>4 DEF OnlyLateSessionsAreOutdated, SessionsMarked
<1>10. QED
  BY <1>1, <1>6, <1>7, <1>8, <1>9 DEF FamiliesDrawn

\* A rollback, or a new status: no user is deleted, no password changed.
LEMMA UserRowKeeps ==
  ASSUME TokenInv, TypeOK',
         UNCHANGED <<password, sessions, revoked, drawn, pc, call>>,
         \A v \in Users : account'[v] = "deleted" => account[v] = "deleted",
         \A v \in Users : closing'[v] # "no" =>
            closing[v] # "no" /\ locked'[v] = locked[v]
  PROVE  TokenInv'
<1> USE DEF TokenInv
<1>1. \A x : x.user \in Users /\ Outdated(x)' => Outdated(x)
  BY DEF Outdated
<1>2. \A s \in sessions : s.user \in Users
  BY DEF TypeOK, Row
<1>3. \A h \in Handlers : pc[h] # "idle" => call[h].user \in Users
  BY DEF TypeOK, Call
<1>4. OneTokenPerFamily'
  BY DEF OneTokenPerFamily, Active, Rotating
<1>5. QED
  BY <1>1, <1>2, <1>3, <1>4
     DEF FamiliesDrawn, SessionsMarked, CallsMarked, OnlyLateSessionsAreOutdated, Active

LEMMA TokenInvStep == TokenInv /\ [Next]_vars => TokenInv'
<1> SUFFICES ASSUME TokenInv, [Next]_vars PROVE TokenInv'
  OBVIOUS
<1>0. TypeOK /\ TypeOK'
  BY Typing DEF TokenInv
<1>1. ASSUME NEW h \in Handlers, NEW u \in Users, CreateAccount(h, u)
      PROVE  TokenInv'
  BY <1>0, <1>1, BeginKeeps DEF CreateAccount, TypeOK
<1>2. ASSUME NEW h \in Handlers, NEW u \in Users, Login(h, u)
      PROVE  TokenInv'
  BY <1>0, <1>2, BeginKeeps DEF Login, accounts
<1>3. ASSUME NEW h \in Handlers, NEW s \in sessions, ConsumeRefreshToken(h, s)
      PROVE  TokenInv'
  BY <1>0, <1>3, ConsumeKeeps
<1>4. ASSUME NEW h \in Handlers, FindUser(h)
      PROVE  TokenInv'
  BY <1>0, <1>4, CallStepKeeps DEF FindUser, Goto, TypeOK
<1>5. ASSUME NEW h \in Handlers, RejectDeleted(h) \/ Abort(h)
      PROVE  TokenInv'
  BY <1>0, <1>5, CallStepKeeps DEF RejectDeleted, Abort, Return, Goto, TypeOK
<1>6. ASSUME NEW h \in Handlers, GenerateTokens(h)
      PROVE  TokenInv'
  BY <1>0, <1>6, GenerateKeeps
<1>7. ASSUME NEW s \in sessions, Logout(s) \/ RevokeSession(s)
      PROVE  TokenInv'
  BY <1>0, <1>7, FewerActiveKeeps DEF Logout, RevokeSession
<1>8. ASSUME NEW u \in Users, LogoutAll(u)
      PROVE  TokenInv'
  BY <1>0, <1>8, FewerActiveKeeps DEF LogoutAll
<1>9. ASSUME NEW u \in Users, UpdatePassword(u) \/ SoftDelete(u)
      PROVE  TokenInv'
  BY <1>0, <1>9, RevokeUserKeeps DEF UpdatePassword, SoftDelete
<1>10. ASSUME NEW u \in Users, Commit(u)
       PROVE  TokenInv'
  BY <1>0, <1>10, CommitKeeps
<1>11. ASSUME NEW u \in Users, Rollback(u)
       PROVE  TokenInv'
  BY <1>0, <1>11, UserRowKeeps DEF Rollback, EndTx, TypeOK
<1>12. ASSUME NEW u \in Users, NEW status \in {"active", "suspended"}, UpdateUserStatus(u, status)
       PROVE  TokenInv'
  BY <1>0, <1>12, UserRowKeeps DEF UpdateUserStatus, TypeOK
<1>13. CASE CleanUp
  BY <1>0, <1>13, FewerActiveKeeps DEF CleanUp
<1>14. CASE Tick
  BY <1>0, <1>14, FewerActiveKeeps DEF Tick
<1>15. CASE UNCHANGED vars
  BY <1>0, <1>15, FewerActiveKeeps DEF vars, accounts
<1>16. QED
  BY <1>1, <1>2, <1>3, <1>4, <1>5, <1>6, <1>7, <1>8, <1>9, <1>10, <1>11, <1>12, <1>13,
     <1>14, <1>15 DEF Next

LEMMA TokenInvInit == Init => TokenInv
<1> SUFFICES ASSUME Init PROVE TokenInv
  OBVIOUS
<1>1. TypeOK
  BY InitTyping
<1>2. OneTokenPerFamily
  BY DEF Init, OneTokenPerFamily, Rotating
<1>3. QED
  BY <1>1, <1>2 DEF Init, TokenInv, FamiliesDrawn, SessionsMarked, CallsMarked,
                    OnlyLateSessionsAreOutdated

LEMMA TokenInvariant == Spec => []TokenInv
<1>1. QED
  BY TokenInvInit, TokenInvStep, PTL DEF Spec

(***************************************************************************)
(* A refresh token has one successor, whoever else presents it and         *)
(* whatever is revoked meanwhile (consume_refresh_token).                  *)
(***************************************************************************)
THEOREM OneToken == Spec => []OneTokenPerFamily
<1>1. TokenInv => OneTokenPerFamily
  BY DEF TokenInv
<1>2. QED
  BY <1>1, TokenInvariant, PTL

(***************************************************************************)
(* Only a login or refresh that overlaps the transaction of a password     *)
(* change or a deletion escapes it (update_password, soft_delete).         *)
(***************************************************************************)
THEOREM OnlyLate == Spec => []OnlyLateSessionsAreOutdated
<1>1. TokenInv => OnlyLateSessionsAreOutdated
  BY DEF TokenInv
<1>2. QED
  BY <1>1, TokenInvariant, PTL

-----------------------------------------------------------------------------
(***************************************************************************)
(* OverStaysOver.  A session of a family comes from the family's call, and *)
(* the family's call from a usable session of it.                          *)
(***************************************************************************)
LEMMA StaysOver ==
  ASSUME NEW f \in Uuid, Over(f),
         drawn' >= drawn, drawn \in Int, drawn' \in Int,
         \A s \in sessions' : Usable(s)' => s.family # f,
         \A h \in Handlers : ~Rotating(h, f)'
  PROVE  Over(f)'
BY DEF Over, Uuid

LEMMA OverStep ==
  ASSUME TypeOK, TypeOK', [Next]_vars, NEW f \in Uuid, Over(f)
  PROVE  Over(f)'
<1>0. /\ now \in Int /\ drawn \in Int /\ drawn' \in Int
      /\ f <= drawn
      /\ \A s \in sessions : s \in Row
      /\ \A s \in sessions : Usable(s) => s.family # f
      /\ \A h \in Handlers : ~Rotating(h, f)
  BY DEF TypeOK, Over
\* No new row, no new call: what was not usable stays so.
<1>1. ASSUME sessions' \subseteq sessions, revoked \subseteq revoked', now' >= now, now' \in Int,
             UNCHANGED drawn,
             \A h \in Handlers : Rotating(h, f)' => Rotating(h, f)
      PROVE  Over(f)'
  <2>1. \A s \in sessions' : Usable(s)' => Usable(s)
    BY <1>0, <1>1 DEF Usable, Active, Row
  <2>2. QED
    BY <1>0, <1>1, <2>1, StaysOver
<1>2. ASSUME NEW h \in Handlers, NEW u \in Users, CreateAccount(h, u) \/ Login(h, u)
      PROVE  Over(f)'
  <2>1. call'[h].family = NewFamily /\ \A g \in Handlers : g # h => pc'[g] = pc[g] /\ call'[g] = call[g]
    BY <1>2 DEF CreateAccount, Login, Begin, Goto, TypeOK
  <2>2. \A g \in Handlers : Rotating(g, f)' => Rotating(g, f)
    BY <2>1 DEF Rotating, NewFamily, Uuid
  <2>3. QED
    BY <1>0, <1>1, <1>2, <2>2 DEF CreateAccount, Login
<1>3. ASSUME NEW h \in Handlers, NEW s \in sessions, ConsumeRefreshToken(h, s)
      PROVE  Over(f)'
  <2>1. s.family # f
    BY <1>0, <1>3 DEF ConsumeRefreshToken
  <2>2. call'[h].family = s.family /\ \A g \in Handlers : g # h => pc'[g] = pc[g] /\ call'[g] = call[g]
    BY <1>3 DEF ConsumeRefreshToken, Goto, TypeOK
  <2>3. \A g \in Handlers : Rotating(g, f)' => Rotating(g, f)
    BY <2>1, <2>2 DEF Rotating
  <2>4. QED
    BY <1>0, <1>1, <1>3, <2>3 DEF ConsumeRefreshToken
<1>4. ASSUME NEW h \in Handlers, FindUser(h) \/ RejectDeleted(h) \/ Abort(h)
      PROVE  Over(f)'
  <2>1. \A g \in Handlers : Rotating(g, f)' => Rotating(g, f)
    BY <1>4 DEF FindUser, RejectDeleted, Abort, Return, Goto, Rotating, TypeOK
  <2>2. QED
    BY <1>0, <1>1, <1>4, <2>1 DEF FindUser, RejectDeleted, Abort
<1>5. ASSUME NEW h \in Handlers, GenerateTokens(h)
      PROVE  Over(f)'
  <2>1. \A g \in Handlers : Rotating(g, f)' => Rotating(g, f)
    BY <1>5 DEF GenerateTokens, Return, Goto, Rotating, TypeOK
  <2>2. pc[h] # "idle" /\ call[h].family # f
    BY <1>0, <1>5 DEF GenerateTokens, Rotating
  <2>3. \A s \in sessions' : s \in sessions \/ s.family # f
    BY <1>0, <1>5, <2>2 DEF GenerateTokens, Uuid
  <2>4. \A s \in sessions : Usable(s)' => Usable(s)
    BY <1>5 DEF GenerateTokens, Usable, Active
  <2>5. drawn' >= drawn
    BY <1>0, <1>5 DEF GenerateTokens
  <2>6. QED
    BY <1>0, <2>1, <2>3, <2>4, <2>5, StaysOver
<1>6. ASSUME NEW s \in sessions, Logout(s) \/ RevokeSession(s)
      PROVE  Over(f)'
  BY <1>0, <1>1, <1>6 DEF Logout, RevokeSession, Rotating
<1>7. ASSUME NEW u \in Users, LogoutAll(u) \/ Commit(u) \/ Rollback(u)
      PROVE  Over(f)'
  BY <1>0, <1>1, <1>7 DEF LogoutAll, Commit, Rollback, Rotating
<1>8. ASSUME NEW u \in Users, UpdatePassword(u) \/ SoftDelete(u)
      PROVE  Over(f)'
  <2>1. \A c \in Call : [c EXCEPT !.late = TRUE].family = c.family
    BY DEF Call
  <2>2. \A h \in Handlers : pc[h] # "idle" => call'[h].family = call[h].family
    <3>1. \A h \in Handlers :
            call'[h] = IF pc[h] # "idle" /\ call[h].user = u
                       THEN [call[h] EXCEPT !.late = TRUE] ELSE call[h]
      BY <1>8 DEF UpdatePassword, SoftDelete, RevokeUserSessions
    <3>2. \A h \in Handlers : pc[h] # "idle" => call[h] \in Call
      BY DEF TypeOK
    <3>3. QED
      BY <2>1, <3>1, <3>2
  <2>3. \A h \in Handlers : Rotating(h, f)' => Rotating(h, f)
    BY <1>8, <2>2 DEF UpdatePassword, SoftDelete, RevokeUserSessions, Rotating
  <2>4. QED
    BY <1>0, <1>1, <1>8, <2>3 DEF UpdatePassword, SoftDelete, RevokeUserSessions
<1>9. ASSUME NEW u \in Users, NEW status \in {"active", "suspended"}, UpdateUserStatus(u, status)
      PROVE  Over(f)'
  BY <1>0, <1>1, <1>9 DEF UpdateUserStatus, Rotating
<1>10. CASE CleanUp \/ Tick \/ UNCHANGED vars
  BY <1>0, <1>1, <1>10 DEF CleanUp, Tick, vars, Rotating
<1>11. QED
  BY <1>2, <1>3, <1>4, <1>5, <1>6, <1>7, <1>8, <1>9, <1>10 DEF Next

(***************************************************************************)
(* A family that is over stays over: no retry and no rolled-back           *)
(* revocation brings it back (refresh_token, update_password).             *)
(***************************************************************************)
THEOREM StaysOverForever == Spec => OverStaysOver
<1>1. TypeOK /\ TypeOK' /\ [Next]_vars => [\A f \in Uuid : Over(f) => Over(f)']_vars
  BY OverStep
<1>2. QED
  BY <1>1, TokenTypeCorrect, PTL DEF Spec, OverStaysOver
=============================================================================

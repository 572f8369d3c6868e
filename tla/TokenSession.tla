---------------------------- MODULE TokenSession ----------------------------
(***************************************************************************)
(* Sessions of auth_service: a login opens one, a refresh consumes its     *)
(* refresh token and opens the next, and revocations run beside them.      *)
(* login, register and create_guest, and refresh_token are chains of       *)
(* statements that commit one by one.  update_password and soft_delete are *)
(* transactions that hold the user's row and the sessions they found until *)
(* they commit; consume_refresh_token is one too, on a single row.         *)
(*                                                                         *)
(* sessions holds the rows of jwt_sessions without revoked_at; revoked     *)
(* holds the ids of the rows where it is set.  Both sides of a token are   *)
(* named by the jti in their claims.  Uuids are drawn in order, so a fresh *)
(* one is the next number.                                                 *)
(***************************************************************************)
EXTENDS Integers, FiniteSets

CONSTANTS
  Users,
  Guests,        \* users without a password
  Handlers,
  AccessLife, RefreshLife,
  Retention,     \* age past expiry from which the cleanup deletes rows
  MaxUuids,      \* bound on the uuids drawn
  MaxPassword,   \* bound on the password changes of a user
  MaxLogouts,    \* bound on the tokens logged out
  EndOfTime,     \* bound on the clock
  NoCall

ASSUME TokenSessionAssumption ==
  /\ Guests \subseteq Users
  /\ AccessLife \in Nat
  /\ RefreshLife \in Nat \ {0}
  /\ AccessLife <= RefreshLife
  /\ Retention \in Nat
  /\ MaxUuids \in Nat
  /\ MaxPassword \in Nat
  /\ MaxLogouts \in Nat
  /\ EndOfTime \in Nat

VARIABLES
  now,
  account,    \* users.status and deleted_at
  password,   \* users.password_hash: how often it was changed
  closing,    \* the transaction that holds the user's row
  locked,     \* the sessions it has found and marked revoked
  sessions, revoked,
  drawn,      \* uuids drawn so far
  loggedOut,  \* history: the jti of the tokens logout was asked for
  pc, call    \* what each handler does, and its local variables

vars == <<now, account, password, closing, locked, sessions, revoked, drawn, loggedOut, pc, call>>

accounts == <<account, password, closing, locked>>

Uuid == 1..MaxUuids
NewFamily == 0    \* a login starts a family of its own

(***************************************************************************)
(* History in a row: family is the jti of the login's first session,       *)
(* opened the password the login was checked against, and late says that a *)
(* password change or a deletion was under way together with a login or    *)
(* refresh that led to this one.                                           *)
(***************************************************************************)
Row == [id : Uuid, jti : Uuid, user : Users, expires : 0..(EndOfTime + RefreshLife),
        family : Uuid, opened : Nat, late : BOOLEAN]

Call == [user : Users, family : Uuid \union {NewFamily}, opened : Nat, late : BOOLEAN]

HandlerStates == {"idle", "find", "generate"}

Init ==
  /\ now = 0
  /\ account = [u \in Users |-> "absent"]
  /\ password = [u \in Users |-> 0]
  /\ closing = [u \in Users |-> "no"]
  /\ locked = [u \in Users |-> {}]
  /\ sessions = {}
  /\ revoked = {}
  /\ drawn = 0
  /\ loggedOut = {}
  /\ pc = [h \in Handlers |-> "idle"]
  /\ call = [h \in Handlers |-> NoCall]

Goto(h, step) == pc' = [pc EXCEPT ![h] = step]

Return(h) ==
  /\ Goto(h, "idle")
  /\ call' = [call EXCEPT ![h] = NoCall]

Active(s) == s.id \notin revoked
Usable(s) == Active(s) /\ s.expires > now

-----------------------------------------------------------------------------
\* A statement reads committed rows: the password before an open change.
Begin(h, u) ==
  /\ pc[h] = "idle"
  /\ Goto(h, "generate")
  /\ call' = [call EXCEPT ![h] = [user |-> u, family |-> NewFamily,
                                  opened |-> password[u], late |-> closing[u] # "no"]]

\* register and create_guest, up to the new row of users.
CreateAccount(h, u) ==
  /\ account[u] = "absent"
  /\ account' = [account EXCEPT ![u] = "active"]
  /\ Begin(h, u)
  /\ UNCHANGED <<now, password, closing, locked, loggedOut, sessions, revoked, drawn>>

\* login, up to its checks of the row it has read.
Login(h, u) ==
  /\ account[u] = "active"
  /\ u \notin Guests
  /\ Begin(h, u)
  /\ UNCHANGED <<now, accounts, loggedOut, sessions, revoked, drawn>>

\* Mutant: the row is read without FOR UPDATE, found unrevoked by two.
ConsumeRefreshTokenUnlocked(h, s) ==
  /\ pc[h] = "idle"
  /\ Usable(s)
  /\ s.id \notin locked[s.user]
  /\ Goto(h, "find")
  /\ call' = [call EXCEPT ![h] = [user |-> s.user, family |-> s.family,
                                  opened |-> s.opened, late |-> s.late]]
  /\ UNCHANGED <<now, accounts, loggedOut, sessions, revoked, drawn>>

\* Mutant: the query forgets revoked_at IS NULL.
ConsumeRefreshTokenAgain(h, s) ==
  /\ pc[h] = "idle"
  /\ s.expires > now
  /\ s.id \notin locked[s.user]
  /\ revoked' = revoked \union {s.id}
  /\ Goto(h, "find")
  /\ call' = [call EXCEPT ![h] = [user |-> s.user, family |-> s.family,
                                  opened |-> s.opened, late |-> s.late]]
  /\ UNCHANGED <<now, accounts, loggedOut, sessions, drawn>>

\* refresh_token, up to consume_refresh_token: the row is locked, found
\* unrevoked and revoked in one transaction.  It waits while another holds it.
ConsumeRefreshToken(h, s) ==
  /\ pc[h] = "idle"
  /\ Usable(s)
  /\ s.id \notin locked[s.user]
  /\ revoked' = revoked \union {s.id}
  /\ Goto(h, "find")
  /\ call' = [call EXCEPT ![h] = [user |-> s.user, family |-> s.family,
                                  opened |-> s.opened, late |-> s.late]]
  /\ UNCHANGED <<now, accounts, loggedOut, sessions, drawn>>

\* find_by_id does not see a deleted user; it does not look at the status.
FindUser(h) ==
  /\ pc[h] = "find"
  /\ account[call[h].user] # "deleted"
  /\ Goto(h, "generate")
  /\ UNCHANGED <<now, accounts, loggedOut, sessions, revoked, drawn, call>>

RejectDeleted(h) ==
  /\ pc[h] = "find"
  /\ account[call[h].user] = "deleted"
  /\ Return(h)
  /\ UNCHANGED <<now, accounts, loggedOut, sessions, revoked, drawn>>

\* Mutant: a login's session belongs to no family.
GenerateTokensWithoutFamily(h) ==
  LET c == call[h]
      id == drawn + 2
  IN
  /\ pc[h] = "generate"
  /\ id <= MaxUuids
  /\ drawn' = id
  /\ sessions' = sessions \union
       {[id |-> id, jti |-> drawn + 1, user |-> c.user, expires |-> now + RefreshLife,
         family |-> c.family, opened |-> c.opened, late |-> c.late]}
  /\ Return(h)
  /\ UNCHANGED <<now, accounts, loggedOut, revoked>>

\* generate_tokens: the tokens carry a fresh jti, the database draws the id.
GenerateTokens(h) ==
  LET c == call[h]
      jti == drawn + 1
      id == drawn + 2
  IN
  /\ pc[h] = "generate"
  /\ id <= MaxUuids
  /\ drawn' = id
  /\ sessions' = sessions \union
       {[id |-> id, jti |-> jti, user |-> c.user, expires |-> now + RefreshLife,
         family |-> IF c.family = NewFamily THEN jti ELSE c.family,
         opened |-> c.opened, late |-> c.late]}
  /\ Return(h)
  /\ UNCHANGED <<now, accounts, loggedOut, revoked>>

\* A statement fails, or the client hangs up: a consumed token stays consumed.
Abort(h) ==
  /\ pc[h] # "idle"
  /\ Return(h)
  /\ UNCHANGED <<now, accounts, loggedOut, sessions, revoked, drawn>>

-----------------------------------------------------------------------------
(***************************************************************************)
(* The requests of a logged-in user.  The middleware has checked the       *)
(* access token before; by the time of the statement that session may be   *)
(* gone, so none of these asks for it.                                     *)
(***************************************************************************)
AccessTokenValid(s) == now <= s.expires - RefreshLife + AccessLife

\* logout: revoke the row whose id is the token's jti.
Logout(s) ==
  /\ AccessTokenValid(s)
  /\ Cardinality(loggedOut \union {s.jti}) <= MaxLogouts
  /\ revoked' = revoked \union {r.id : r \in {r \in sessions : r.id = s.jti}}
  /\ loggedOut' = loggedOut \union {s.jti}
  /\ UNCHANGED <<now, accounts, sessions, drawn, pc, call>>

SessionsOf(u) == {s \in sessions : s.user = u}

\* If it meets locked rows it waits, and in the end they are revoked as well.
LogoutAll(u) ==
  /\ account[u] # "absent"
  /\ revoked' = revoked \union {s.id : s \in SessionsOf(u)}
  /\ UNCHANGED <<now, accounts, loggedOut, sessions, drawn, pc, call>>

\* revoke_session finds the session among the user's own active ones.
RevokeSession(s) ==
  /\ Usable(s)
  /\ revoked' = revoked \union {s.id}
  /\ UNCHANGED <<now, accounts, loggedOut, sessions, drawn, pc, call>>

(***************************************************************************)
(* The two statements of update_password and of soft_delete: the user's    *)
(* row is locked and changed, the sessions found unrevoked are locked and  *)
(* revoked.  Nobody sees either before the commit.  (For a user who is     *)
(* deleted already the first statement finds no row, and the second does   *)
(* what LogoutAll does.)                                                   *)
(***************************************************************************)
RevokeUserSessions(u, why) ==
  /\ account[u] \notin {"absent", "deleted"}
  /\ closing[u] = "no"
  /\ closing' = [closing EXCEPT ![u] = why]
  /\ locked' = [locked EXCEPT ![u] = {s.id : s \in {s \in SessionsOf(u) : Active(s)}}]
  /\ call' = [h \in Handlers |->
       IF pc[h] # "idle" /\ call[h].user = u THEN [call[h] EXCEPT !.late = TRUE] ELSE call[h]]
  /\ UNCHANGED <<now, account, password, loggedOut, sessions, revoked, drawn, pc>>

\* Guests have no password to change.
UpdatePassword(u) ==
  /\ u \notin Guests
  /\ password[u] < MaxPassword
  /\ RevokeUserSessions(u, "password")

SoftDelete(u) == RevokeUserSessions(u, "deletion")

EndTx(u) ==
  /\ closing' = [closing EXCEPT ![u] = "no"]
  /\ locked' = [locked EXCEPT ![u] = {}]

\* Mutant: the sessions are not revoked with the rest.
CommitKeepsSessions(u) ==
  /\ closing[u] # "no"
  /\ IF closing[u] = "password"
     THEN /\ password' = [password EXCEPT ![u] = @ + 1]
          /\ UNCHANGED account
     ELSE /\ account' = [account EXCEPT ![u] = "deleted"]
          /\ UNCHANGED password
  /\ EndTx(u)
  /\ UNCHANGED <<now, loggedOut, sessions, revoked, drawn, pc, call>>

Commit(u) ==
  /\ closing[u] # "no"
  /\ IF closing[u] = "password"
     THEN /\ password' = [password EXCEPT ![u] = @ + 1]
          /\ UNCHANGED account
     ELSE /\ account' = [account EXCEPT ![u] = "deleted"]
          /\ UNCHANGED password
  /\ revoked' = revoked \union locked[u]
  /\ EndTx(u)
  /\ UNCHANGED <<now, loggedOut, sessions, drawn, pc, call>>

Rollback(u) ==
  /\ closing[u] # "no"
  /\ EndTx(u)
  /\ UNCHANGED <<now, account, password, loggedOut, sessions, revoked, drawn, pc, call>>

\* update_user_status, by an administrator; it needs the user's row, and
\* leaves the sessions alone.
UpdateUserStatus(u, status) ==
  /\ account[u] \notin {"absent", "deleted"}
  /\ closing[u] = "no"
  /\ account' = [account EXCEPT ![u] = status]
  /\ UNCHANGED <<now, password, closing, locked, loggedOut, sessions, revoked, drawn, pc, call>>

-----------------------------------------------------------------------------
\* cleanup_expired.
CleanUp ==
  /\ sessions' = {s \in sessions : s.expires >= now - Retention}
  /\ UNCHANGED <<now, accounts, loggedOut, revoked, drawn, pc, call>>

Tick ==
  /\ now < EndOfTime
  /\ now' = now + 1
  /\ UNCHANGED <<accounts, loggedOut, sessions, revoked, drawn, pc, call>>

Next ==
  \/ \E h \in Handlers, u \in Users : CreateAccount(h, u) \/ Login(h, u)
  \/ \E h \in Handlers, s \in sessions : ConsumeRefreshToken(h, s)
  \/ \E h \in Handlers : FindUser(h) \/ RejectDeleted(h) \/ GenerateTokens(h) \/ Abort(h)
  \/ \E s \in sessions : Logout(s) \/ RevokeSession(s)
  \/ \E u \in Users : LogoutAll(u) \/ UpdatePassword(u) \/ SoftDelete(u) \/ Commit(u) \/ Rollback(u)
  \/ \E u \in Users, status \in {"active", "suspended"} : UpdateUserStatus(u, status)
  \/ CleanUp
  \/ Tick

Spec == Init /\ [][Next]_vars

-----------------------------------------------------------------------------
TypeOK ==
  /\ now \in 0..EndOfTime
  /\ account \in [Users -> {"absent", "active", "suspended", "deleted"}]
  /\ password \in [Users -> Nat]
  /\ closing \in [Users -> {"no", "password", "deletion"}]
  /\ locked \in [Users -> SUBSET Uuid]
  /\ sessions \subseteq Row
  /\ revoked \subseteq Uuid
  /\ drawn \in 0..MaxUuids
  /\ loggedOut \subseteq Uuid
  /\ pc \in [Handlers -> HandlerStates]
  /\ call \in [Handlers -> Call \union {NoCall}]
  /\ \A h \in Handlers : pc[h] # "idle" => call[h] \in Call

\* Handler h has consumed the family's token and not answered yet.
Rotating(h, f) == pc[h] # "idle" /\ call[h].family = f

(***************************************************************************)
(* A login leads to one token at a time: two refreshes never both get an   *)
(* answer to the same token, so a family of sessions never forks, however  *)
(* refreshes, retries, failures and revocations overlap.                   *)
(***************************************************************************)
OneTokenPerFamily ==
  /\ \A r, s \in sessions : Active(r) /\ Active(s) /\ r.family = s.family => r = s
  /\ \A s \in sessions, h \in Handlers : Active(s) => ~Rotating(h, s.family)
  /\ \A f \in Uuid, g, h \in Handlers : Rotating(g, f) /\ Rotating(h, f) => g = h

(***************************************************************************)
(* A password change and a deletion revoke every session; one that was     *)
(* opened under the old password, or belongs to a deleted user, and is     *)
(* active all the same goes back to a login or refresh that ran at the     *)
(* same time as that transaction, and to nothing else.                     *)
(***************************************************************************)
Outdated(x) == x.opened < password[x.user] \/ account[x.user] = "deleted"
OnlyLateSessionsAreOutdated ==
  \A s \in sessions : Active(s) /\ Outdated(s) => s.late

(***************************************************************************)
(* A family without a usable session and without a refresh under way is    *)
(* over for good: no retry, no rolled-back revocation and no answer on its *)
(* way revives it.                                                         *)
(***************************************************************************)
Over(f) ==
  /\ f <= drawn
  /\ \A s \in sessions : Usable(s) => s.family # f
  /\ \A h \in Handlers : ~Rotating(h, f)
OverStaysOver == [][\A f \in Uuid : Over(f) => Over(f)']_vars

(***************************************************************************)
(* "Logout (révocation de session)", says the comment of logout: the       *)
(* session whose access token was presented is revoked.  The row's id is   *)
(* drawn by the database and is not the jti of its tokens.                 *)
(***************************************************************************)
LogoutRevokes ==
  \A s \in sessions : s.jti \in loggedOut => ~Active(s)
=============================================================================

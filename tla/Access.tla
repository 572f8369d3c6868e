------------------------------- MODULE Access -------------------------------
(***************************************************************************)
(* Roles and permissions of the auth service: the tables users, roles,     *)
(* permissions, role_permissions and user_roles, and the admin routes that *)
(* change them.  A route asks the view user_effective_permissions whether  *)
(* its caller holds the right the route needs, and then runs one           *)
(* statement; nothing holds the two together.  The audit rows are left     *)
(* out, and so are the sessions (TokenSession): any account may ask.       *)
(***************************************************************************)
EXTENDS Integers, FiniteSets

CONSTANTS
  Users, Roles, Permissions,
  Handlers,       \* slots for requests under way
  SystemRoles,    \* is_system: the roles of the seed
  Manage,         \* "admin:manage:all"
  UpdateStatus,   \* "user:update:status"
  ListAll,        \* "user:list:all"
  Seed,           \* role_permissions of the seed
  Founder,        \* the account that is given a seeded role by hand
  Idle,           \* a slot without a request
  MaxTime         \* bound on the clock

Rights == {Manage, UpdateStatus, ListAll}
Never == MaxTime + 1    \* expires_at is NULL

ASSUME AccessAssumption ==
  /\ IsFiniteSet(Handlers)
  /\ SystemRoles \subseteq Roles
  /\ Rights \subseteq Permissions
  /\ Seed \subseteq SystemRoles \X Permissions
  /\ Founder \in Users
  /\ Idle \notin Users \X Rights
  /\ MaxTime \in Nat

VARIABLES
  account,       \* users: status and deleted_at
  roles,         \* ids of the roles there are
  retired,       \* ids of deleted roles; an id is never used again
  permissions,   \* ids of the permissions there are
  grants,        \* role_permissions
  expiry,        \* user_roles: expires_at, 0 without a row
  now,
  checked,       \* per slot: the caller and the right it was found to hold
  late           \* requests a caller got served since it lost Manage

tables == <<account, roles, retired, permissions, grants, expiry>>
vars == <<tables, now, checked, late>>

Init ==
  /\ account = [u \in Users |-> IF u = Founder THEN "active" ELSE "none"]
  /\ roles = SystemRoles
  /\ retired = {}
  /\ permissions = {x[2] : x \in Seed}
  /\ grants = Seed
  /\ \E r \in SystemRoles :
       expiry = [x \in Users \X Roles |-> IF x = <<Founder, r>> THEN Never ELSE 0]
  /\ now = 0
  /\ checked = [h \in Handlers |-> Idle]
  /\ late = [u \in Users |-> 0]

-----------------------------------------------------------------------------
\* The queries.  status is no part of the view: a suspended user keeps its rights.
Exists(u) == account[u] \in {"active", "suspended"}

EffectivePermissions(u) ==
  {p \in permissions :
     Exists(u) /\ \E r \in Roles : expiry[<<u, r>>] > now /\ <<r, p>> \in grants}

UserHasPermission(u, p) == p \in EffectivePermissions(u)
CheckAdminPermission(u) == UserHasPermission(u, Manage)

UserRoles(u) == {r \in roles : expiry[<<u, r>>] > now}
RolePermissions(r) == {p \in permissions : <<r, p>> \in grants}

-----------------------------------------------------------------------------
\* A request that came through auth_middleware is checked; one that is denied
\* changes nothing.
Enter(h, u, right) ==
  /\ checked[h] = Idle
  /\ checked' = [checked EXCEPT ![h] = <<u, right>>]
  /\ UNCHANGED <<tables, now>>

\* Mutant: the check of the caller is forgotten.
RequireNothing(h, u, right) == Enter(h, u, right)

Require(h, u, right) == UserHasPermission(u, right) /\ Enter(h, u, right)

Leave(h, right) ==
  /\ checked[h] # Idle
  /\ checked[h][2] = right
  /\ checked' = [checked EXCEPT ![h] = Idle]
  /\ UNCHANGED now

\* The statement fails, or the client hangs up.
Abort(h) ==
  /\ \E right \in Rights : Leave(h, right)
  /\ UNCHANGED tables

-----------------------------------------------------------------------------
\* Accounts.

\* The statement names $998 and $999 and binds two values: the route passes its
\* check and ends in a database error.
ListUsers(h) == Leave(h, ListAll) /\ UNCHANGED tables

GetUser(h) == Leave(h, Manage) /\ UNCHANGED tables

\* Mutant: WHERE does not exclude the deleted accounts.
RestoreStatus(u, status) ==
  /\ account' = [account EXCEPT ![u] = IF @ = "none" THEN @ ELSE status]
  /\ UNCHANGED <<roles, retired, permissions, grants, expiry>>

SetStatus(u, status) ==
  /\ account' = [account EXCEPT ![u] = IF Exists(u) THEN status ELSE @]
  /\ UNCHANGED <<roles, retired, permissions, grants, expiry>>

UpdateUserStatus(h, u, status) == Leave(h, UpdateStatus) /\ SetStatus(u, status)

SoftDelete(u) ==
  /\ account' = [account EXCEPT ![u] = IF Exists(u) THEN "deleted" ELSE @]
  /\ UNCHANGED <<roles, retired, permissions, grants, expiry>>

DeleteUser(h, u) == Leave(h, Manage) /\ SoftDelete(u)

\* The owner's own request.
DeleteAccount(u) ==
  /\ Exists(u)
  /\ SoftDelete(u)
  /\ UNCHANGED <<now, checked>>

\* No role is given to a new account.
Register(u) ==
  /\ account[u] = "none"
  /\ account' = [account EXCEPT ![u] = "active"]
  /\ UNCHANGED <<roles, retired, permissions, grants, expiry, now, checked>>

-----------------------------------------------------------------------------
\* Roles.
ListRoles(h) == Leave(h, Manage) /\ UNCHANGED tables
GetRole(h) == Leave(h, Manage) /\ UNCHANGED tables

InsertRole(r) ==
  /\ r \notin roles \union retired
  /\ roles' = roles \union {r}
  /\ UNCHANGED <<account, retired, permissions, grants, expiry>>

CreateRole(h, r) == Leave(h, Manage) /\ InsertRole(r)

\* Mutant: user_roles keeps the rows of the role.
DropRoleAlone(r) ==
  IF r \in roles \ SystemRoles
  THEN /\ roles' = roles \ {r}
       /\ retired' = retired \union {r}
       /\ UNCHANGED <<account, permissions, grants, expiry>>
  ELSE UNCHANGED tables

\* ON DELETE CASCADE empties role_permissions and user_roles; NotFound otherwise.
DropRole(r) ==
  IF r \in roles \ SystemRoles
  THEN /\ roles' = roles \ {r}
       /\ retired' = retired \union {r}
       /\ grants' = {x \in grants : x[1] # r}
       /\ expiry' = [x \in Users \X Roles |-> IF x[2] = r THEN 0 ELSE expiry[x]]
       /\ UNCHANGED <<account, permissions>>
  ELSE UNCHANGED tables

DeleteRole(h, r) == Leave(h, Manage) /\ DropRole(r)

-----------------------------------------------------------------------------
\* Permissions of roles.  A foreign key refuses a role or permission that is gone.
ListRolePermissions(h) == Leave(h, Manage) /\ UNCHANGED tables

AssignToRole(r, p) ==
  /\ grants' = IF r \in roles /\ p \in permissions THEN grants \union {<<r, p>>} ELSE grants
  /\ UNCHANGED <<account, roles, retired, permissions, expiry>>

AssignPermissionToRole(h, r, p) == Leave(h, Manage) /\ AssignToRole(r, p)

RemoveFromRole(r, p) ==
  /\ grants' = grants \ {<<r, p>>}
  /\ UNCHANGED <<account, roles, retired, permissions, expiry>>

RemovePermissionFromRole(h, r, p) == Leave(h, Manage) /\ RemoveFromRole(r, p)

ListPermissions(h) == Leave(h, Manage) /\ UNCHANGED tables

InsertPermission(p) ==
  /\ p \notin permissions
  /\ permissions' = permissions \union {p}
  /\ UNCHANGED <<account, roles, retired, grants, expiry>>

CreatePermission(h, p) == Leave(h, Manage) /\ InsertPermission(p)

-----------------------------------------------------------------------------
\* Roles of users.
ListUserRoles(h) == Leave(h, Manage) /\ UNCHANGED tables

\* The upsert puts the new expiry in the place of the old one.  The foreign key
\* is content with a deleted account: its row is still there.
AssignToUser(u, r, until) ==
  /\ expiry' = IF account[u] # "none" /\ r \in roles
                 THEN [expiry EXCEPT ![<<u, r>>] = until] ELSE expiry
  /\ UNCHANGED <<account, roles, retired, permissions, grants>>

AssignRoleToUser(h, u, r, until) == Leave(h, Manage) /\ AssignToUser(u, r, until)

RemoveFromUser(u, r) ==
  /\ expiry' = [expiry EXCEPT ![<<u, r>>] = 0]
  /\ UNCHANGED <<account, roles, retired, permissions, grants>>

RemoveRoleFromUser(h, u, r) == Leave(h, Manage) /\ RemoveFromUser(u, r)

Tick ==
  /\ now < MaxTime
  /\ now' = now + 1
  /\ UNCHANGED <<tables, checked>>

-----------------------------------------------------------------------------
Read(h) ==
  \/ ListUsers(h) \/ GetUser(h) \/ ListRoles(h) \/ GetRole(h)
  \/ ListRolePermissions(h) \/ ListPermissions(h) \/ ListUserRoles(h)

Write(h) ==
  \/ \E u \in Users : \/ \E s \in {"active", "suspended"} : UpdateUserStatus(h, u, s)
                      \/ DeleteUser(h, u)
  \/ \E r \in Roles : \/ CreateRole(h, r)
                      \/ DeleteRole(h, r)
                      \/ \E p \in Permissions : \/ AssignPermissionToRole(h, r, p)
                                                \/ RemovePermissionFromRole(h, r, p)
  \/ \E p \in Permissions : CreatePermission(h, p)
  \/ \E u \in Users, r \in Roles : \/ \E t \in 1..Never : AssignRoleToUser(h, u, r, t)
                                   \/ RemoveRoleFromUser(h, u, r)

Step ==
  \/ \E h \in Handlers : \/ \E u \in Users, right \in Rights : Require(h, u, right)
                         \/ Read(h) \/ Write(h) \/ Abort(h)
  \/ \E u \in Users : Register(u) \/ DeleteAccount(u)
  \/ Tick

InFlight(u) == {h \in Handlers : checked[h] = <<u, Manage>>}

\* History: how often each caller is served while it may no longer manage.
Count ==
  late' = [u \in Users |-> IF CheckAdminPermission(u)' THEN 0
                           ELSE late[u] + Cardinality(InFlight(u) \ InFlight(u)')]

Next == Step /\ Count

Spec == Init /\ [][Next]_vars

-----------------------------------------------------------------------------
TypeOK ==
  /\ account \in [Users -> {"none", "active", "suspended", "deleted"}]
  /\ roles \subseteq Roles
  /\ retired \subseteq Roles
  /\ permissions \subseteq Permissions
  /\ grants \subseteq Roles \X Permissions
  /\ expiry \in [Users \X Roles -> 0..Never]
  /\ now \in 0..MaxTime
  /\ checked \in [Handlers -> (Users \X Rights) \union {Idle}]
  /\ late \in [Users -> Nat]

(***************************************************************************)
(* What an administrator is shown is what a user may do: the view behind   *)
(* every check gives an account exactly the permissions listed for the     *)
(* roles listed for it.  No row outlives the role or the account it names, *)
(* so nothing is conferred by a role that no listing shows.                *)
(***************************************************************************)
ListingsAgree ==
  \A u \in Users : Exists(u) =>
    EffectivePermissions(u) = UNION {RolePermissions(r) : r \in UserRoles(u)}

(***************************************************************************)
(* Who loses the right to manage, by whatever route - the role, the        *)
(* permission, the account or the time is gone - is served at most the     *)
(* requests that had already passed their check.                           *)
(***************************************************************************)
LateActsBounded ==
  \A u \in Users :
    /\ late[u] + Cardinality(InFlight(u)) <= Cardinality(Handlers)
    /\ CheckAdminPermission(u) => late[u] = 0

(***************************************************************************)
(* The right to manage comes only from somebody who had it.  Once nobody   *)
(* has it and no request is past its check, nobody ever has it again: no   *)
(* registration, status, expiry or statement brings an administrator back. *)
(* The last administrator is not kept from giving up the role.             *)
(***************************************************************************)
LockedOut ==
  /\ \A u \in Users : ~CheckAdminPermission(u)
  /\ \A h \in Handlers, u \in Users : checked[h] # <<u, Manage>>
LockoutIsFinal == [][LockedOut => LockedOut']_vars
=============================================================================

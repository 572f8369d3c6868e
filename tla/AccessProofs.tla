---------------------------- MODULE AccessProofs ----------------------------
(***************************************************************************)
(* What holds of Access for any users, roles, permissions and any number   *)
(* of requests under way.                                                  *)
(***************************************************************************)
EXTENDS Access, FiniteSetTheorems, TLAPS

\* What a request that holds Manage may do to the tables.
ManageChange ==
  \/ \E u \in Users : SoftDelete(u)
  \/ \E r \in Roles : InsertRole(r) \/ DropRole(r)
  \/ \E r \in Roles, p \in Permissions : AssignToRole(r, p) \/ RemoveFromRole(r, p)
  \/ \E p \in Permissions : InsertPermission(p)
  \/ \E u \in Users, r \in Roles : \/ \E t \in 1..Never : AssignToUser(u, r, t)
                                   \/ RemoveFromUser(u, r)

StatusChange == \E u \in Users, s \in {"active", "suspended"} : SetStatus(u, s)

Served(h) ==
  \/ \E right \in Rights : Leave(h, right) /\ UNCHANGED tables
  \/ Leave(h, UpdateStatus) /\ StatusChange
  \/ Leave(h, Manage) /\ ManageChange

LEMMA RequestsServe ==
  ASSUME NEW h \in Handlers, Read(h) \/ Write(h) \/ Abort(h)
  PROVE  Served(h)
<1>1. CASE Abort(h)
  BY <1>1, Zenon DEF Abort, Served
<1>2. CASE Read(h)
  <2>1. UNCHANGED tables /\ (Leave(h, ListAll) \/ Leave(h, Manage))
    BY <1>2, Zenon DEF Read, ListUsers, GetUser, ListRoles, GetRole, ListRolePermissions,
       ListPermissions, ListUserRoles
  <2>2. QED
    BY <2>1 DEF Served, Rights
<1>3. CASE Write(h)
  <2>1. CASE \E u \in Users : \/ \E s \in {"active", "suspended"} : UpdateUserStatus(h, u, s)
                              \/ DeleteUser(h, u)
    BY <2>1, Zenon DEF UpdateUserStatus, DeleteUser, Served, StatusChange, ManageChange
  <2>2. CASE \E r \in Roles : CreateRole(h, r) \/ DeleteRole(h, r)
    BY <2>2, Zenon DEF CreateRole, DeleteRole, Served, ManageChange
  <2>3. CASE \E r \in Roles, p \in Permissions :
               AssignPermissionToRole(h, r, p) \/ RemovePermissionFromRole(h, r, p)
    BY <2>3, Zenon DEF AssignPermissionToRole, RemovePermissionFromRole, Served, ManageChange
  <2>4. CASE \E p \in Permissions : CreatePermission(h, p)
    BY <2>4, Zenon DEF CreatePermission, Served, ManageChange
  <2>5. CASE \E u \in Users, r \in Roles : \/ \E t \in 1..Never : AssignRoleToUser(h, u, r, t)
                                           \/ RemoveRoleFromUser(h, u, r)
    BY <2>5, Zenon DEF AssignRoleToUser, RemoveRoleFromUser, Served, ManageChange
  <2>6. QED
    BY <1>3, <2>1, <2>2, <2>3, <2>4, <2>5, Zenon DEF Write
<1>4. QED
  BY <1>1, <1>2, <1>3

\* Every step is one of these five.
LEMMA StepCases ==
  ASSUME [Next]_vars
  PROVE  \/ UNCHANGED vars
         \/ Count /\ \E h \in Handlers, u \in Users, right \in Rights : Require(h, u, right)
         \/ Count /\ \E h \in Handlers : Served(h)
         \/ Count /\ \E u \in Users : Register(u) \/ DeleteAccount(u)
         \/ Count /\ Tick
BY RequestsServe, Zenon DEF Next, Step

-----------------------------------------------------------------------------
TablesOK ==
  /\ account \in [Users -> {"none", "active", "suspended", "deleted"}]
  /\ roles \subseteq Roles
  /\ retired \subseteq Roles
  /\ permissions \subseteq Permissions
  /\ grants \subseteq Roles \X Permissions
  /\ expiry \in [Users \X Roles -> 0..Never]

\* The foreign keys and their cascades: no row names what is not there.
Integrity ==
  /\ roles \intersect retired = {}
  /\ grants \subseteq roles \X permissions
  /\ \A u \in Users, r \in Roles : expiry[<<u, r>>] > 0 => r \in roles /\ account[u] # "none"

Sound == TablesOK /\ Integrity

LEMMA StatusSound == Sound /\ StatusChange => Sound'
<1> SUFFICES ASSUME Sound, NEW u \in Users, NEW s \in {"active", "suspended"}, SetStatus(u, s)
             PROVE  Sound'
  BY Zenon DEF StatusChange
<1> QED
  BY DEF Sound, TablesOK, Integrity, SetStatus, Exists

LEMMA ManageSound == Sound /\ ManageChange => Sound'
<1> SUFFICES ASSUME Sound, ManageChange PROVE Sound'
  OBVIOUS
<1> USE AccessAssumption DEF Sound, TablesOK, Integrity
<1>1. ASSUME NEW u \in Users, SoftDelete(u) PROVE Sound'
  BY <1>1 DEF SoftDelete, Exists
<1>2. ASSUME NEW r \in Roles, InsertRole(r) PROVE Sound'
  BY <1>2 DEF InsertRole
<1>3. ASSUME NEW r \in Roles, DropRole(r) PROVE Sound'
  <2>1. CASE r \in roles \ SystemRoles
    <3>1. TablesOK'
      BY <1>3, <2>1 DEF DropRole, Never
    <3>2. Integrity'
      BY <1>3, <2>1 DEF DropRole, Never
    <3>3. QED
      BY <3>1, <3>2
  <2>2. CASE r \notin roles \ SystemRoles
    BY <1>3, <2>2 DEF DropRole, tables
  <2>3. QED
    BY <2>1, <2>2
<1>4. ASSUME NEW r \in Roles, NEW p \in Permissions, AssignToRole(r, p) PROVE Sound'
  BY <1>4 DEF AssignToRole
<1>5. ASSUME NEW r \in Roles, NEW p \in Permissions, RemoveFromRole(r, p) PROVE Sound'
  BY <1>5 DEF RemoveFromRole
<1>6. ASSUME NEW p \in Permissions, InsertPermission(p) PROVE Sound'
  BY <1>6 DEF InsertPermission
<1>7. ASSUME NEW u \in Users, NEW r \in Roles, NEW t \in 1..Never, AssignToUser(u, r, t)
      PROVE  Sound'
  BY <1>7 DEF AssignToUser, Never
<1>8. ASSUME NEW u \in Users, NEW r \in Roles, RemoveFromUser(u, r) PROVE Sound'
  BY <1>8 DEF RemoveFromUser, Never
<1>9. QED
  <2> HIDE DEF Sound
  <2> QED
    BY <1>1, <1>2, <1>3, <1>4, <1>5, <1>6, <1>7, <1>8, Zenon DEF ManageChange

LEMMA SoundStep == Sound /\ [Next]_vars => Sound'
<1> SUFFICES ASSUME Sound, [Next]_vars PROVE Sound'
  OBVIOUS
<1>1. CASE UNCHANGED tables
  BY <1>1 DEF Sound, TablesOK, Integrity, tables
<1>2. CASE \E u \in Users : Register(u) \/ DeleteAccount(u)
  BY <1>2 DEF Register, DeleteAccount, SoftDelete, Sound, TablesOK, Integrity, Exists
<1>3. CASE StatusChange \/ ManageChange
  BY <1>3, StatusSound, ManageSound
<1>4. CASE UNCHANGED vars
  BY <1>4, <1>1 DEF vars
<1>5. CASE \E h \in Handlers : Served(h)
  BY <1>5, <1>1, <1>3 DEF Served
<1>6. CASE \E h \in Handlers, u \in Users, right \in Rights : Require(h, u, right)
  BY <1>6, <1>1, Zenon DEF Require, Enter
<1>7. CASE Tick
  BY <1>7, <1>1 DEF Tick
<1>8. QED
  BY StepCases, <1>2, <1>4, <1>5, <1>6, <1>7

LEMMA SoundInit == Init => Sound
<1> SUFFICES ASSUME Init PROVE Sound
  OBVIOUS
<1> USE AccessAssumption
<1>1. TablesOK
  BY DEF Init, TablesOK, Never
<1>2. grants \subseteq roles \X permissions
  BY DEF Init
<1>3. \A u \in Users, r \in Roles : expiry[<<u, r>>] > 0 => r \in roles /\ account[u] # "none"
  BY DEF Init
<1>4. QED
  BY <1>1, <1>2, <1>3 DEF Sound, Integrity, Init

(***************************************************************************)
(* The tables keep their types, and no row of role_permissions or          *)
(* user_roles outlives the role or the account it names.                   *)
(***************************************************************************)
THEOREM TablesSound == Spec => []Sound
BY SoundInit, SoundStep, PTL DEF Spec

-----------------------------------------------------------------------------
LEMMA Agreement == Sound => ListingsAgree
<1> SUFFICES ASSUME Sound, NEW u \in Users, Exists(u)
             PROVE  EffectivePermissions(u) = UNION {RolePermissions(r) : r \in UserRoles(u)}
  BY DEF ListingsAgree
<1> USE DEF Sound, TablesOK, Integrity, EffectivePermissions, RolePermissions, UserRoles
<1>1. ASSUME NEW p \in EffectivePermissions(u)
      PROVE  p \in UNION {RolePermissions(r) : r \in UserRoles(u)}
  <2>1. PICK r \in Roles : expiry[<<u, r>>] > now /\ <<r, p>> \in grants
    BY <1>1
  <2>2. r \in UserRoles(u) /\ p \in RolePermissions(r)
    BY <1>1, <2>1
  <2>3. QED
    BY <2>2
<1>2. ASSUME NEW r \in UserRoles(u), NEW p \in RolePermissions(r)
      PROVE  p \in EffectivePermissions(u)
  BY <1>2
<1>3. QED
  BY <1>1, <1>2

(***************************************************************************)
(* An account holds exactly the permissions listed for the roles listed    *)
(* for it.                                                                 *)
(***************************************************************************)
THEOREM ListingsAlwaysAgree == Spec => []ListingsAgree
BY TablesSound, Agreement, PTL

-----------------------------------------------------------------------------
RequestsOK ==
  /\ now \in 0..MaxTime
  /\ checked \in [Handlers -> (Users \X Rights) \union {Idle}]

LEMMA RequestsStep == RequestsOK /\ [Next]_vars => RequestsOK'
<1> SUFFICES ASSUME RequestsOK, [Next]_vars PROVE RequestsOK'
  OBVIOUS
<1> USE AccessAssumption DEF RequestsOK
<1>1. CASE UNCHANGED vars
  BY <1>1 DEF vars
<1>2. ASSUME NEW h \in Handlers, NEW u \in Users, NEW right \in Rights, Require(h, u, right)
      PROVE  RequestsOK'
  BY <1>2 DEF Require, Enter
<1>3. ASSUME NEW h \in Handlers, Served(h) PROVE RequestsOK'
  <2>1. UNCHANGED now /\ checked' = [checked EXCEPT ![h] = Idle]
    BY <1>3, Zenon DEF Served, Leave
  <2>2. QED
    BY <2>1
<1>4. CASE \E u \in Users : Register(u) \/ DeleteAccount(u)
  BY <1>4 DEF Register, DeleteAccount
<1>5. CASE Tick
  BY <1>5 DEF Tick
<1>6. QED
  <2> HIDE DEF RequestsOK
  <2> QED
    BY StepCases, <1>1, <1>2, <1>3, <1>4, <1>5

\* A right to manage that was not there before comes from a request that held it.
LEMMA NoRise ==
  ASSUME Sound, now \in 0..MaxTime, now' \in 0..MaxTime, now <= now',
         UNCHANGED <<permissions, grants, expiry>>,
         \A u \in Users : Exists(u)' => Exists(u) \/ account[u] = "none"
  PROVE  \A u \in Users : CheckAdminPermission(u)' => CheckAdminPermission(u)
<1> SUFFICES ASSUME NEW u \in Users, CheckAdminPermission(u)'
             PROVE  CheckAdminPermission(u)
  OBVIOUS
<1> USE AccessAssumption DEF CheckAdminPermission, UserHasPermission, EffectivePermissions
<1>1. PICK r \in Roles : expiry[<<u, r>>] > now' /\ <<r, Manage>> \in grants
  OBVIOUS
<1>2. expiry[<<u, r>>] \in 0..Never
  BY DEF Sound, TablesOK
<1>3. expiry[<<u, r>>] > now /\ expiry[<<u, r>>] > 0
  BY <1>1, <1>2 DEF Never
<1>4. Exists(u)
  BY <1>3 DEF Sound, Integrity
<1>5. QED
  BY <1>1, <1>3, <1>4

LEMMA StillLockedOut == Sound /\ RequestsOK /\ LockedOut /\ [Next]_vars => LockedOut'
<1> SUFFICES ASSUME Sound, RequestsOK, LockedOut, [Next]_vars PROVE LockedOut'
  OBVIOUS
<1> DEFINE Nobody == \A u \in Users : ~CheckAdminPermission(u)
           NoneLeft == \A h \in Handlers, u \in Users : checked[h] # <<u, Manage>>
<1>0. Nobody /\ NoneLeft
  BY DEF LockedOut
<1>1. CASE UNCHANGED vars
  BY <1>1 DEF vars, tables, LockedOut, CheckAdminPermission, UserHasPermission,
     EffectivePermissions, Exists
<1>2. ASSUME NEW h \in Handlers, NEW u \in Users, NEW right \in Rights, Require(h, u, right)
      PROVE  LockedOut'
  <2>1. right # Manage
    BY <1>0, <1>2, Zenon DEF Require, CheckAdminPermission
  <2>2. Nobody'
    BY <1>0, <1>2, Zenon DEF Require, Enter, tables, CheckAdminPermission, UserHasPermission,
       EffectivePermissions, Exists
  <2>3. NoneLeft'
    BY <1>0, <1>2, <2>1 DEF Require, Enter, RequestsOK
  <2>4. QED
    BY <2>2, <2>3 DEF LockedOut
<1>3. ASSUME NEW h \in Handlers, Served(h) PROVE LockedOut'
  <2>1. ~Leave(h, Manage)
    BY <1>0, AccessAssumption DEF Leave, RequestsOK
  <2>2. /\ UNCHANGED <<now, permissions, grants, expiry>>
        /\ checked' = [checked EXCEPT ![h] = Idle]
        /\ UNCHANGED account \/ StatusChange
    BY <1>3, <2>1, Zenon DEF Served, Leave, tables, StatusChange, SetStatus
  <2>3. \A u \in Users : Exists(u)' => Exists(u)
    BY <2>2 DEF StatusChange, SetStatus, Exists, Sound, TablesOK
  <2>4. Nobody'
    BY <1>0, <2>2, <2>3, NoRise DEF RequestsOK
  <2>5. NoneLeft'
    BY <1>0, <2>2, AccessAssumption DEF RequestsOK, Rights
  <2>6. QED
    BY <2>4, <2>5 DEF LockedOut
<1>4. CASE (\E u \in Users : Register(u) \/ DeleteAccount(u)) \/ Tick
  <2>1. UNCHANGED <<permissions, grants, expiry, checked>> /\ (UNCHANGED now \/ now' = now + 1)
    BY <1>4, Zenon DEF Register, DeleteAccount, SoftDelete, Tick, tables
  <2>2. \A u \in Users : Exists(u)' => Exists(u) \/ account[u] = "none"
    BY <1>4 DEF Register, DeleteAccount, SoftDelete, Tick, tables, Exists, Sound, TablesOK
  <2>3. now \in 0..MaxTime /\ now' \in 0..MaxTime /\ now <= now'
    BY <2>1, RequestsStep, AccessAssumption DEF RequestsOK
  <2>4. Nobody'
    BY <1>0, <2>1, <2>2, <2>3, NoRise
  <2>5. QED
    BY <1>0, <2>1, <2>4 DEF LockedOut
<1>5. QED
  BY StepCases, <1>1, <1>2, <1>3, <1>4

LEMMA RequestsInit == Init => RequestsOK
BY AccessAssumption DEF Init, RequestsOK

(***************************************************************************)
(* A system without an administrator, and without a request that one left  *)
(* behind, never gets one again.                                           *)
(***************************************************************************)
THEOREM LockoutFinal == Spec => LockoutIsFinal
<1>1. Sound /\ RequestsOK /\ [Next]_vars => [LockedOut => LockedOut']_vars
  BY StillLockedOut
<1>2. QED
  BY <1>1, SoundInit, SoundStep, RequestsInit, RequestsStep, PTL DEF Spec, LockoutIsFinal

-----------------------------------------------------------------------------
LEMMA CountOfSlots ==
  ASSUME NEW S, S \subseteq Handlers
  PROVE  IsFiniteSet(S) /\ Cardinality(S) \in Nat /\ Cardinality(S) <= Cardinality(Handlers)
BY AccessAssumption, FS_Subset, FS_CardinalityType

LEMMA CountOfLeaving ==
  ASSUME NEW S, S \subseteq Handlers, NEW T, T \subseteq S
  PROVE  Cardinality(S \ T) + Cardinality(T) = Cardinality(S)
<1>1. S \intersect T = T
  OBVIOUS
<1>2. IsFiniteSet(S)
  BY CountOfSlots
<1>3. Cardinality(S \ T) = Cardinality(S) - Cardinality(S \intersect T)
  BY <1>2, FS_Difference
<1>4. Cardinality(S) \in Nat /\ Cardinality(T) \in Nat
  BY CountOfSlots
<1>5. Cardinality(S \ T) = Cardinality(S) - Cardinality(T)
  BY <1>1, <1>3, Zenon
<1> DEFINE s == Cardinality(S)
           t == Cardinality(T)
           d == Cardinality(S \ T)
<1>6. s \in Nat /\ t \in Nat /\ d = s - t
  BY <1>4, <1>5
<1> HIDE DEF s, t, d
<1>7. d + t = s
  BY <1>6
<1>8. QED
  BY <1>7 DEF s, t, d

LateOK == late \in [Users -> Nat] /\ LateActsBounded

\* What one caller's count and requests do in a step: either it may manage, or
\* it has no new request past the check.
LEMMA CountStep ==
  ASSUME LateOK, Count,
         \A u \in Users : CheckAdminPermission(u)' \/ InFlight(u)' \subseteq InFlight(u)
  PROVE  LateOK'
<1>1. late' \in [Users -> Nat]
  <2>1. \A u \in Users : Cardinality(InFlight(u) \ InFlight(u)') \in Nat
    BY CountOfSlots DEF InFlight
  <2>2. QED
    BY <2>1 DEF LateOK, Count
<1>2. ASSUME NEW u \in Users
      PROVE  /\ late'[u] + Cardinality(InFlight(u)') <= Cardinality(Handlers)
             /\ CheckAdminPermission(u)' => late'[u] = 0
  <2>1. CASE CheckAdminPermission(u)'
    <3>1. late'[u] = 0
      BY <2>1, Zenon DEF Count
    <3>2. InFlight(u)' \subseteq Handlers
      BY DEF InFlight
    <3>3. Cardinality(InFlight(u)') \in Nat /\ Cardinality(InFlight(u)') <= Cardinality(Handlers)
      BY <3>2, CountOfSlots
    <3>4. QED
      BY <3>1, <3>3
  <2>2. CASE ~CheckAdminPermission(u)'
    <3>1. late'[u] = late[u] + Cardinality(InFlight(u) \ InFlight(u)')
      BY <2>2, Zenon DEF Count
    <3>2. InFlight(u) \subseteq Handlers /\ InFlight(u)' \subseteq InFlight(u)
      BY <2>2 DEF InFlight
    <3>3. Cardinality(InFlight(u) \ InFlight(u)') + Cardinality(InFlight(u)')
            = Cardinality(InFlight(u))
      BY <3>2, CountOfLeaving
    <3>4. late[u] \in Nat /\ late[u] + Cardinality(InFlight(u)) <= Cardinality(Handlers)
      BY Zenon DEF LateOK, LateActsBounded
    <3>5. /\ Cardinality(InFlight(u)) \in Nat
          /\ Cardinality(InFlight(u)') \in Nat
          /\ Cardinality(InFlight(u) \ InFlight(u)') \in Nat
          /\ Cardinality(Handlers) \in Nat
      BY <3>2, CountOfSlots
    <3>6. QED
      BY <2>2, <3>1, <3>3, <3>4, <3>5
  <2>3. QED
    BY <2>1, <2>2
<1>3. QED
  BY <1>1, <1>2, Zenon DEF LateOK, LateActsBounded

LEMMA LateStep == RequestsOK /\ LateOK /\ [Next]_vars => LateOK'
<1> SUFFICES ASSUME RequestsOK, LateOK, [Next]_vars PROVE LateOK'
  OBVIOUS
<1>1. CASE UNCHANGED vars
  BY <1>1 DEF vars, tables, LateOK, LateActsBounded, InFlight, CheckAdminPermission,
     UserHasPermission, EffectivePermissions, Exists
<1>2. ASSUME NEW h \in Handlers, NEW v \in Users, NEW right \in Rights, Require(h, v, right)
      PROVE  \A u \in Users : CheckAdminPermission(u)' \/ InFlight(u)' \subseteq InFlight(u)
  <2> TAKE u \in Users
  <2>1. CASE u = v /\ right = Manage
    BY <1>2, <2>1, Zenon DEF Require, Enter, tables, CheckAdminPermission, UserHasPermission,
       EffectivePermissions, Exists
  <2>2. CASE ~(u = v /\ right = Manage)
    BY <1>2, <2>2 DEF Require, Enter, RequestsOK, InFlight
  <2>3. QED
    BY <2>1, <2>2
<1>3. ASSUME NEW h \in Handlers, Served(h)
      PROVE  \A u \in Users : InFlight(u)' \subseteq InFlight(u)
  <2>1. checked' = [checked EXCEPT ![h] = Idle]
    BY <1>3, Zenon DEF Served, Leave
  <2>2. \A u \in Users : <<u, Manage>> # Idle
    BY AccessAssumption DEF Rights
  <2>3. QED
    BY <2>1, <2>2 DEF InFlight, RequestsOK
<1>4. CASE (\E u \in Users : Register(u) \/ DeleteAccount(u)) \/ Tick
  <2>1. UNCHANGED checked
    BY <1>4, Zenon DEF Register, DeleteAccount, Tick
  <2>2. \A u \in Users : InFlight(u)' \subseteq InFlight(u)
    BY <2>1 DEF InFlight
  <2>3. QED
    BY <1>4, <2>2, StepCases, CountStep, <1>1
<1>5. QED
  BY StepCases, CountStep, <1>1, <1>2, <1>3, <1>4

LEMMA LateInit == Init => LateOK
<1> SUFFICES ASSUME Init PROVE LateOK
  OBVIOUS
<1>1. \A u \in Users : InFlight(u) \subseteq Handlers
  BY DEF InFlight
<1>2. \A u \in Users : Cardinality(InFlight(u)) \in Nat
                       /\ Cardinality(InFlight(u)) <= Cardinality(Handlers)
  BY <1>1, CountOfSlots
<1>3. Cardinality(Handlers) \in Nat
  BY CountOfSlots
<1>4. late \in [Users -> Nat] /\ \A u \in Users : late[u] = 0
  BY DEF Init
<1>5. QED
  BY <1>2, <1>3, <1>4 DEF LateOK, LateActsBounded

(***************************************************************************)
(* A caller that lost the right to manage is served at most once per slot  *)
(* before it is refused.                                                   *)
(***************************************************************************)
THEOREM LateActsAreBounded == Spec => []LateActsBounded
<1>1. LateOK => LateActsBounded
  BY DEF LateOK
<1>2. QED
  BY <1>1, LateInit, LateStep, RequestsInit, RequestsStep, PTL DEF Spec

(***************************************************************************)
(* Every reachable state is well typed.                                    *)
(***************************************************************************)
THEOREM AccessTypeCorrect == Spec => []TypeOK
<1>1. Sound /\ RequestsOK /\ LateOK => TypeOK
  BY DEF Sound, TablesOK, RequestsOK, LateOK, TypeOK
<1>2. QED
  BY <1>1, SoundInit, SoundStep, RequestsInit, RequestsStep, LateInit, LateStep, PTL DEF Spec
=============================================================================

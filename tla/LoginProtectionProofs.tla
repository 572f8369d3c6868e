----------------------- MODULE LoginProtectionProofs ------------------------
(***************************************************************************)
(* LoginProtection's three limits implement CheckedCount, for any number   *)
(* of addresses, accounts, devices and requests, any limits and windows.   *)
(***************************************************************************)
EXTENDS LoginProtection, FiniteSetTheorems, TLAPS

Cells == Ips \X Emails \X Ages

Attempt == [at : Steps, ip : Ips, email : Emails]
Guest == [at : {"guest", "device"}, device : Devices]

Countable(f) == f \in [Cells -> Nat] /\ IsFiniteSet(Attempts(f, Cells))

(***************************************************************************)
(* The inductive invariant: types, and that failures are recorded one by   *)
(* one, so that they can be counted.                                       *)
(***************************************************************************)
LoginInv ==
  /\ Countable(failed)
  /\ Countable(streak)
  /\ guests \in [Devices -> Nat]
  /\ pc \in [Handlers -> {Idle} \union Attempt \union Guest]

-----------------------------------------------------------------------------
(***************************************************************************)
(* Counting failures.                                                      *)
(***************************************************************************)
LEMMA CountType ==
  ASSUME NEW f, Countable(f), NEW K, K \subseteq Cells
  PROVE  IsFiniteSet(Attempts(f, K)) /\ Count(f, K) \in Nat
<1>1. Attempts(f, K) \subseteq Attempts(f, Cells)
  BY DEF Attempts
<1>2. QED
  BY <1>1, FS_Subset, FS_CardinalityType DEF Countable, Count

\* What has fewer failures everywhere counts fewer.
LEMMA FewerCounts ==
  ASSUME NEW f, Countable(f), NEW g, \A x \in Cells : g[x] \in 0..f[x],
         NEW K, K \subseteq Cells
  PROVE  IsFiniteSet(Attempts(g, K)) /\ Count(g, K) \in 0..Count(f, K)
<1>1. ASSUME NEW x \in Cells PROVE 1..g[x] \subseteq 1..f[x]
  BY <1>1 DEF Countable
<1>2. Attempts(g, K) \subseteq Attempts(f, K)
  BY <1>1 DEF Attempts
<1>3. QED
  BY <1>2, CountType, FS_Subset, FS_CardinalityType DEF Count

Recorded(f, ip, e) == [f EXCEPT ![<<ip, e, 0>>] = @ + 1]

\* A recorded failure counts once, in every window that starts now.
LEMMA RecordCounts ==
  ASSUME NEW f, Countable(f), NEW ip \in Ips, NEW e \in Emails, NEW K, K \subseteq Cells
  PROVE  /\ Countable(Recorded(f, ip, e))
         /\ Count(Recorded(f, ip, e), K)
              = IF <<ip, e, 0>> \in K THEN Count(f, K) + 1 ELSE Count(f, K)
<1> DEFINE g == Recorded(f, ip, e)
<1>1. PICK x : x = <<ip, e, 0>>
  OBVIOUS
<1>2. x \in Cells
  BY <1>1, LoginAssumption DEF Cells, Ages
<1>3. g = [f EXCEPT ![x] = @ + 1]
  BY <1>1 DEF Recorded
<1> HIDE DEF g
<1>4. f[x] \in Nat /\ g[x] = f[x] + 1 /\ \A y \in Cells \ {x} : g[y] = f[y]
  BY <1>2, <1>3 DEF Countable
<1>5. ASSUME x \notin K
      PROVE  Attempts(g, K) = Attempts(f, K)
  <2>1. \A y \in K : g[y] = f[y]
    BY <1>4, <1>5
  <2>2. QED
    BY <2>1 DEF Attempts
<1>6. ASSUME NEW S \in SUBSET Cells, x \in S
      PROVE  IsFiniteSet(Attempts(g, S)) /\ Count(g, S) = Count(f, S) + 1
  <2>1. PICK a : a = <<x, f[x] + 1>>
    OBVIOUS
  <2>2. PICK A : A = Attempts(g, S)
    OBVIOUS
  <2>3. 1..(f[x] + 1) = (1..f[x]) \union {f[x] + 1}
    BY <1>4
  <2>4. ASSUME NEW b \in A PROVE b \in Attempts(f, S) \union {a}
    <3>1. PICK y \in S : b \in {y} \X (1..g[y])
      BY <2>2, <2>4 DEF Attempts
    <3>2. CASE y = x
      <4>1. b = a \/ b \in {x} \X (1..f[x])
        BY <1>4, <2>1, <2>3, <3>1, <3>2
      <4>2. QED
        BY <1>6, <4>1 DEF Attempts
    <3>3. CASE y # x
      <4>1. g[y] = f[y]
        BY <1>4, <3>3
      <4>2. QED
        BY <3>1, <4>1 DEF Attempts
    <3>4. QED
      BY <3>2, <3>3
  <2>5. ASSUME NEW b \in Attempts(f, S) PROVE b \in A
    <3>1. PICK y \in S : b \in {y} \X (1..f[y])
      BY <2>5 DEF Attempts
    <3>2. 1..f[y] \subseteq 1..g[y]
      BY <1>4, <2>3
    <3>3. QED
      BY <2>2, <3>1, <3>2 DEF Attempts
  <2>6. a \in A
    <3>1. a \in {x} \X (1..g[x])
      BY <1>4, <2>1
    <3>2. QED
      BY <1>6, <2>2, <3>1 DEF Attempts
  <2>7. A = Attempts(f, S) \union {a}
    BY <2>4, <2>5, <2>6
  <2>8. a \notin Attempts(f, S)
    <3> SUFFICES ASSUME a \in Attempts(f, S) PROVE FALSE
      OBVIOUS
    <3>1. PICK y \in S : a \in {y} \X (1..f[y])
      BY DEF Attempts
    <3>2. y = x /\ f[x] + 1 \in 1..f[x]
      BY <2>1, <3>1
    <3>3. QED
      BY <1>4, <3>2
  <2>9. IsFiniteSet(A) /\ Cardinality(A) = Cardinality(Attempts(f, S)) + 1
    BY <2>7, <2>8, CountType, FS_AddElement
  <2>10. QED
    BY <2>2, <2>9 DEF Count
<1>7. Countable(g)
  <2>1. g \in [Cells -> Nat]
    BY <1>2, <1>3 DEF Countable
  <2>2. QED
    BY <1>2, <1>6, <2>1 DEF Countable
<1>8. Count(g, K) = IF x \in K THEN Count(f, K) + 1 ELSE Count(f, K)
  BY <1>5, <1>6 DEF Count
<1>9. QED
  BY <1>1, <1>7, <1>8 DEF g

\* As time passes no window of failures fills.
LEMMA OlderCounts ==
  ASSUME NEW f, Countable(f), NEW g, g = Older(f), NEW K, K \subseteq Cells,
         \A x \in K : x[3] # 0 => <<x[1], x[2], x[3] - 1>> \in K
  PROVE  /\ IsFiniteSet(Attempts(g, K))
         /\ Count(g, K) \in 0..Count(f, K)
<1>1. PICK A : A = Attempts(g, K)
  OBVIOUS
<1>2. ASSUME NEW x \in K
      PROVE  /\ x = <<x[1], x[2], x[3]>> /\ x[3] \in Int
             /\ g[x] = IF x[3] = 0 THEN 0 ELSE f[<<x[1], x[2], x[3] - 1>>]
  <2>1. x \in Ips \X Emails \X Ages
    BY DEF Cells
  <2>2. QED
    BY <2>1 DEF Older, Ages
<1>3. ASSUME NEW b \in A
      PROVE  /\ b = <<<<b[1][1], b[1][2], b[1][3]>>, b[2]>> /\ b[1][3] \in Int
             /\ <<<<b[1][1], b[1][2], b[1][3] - 1>>, b[2]>> \in Attempts(f, K)
  <2>1. PICK x \in K : b \in {x} \X (1..g[x])
    BY <1>1, <1>3 DEF Attempts
  <2>2. b = <<x, b[2]>> /\ b[1] = x /\ b[2] \in 1..g[x]
    BY <2>1
  <2>3. x[3] # 0 /\ g[x] = f[<<x[1], x[2], x[3] - 1>>]
    BY <1>2, <2>2
  <2>4. PICK y : y = <<x[1], x[2], x[3] - 1>>
    OBVIOUS
  <2>5. y \in K /\ <<y, b[2]>> \in {y} \X (1..f[y])
    BY <2>2, <2>3, <2>4
  <2>6. <<y, b[2]>> \in Attempts(f, K)
    BY <2>5 DEF Attempts
  <2>7. QED
    BY <1>2, <2>2, <2>4, <2>6
<1>4. PICK F : F = [b \in A |-> <<<<b[1][1], b[1][2], b[1][3] - 1>>, b[2]>>]
  OBVIOUS
<1>5. F \in Injection(A, Attempts(f, K))
  <2>1. F \in [A -> Attempts(f, K)]
    BY <1>3, <1>4
  <2>2. ASSUME NEW b \in A, NEW c \in A, F[b] = F[c]
        PROVE  b = c
    <3>1. /\ b[1][1] = c[1][1] /\ b[1][2] = c[1][2] /\ b[1][3] - 1 = c[1][3] - 1
          /\ b[2] = c[2]
      BY <1>4, <2>2
    <3>2. b[1][3] = c[1][3]
      <4>1. \A i, j \in Int : i - 1 = j - 1 => i = j
        OBVIOUS
      <4>2. b[1][3] \in Int /\ c[1][3] \in Int
        BY <1>3
      <4>3. QED
        BY <3>1, <4>1, <4>2
    <3>3. QED
      BY <1>3, <3>1, <3>2
  <2>3. QED
    BY <2>1, <2>2 DEF Injection, IsInjective
<1>6. IsFiniteSet(A) /\ Cardinality(A) <= Count(f, K) /\ Cardinality(A) \in Nat
  BY <1>5, CountType, FS_Injection, FS_CardinalityType DEF Count
<1>7. QED
  BY <1>1, <1>6, CountType DEF Count

LEMMA OlderCountable ==
  ASSUME NEW f, Countable(f)
  PROVE  Countable(Older(f))
<1>1. \A a \in Ages : a # 0 => a - 1 \in Ages
  BY LoginAssumption DEF Ages
<1>2. ASSUME NEW x \in Cells
      PROVE  /\ x[3] # 0 => <<x[1], x[2], x[3] - 1>> \in Cells
             /\ (IF x[3] = 0 THEN 0 ELSE f[<<x[1], x[2], x[3] - 1>>]) \in Nat
  BY <1>1 DEF Countable, Cells
<1>3. Older(f) = [x \in Cells |-> IF x[3] = 0 THEN 0 ELSE f[<<x[1], x[2], x[3] - 1>>]]
  BY DEF Older, Cells
<1>4. Older(f) \in [Cells -> Nat]
  BY <1>2, <1>3
<1>5. IsFiniteSet(Attempts(Older(f), Cells))
  BY <1>2, OlderCounts
<1>6. QED
  BY <1>4, <1>5 DEF Countable

\* The cells the counts are taken over.
OfAddress(ip) == {ip} \X Emails \X (0..(Window - 1))
OfAccount(e) == Ips \X {e} \X (0..(LockWindow - 1))

LEMMA Windows ==
  /\ \A ip \in Ips : OfAddress(ip) \subseteq Cells
  /\ \A e \in Emails : OfAccount(e) \subseteq Cells
  /\ \A ip, i \in Ips, e \in Emails : <<i, e, 0>> \in OfAddress(ip) <=> i = ip
  /\ \A e, m \in Emails, i \in Ips : <<i, m, 0>> \in OfAccount(e) <=> m = e
<1>1. 0..(Window - 1) \subseteq Ages /\ 0 \in 0..(Window - 1) /\ 0 \in 0..(LockWindow - 1)
  BY LoginAssumption DEF Ages
<1>2. QED
  BY <1>1 DEF OfAddress, OfAccount, Cells, Ages

LEMMA CountUnfolds ==
  /\ \A ip : /\ FailuresOfIp(ip) = Count(failed, {ip} \X Emails \X (0..(Window - 1)))
            /\ FailuresOfIp(ip)' = Count(failed', {ip} \X Emails \X (0..(Window - 1)))
  /\ \A e : /\ FailuresInRow(e, LockWindow)
                = Count(streak, Ips \X {e} \X (0..(LockWindow - 1)))
           /\ FailuresInRow(e, LockWindow)'
                = Count(streak', Ips \X {e} \X (0..(LockWindow - 1)))
BY DEF FailuresOfIp, FailuresInRow, Count, Attempts

LEMMA FailuresType ==
  ASSUME LoginInv
  PROVE  /\ \A ip \in Ips : FailuresOfIp(ip) \in Nat
         /\ \A e \in Emails : FailuresInRow(e, LockWindow) \in Nat
BY Windows, CountType DEF LoginInv, FailuresOfIp, FailuresInRow, OfAddress, OfAccount

-----------------------------------------------------------------------------
(***************************************************************************)
(* One step of a count c with the requests P that it waits for.            *)
(***************************************************************************)
CountMoves(c, d, P, Q, limit) ==
  \/ c < limit /\ d = c /\ \E h \in Handlers \ P : Q = P \union {h}
  \/ d \in 0..(c + 1) /\ \E h \in P : Q = P \ {h}
  \/ d \in 0..c /\ Q = P

LEMMA CountMovesOn ==
  ASSUME NEW c \in Nat, NEW d, NEW P, P \subseteq Handlers, NEW Q, NEW limit,
         CountMoves(c, d, P, Q, limit)
  PROVE  \/ /\ c < limit /\ Cardinality(P) < Cardinality(Handlers)
            /\ Cardinality(Q) = Cardinality(P) + 1 /\ d = c
         \/ /\ Cardinality(P) > 0
            /\ Cardinality(Q) = Cardinality(P) - 1 /\ d \in 0..(c + 1)
         \/ d \in 0..c /\ Cardinality(Q) = Cardinality(P)
<1>1. IsFiniteSet(P) /\ IsFiniteSet(Handlers) /\ Cardinality(P) \in Nat
      /\ Cardinality(Handlers) \in Nat
  BY LoginAssumption, FS_Subset, FS_CardinalityType
<1>2. ASSUME NEW h \in Handlers \ P, Q = P \union {h}
      PROVE  Cardinality(P) < Cardinality(Handlers) /\ Cardinality(Q) = Cardinality(P) + 1
  <2>1. IsFiniteSet(Q) /\ Cardinality(Q) = Cardinality(P) + 1
    BY <1>1, <1>2, FS_AddElement
  <2>2. Q \subseteq Handlers
    BY <1>2
  <2>3. Cardinality(Q) <= Cardinality(Handlers)
    BY <1>1, <2>2, FS_Subset
  <2>4. QED
    BY <1>1, <2>1, <2>3
<1>3. ASSUME NEW h \in P, Q = P \ {h}
      PROVE  Cardinality(P) > 0 /\ Cardinality(Q) = Cardinality(P) - 1
  <2>1. IsFiniteSet(Q) /\ Cardinality(Q) = Cardinality(P) - 1
    BY <1>1, <1>3, FS_RemoveElement
  <2>2. Cardinality(Q) \in Nat
    BY <2>1, FS_CardinalityType
  <2>3. QED
    BY <1>1, <2>1, <2>2
<1>4. QED
  BY <1>2, <1>3 DEF CountMoves

IpMoves(ip) == CountMoves(FailuresOfIp(ip), FailuresOfIp(ip)', OfIp(ip), OfIp(ip)', IpLimit)
LockMoves(e) ==
  CountMoves(FailuresInRow(e, LockWindow), FailuresInRow(e, LockWindow)',
             PastLock(e), PastLock(e)', LockLimit)
GuestMoves(d) == CountMoves(guests[d], guests'[d], OfDevice(d), OfDevice(d)', GuestLimit)

CountsMove ==
  /\ \A ip \in Ips : IpMoves(ip)
  /\ \A e \in Emails : LockMoves(e)
  /\ \A d \in Devices : GuestMoves(d)

\* What becomes of those requests when one of them moves to the call c.
LEMMA MovedIp ==
  ASSUME LoginInv, NEW h \in Handlers, NEW c, pc' = [pc EXCEPT ![h] = c], NEW i
  PROVE  IF c.at \in Steps /\ c.ip = i THEN OfIp(i)' = OfIp(i) \union {h}
                                       ELSE OfIp(i)' = OfIp(i) \ {h}
<1>1. \A g \in Handlers : pc'[g] = IF g = h THEN c ELSE pc[g]
  BY DEF LoginInv
<1>2. QED
  BY <1>1 DEF OfIp, At

LEMMA MovedLock ==
  ASSUME LoginInv, NEW h \in Handlers, NEW c, pc' = [pc EXCEPT ![h] = c], NEW e
  PROVE  IF c.at \in Steps \ {"lock"} /\ c.email = e THEN PastLock(e)' = PastLock(e) \union {h}
                                                    ELSE PastLock(e)' = PastLock(e) \ {h}
<1>1. \A g \in Handlers : pc'[g] = IF g = h THEN c ELSE pc[g]
  BY DEF LoginInv
<1>2. QED
  BY <1>1 DEF PastLock, At

LEMMA MovedGuest ==
  ASSUME LoginInv, NEW h \in Handlers, NEW c, pc' = [pc EXCEPT ![h] = c], NEW d
  PROVE  IF c.at \in {"guest", "device"} /\ c.device = d THEN OfDevice(d)' = OfDevice(d) \union {h}
                                                       ELSE OfDevice(d)' = OfDevice(d) \ {h}
<1>1. \A g \in Handlers : pc'[g] = IF g = h THEN c ELSE pc[g]
  BY DEF LoginInv
<1>2. QED
  BY <1>1 DEF OfDevice, At

LEMMA MovedWithin ==
  ASSUME LoginInv, NEW h \in Handlers, NEW c, pc' = [pc EXCEPT ![h] = c]
  PROVE  /\ \A i : (h \in OfIp(i) <=> c.at \in Steps /\ c.ip = i) => OfIp(i)' = OfIp(i)
         /\ \A e : (h \in PastLock(e) <=> c.at \in Steps \ {"lock"} /\ c.email = e)
                    => PastLock(e)' = PastLock(e)
         /\ \A d : (h \in OfDevice(d) <=> c.at \in {"guest", "device"} /\ c.device = d)
                    => OfDevice(d)' = OfDevice(d)
<1>1. ASSUME NEW P, NEW Q, NEW into \in BOOLEAN, h \in P <=> into,
             IF into THEN Q = P \union {h} ELSE Q = P \ {h}
      PROVE  Q = P
  BY <1>1
<1>2. ASSUME NEW i, h \in OfIp(i) <=> c.at \in Steps /\ c.ip = i
      PROVE  OfIp(i)' = OfIp(i)
  BY <1>1, <1>2, MovedIp
<1>3. ASSUME NEW e, h \in PastLock(e) <=> c.at \in Steps \ {"lock"} /\ c.email = e
      PROVE  PastLock(e)' = PastLock(e)
  BY <1>1, <1>3, MovedLock
<1>4. ASSUME NEW d, h \in OfDevice(d) <=> c.at \in {"guest", "device"} /\ c.device = d
      PROVE  OfDevice(d)' = OfDevice(d)
  BY <1>1, <1>4, MovedGuest
<1>5. QED
  BY <1>2, <1>3, <1>4

LEMMA CallStays ==
  ASSUME LoginInv, NEW h \in Handlers, NEW c \in {Idle} \union Attempt \union Guest,
         pc' = [pc EXCEPT ![h] = c]
  PROVE  pc' \in [Handlers -> {Idle} \union Attempt \union Guest]
BY DEF LoginInv

\* Nothing is recorded.
LEMMA SameCounts ==
  ASSUME LoginInv, UNCHANGED <<failed, streak, guests>>
  PROVE  /\ \A ip \in Ips : FailuresOfIp(ip)' = FailuresOfIp(ip) /\ FailuresOfIp(ip) \in Nat
         /\ \A e \in Emails : /\ FailuresInRow(e, LockWindow)' = FailuresInRow(e, LockWindow)
                              /\ FailuresInRow(e, LockWindow) \in Nat
         /\ \A d \in Devices : guests'[d] = guests[d] /\ guests[d] \in Nat
         /\ Countable(failed)' /\ Countable(streak)' /\ guests' \in [Devices -> Nat]
<1>1. /\ \A ip : FailuresOfIp(ip)' = FailuresOfIp(ip)
      /\ \A e : FailuresInRow(e, LockWindow)' = FailuresInRow(e, LockWindow)
  BY DEF FailuresOfIp, FailuresInRow, Count, Attempts
<1>2. Countable(failed)' /\ Countable(streak)'
  BY DEF LoginInv, Countable, Attempts
<1>3. QED
  BY <1>1, <1>2, FailuresType DEF LoginInv, FailuresOfIp, FailuresInRow

\* A request ends, and nothing is recorded.
LEMMA LeaveStep ==
  ASSUME LoginInv, NEW h \in Handlers, Leave(h), UNCHANGED <<failed, streak, guests>>
  PROVE  LoginInv' /\ CountsMove
<1>1. Idle.at \notin Steps \union {"guest", "device"}
  BY DEF Idle, Steps
<1>2. LoginInv'
  BY SameCounts, CallStays DEF LoginInv, Leave
<1>3. /\ \A ip : OfIp(ip)' = OfIp(ip) \ {h}
      /\ \A e : PastLock(e)' = PastLock(e) \ {h}
      /\ \A d : OfDevice(d)' = OfDevice(d) \ {h}
  BY <1>1, MovedIp, MovedLock, MovedGuest DEF Leave
<1>4. \A c \in Nat : \A P, limit : CountMoves(c, c, P, P \ {h}, limit)
  <2> TAKE c \in Nat
  <2> TAKE P, limit
  <2>1. CASE h \in P
    BY <2>1 DEF CountMoves
  <2>2. CASE h \notin P
    <3>1. P \ {h} = P /\ c \in 0..c
      BY <2>2
    <3>2. QED
      BY <3>1 DEF CountMoves
  <2>3. QED
    BY <2>1, <2>2
<1>5. QED
  BY <1>2, <1>3, <1>4, SameCounts DEF CountsMove, IpMoves, LockMoves, GuestMoves

\* A request goes on, and no count waits for it that did not.
LEMMA GoesOnStep ==
  ASSUME LoginInv, UNCHANGED <<failed, streak, guests>>,
         NEW h \in Handlers, NEW c \in {Idle} \union Attempt \union Guest,
         pc' = [pc EXCEPT ![h] = c],
         \A ip \in Ips : OfIp(ip)' = OfIp(ip),
         \A e \in Emails : PastLock(e)' = PastLock(e),
         \A d \in Devices : OfDevice(d)' = OfDevice(d)
  PROVE  LoginInv' /\ CountsMove
<1>1. LoginInv'
  BY SameCounts, CallStays DEF LoginInv
<1>2. \A n \in Nat : \A P, limit : CountMoves(n, n, P, P, limit)
  BY DEF CountMoves
<1>3. QED
  BY <1>1, <1>2, SameCounts DEF CountsMove, IpMoves, LockMoves, GuestMoves

LEMMA LoginStep ==
  ASSUME LoginInv, NEW h \in Handlers, NEW ip \in Ips, NEW e \in Emails, Login(h, ip, e)
  PROVE  LoginInv' /\ CountsMove
<1>1. PICK c : c = [at |-> "lock", ip |-> ip, email |-> e]
  OBVIOUS
<1>2. /\ c.at = "lock" /\ c.ip = ip /\ c.at \in Steps /\ c.at \notin Steps \ {"lock"}
      /\ c.at \notin {"guest", "device"}
      /\ c \in Attempt /\ pc' = [pc EXCEPT ![h] = c] /\ UNCHANGED <<failed, streak, guests>>
  BY <1>1 DEF Login, Steps, Attempt
<1>3. /\ \A i : h \notin OfIp(i)
      /\ \A m : h \notin PastLock(m)
      /\ \A d : h \notin OfDevice(d)
  <2>1. pc[h].at = "idle"
    BY DEF Login, Idle
  <2>2. QED
    BY <2>1 DEF OfIp, PastLock, OfDevice, At, Steps
<1>4. /\ \A i \in Ips : OfIp(i)' = IF i = ip THEN OfIp(i) \union {h} ELSE OfIp(i)
      /\ \A m \in Emails : PastLock(m)' = PastLock(m)
      /\ \A d \in Devices : OfDevice(d)' = OfDevice(d)
  <2>1. \A i \in Ips : i = ip => OfIp(i)' = OfIp(i) \union {h}
    BY <1>2, MovedIp
  <2>2. \A i \in Ips : i # ip => OfIp(i)' = OfIp(i)
    BY <1>2, <1>3, MovedWithin
  <2>3. \A m \in Emails : PastLock(m)' = PastLock(m)
    BY <1>2, <1>3, MovedWithin
  <2>4. \A d \in Devices : OfDevice(d)' = OfDevice(d)
    BY <1>2, <1>3, MovedWithin
  <2>5. QED
    BY <2>1, <2>2, <2>3, <2>4
<1>5. LoginInv'
  BY <1>2, SameCounts, CallStays DEF LoginInv
<1>6. \A n \in Nat : \A P, limit : CountMoves(n, n, P, P, limit)
  BY DEF CountMoves
<1>7. FailuresOfIp(ip) < IpLimit
  BY FailuresType, LoginAssumption DEF Login, CheckLoginRateLimit
<1>8. IpMoves(ip)
  BY <1>2, <1>3, <1>4, <1>7, SameCounts DEF IpMoves, CountMoves
<1>9. QED
  BY <1>2, <1>4, <1>5, <1>6, <1>8, SameCounts DEF CountsMove, IpMoves, LockMoves, GuestMoves

\* The lock is asked, and lets the request pass.
LEMMA PassLockStep ==
  ASSUME LoginInv, NEW h \in Handlers, pc[h].at = "lock", FALSE \in CheckAccountLock(pc[h].email),
         Goto(h, "captcha"), UNCHANGED <<failed, streak, guests>>
  PROVE  LoginInv' /\ CountsMove
<1>1. PICK c, e : c = [pc[h] EXCEPT !.at = "captcha"] /\ e = pc[h].email
  OBVIOUS
<1>2. pc[h] \in Attempt
  BY DEF LoginInv, Idle, Guest
<1>3. /\ c.at = "captcha" /\ c.ip = pc[h].ip /\ c.email = e /\ e \in Emails
      /\ c \in Attempt /\ pc' = [pc EXCEPT ![h] = c]
  BY <1>1, <1>2 DEF Attempt, Goto, Steps
<1>4. /\ \A i : h \in OfIp(i) <=> i = c.ip
      /\ \A m : h \notin PastLock(m)
      /\ \A d : h \notin OfDevice(d)
  BY <1>3 DEF OfIp, PastLock, OfDevice, At, Steps
<1>5. c.at \in Steps /\ c.at \in Steps \ {"lock"} /\ c.at \notin {"guest", "device"}
  BY <1>3 DEF Steps
<1>6. /\ \A i \in Ips : OfIp(i)' = OfIp(i)
      /\ \A m \in Emails : PastLock(m)' = IF m = e THEN PastLock(m) \union {h} ELSE PastLock(m)
      /\ \A d \in Devices : OfDevice(d)' = OfDevice(d)
  <2>1. \A m \in Emails : m = e => PastLock(m)' = PastLock(m) \union {h}
    BY <1>3, <1>5, MovedLock
  <2>2. \A m \in Emails : m # e => PastLock(m)' = PastLock(m)
    BY <1>3, <1>4, MovedWithin
  <2>3. \A i \in Ips : OfIp(i)' = OfIp(i)
    BY <1>3, <1>4, <1>5, MovedWithin
  <2>4. \A d \in Devices : OfDevice(d)' = OfDevice(d)
    BY <1>3, <1>4, <1>5, MovedWithin
  <2>5. QED
    BY <2>1, <2>2, <2>3, <2>4
<1>7. LoginInv'
  BY <1>3, SameCounts, CallStays DEF LoginInv
<1>8. \A n \in Nat : \A P, limit : CountMoves(n, n, P, P, limit)
  BY DEF CountMoves
<1>9. FailuresInRow(e, LockWindow) < LockLimit
  BY <1>1, <1>3, FailuresType, LoginAssumption DEF CheckAccountLock
<1>10. LockMoves(e)
  BY <1>3, <1>4, <1>6, <1>9, SameCounts DEF LockMoves, CountMoves
<1>11. QED
  BY <1>6, <1>7, <1>8, <1>10, SameCounts DEF CountsMove, IpMoves, LockMoves, GuestMoves

\* A request past the lock goes from one step to the next.
LEMMA NextStep ==
  ASSUME LoginInv, NEW h \in Handlers, pc[h].at \in Steps \ {"lock"},
         NEW step \in Steps \ {"lock"}, Goto(h, step), UNCHANGED <<failed, streak, guests>>
  PROVE  LoginInv' /\ CountsMove
<1>1. PICK c : c = [pc[h] EXCEPT !.at = step]
  OBVIOUS
<1>2. pc[h] \in Attempt
  BY DEF LoginInv, Idle, Guest, Steps
<1>3. /\ c.at = step /\ c.ip = pc[h].ip /\ c.email = pc[h].email
      /\ c \in Attempt /\ pc' = [pc EXCEPT ![h] = c]
  BY <1>1, <1>2 DEF Attempt, Goto
<1>4. /\ \A i : h \in OfIp(i) <=> i = c.ip
      /\ \A m : h \in PastLock(m) <=> m = c.email
      /\ \A d : h \notin OfDevice(d)
  BY <1>3 DEF OfIp, PastLock, OfDevice, At, Steps
<1>5. c.at \in Steps /\ c.at \notin {"guest", "device"}
  BY <1>3 DEF Steps
<1>6. /\ \A i \in Ips : OfIp(i)' = OfIp(i)
      /\ \A m \in Emails : PastLock(m)' = PastLock(m)
      /\ \A d \in Devices : OfDevice(d)' = OfDevice(d)
  <2>1. \A i \in Ips : OfIp(i)' = OfIp(i)
    BY <1>3, <1>4, <1>5, MovedWithin
  <2>2. \A m \in Emails : PastLock(m)' = PastLock(m)
    BY <1>3, <1>4, MovedWithin
  <2>3. \A d \in Devices : OfDevice(d)' = OfDevice(d)
    BY <1>3, <1>4, <1>5, MovedWithin
  <2>4. QED
    BY <2>1, <2>2, <2>3
<1>7. QED
  BY <1>3, <1>6, GoesOnStep

LEMMA FailureStep ==
  ASSUME LoginInv, NEW h \in Handlers, RecordFailure(h)
  PROVE  LoginInv' /\ CountsMove
<1>1. PICK ip, e : ip = pc[h].ip /\ e = pc[h].email
  OBVIOUS
<1>2. pc[h].at = "failure" /\ pc[h] \in Attempt
  BY DEF RecordFailure, LoginInv, Idle, Guest
<1>3. /\ ip \in Ips /\ e \in Emails /\ Leave(h) /\ guests' = guests
      /\ failed' = Recorded(failed, ip, e) /\ streak' = Recorded(streak, ip, e)
  BY <1>1, <1>2 DEF RecordFailure, RecordLoginAttempt, Recorded, Attempt
<1>4. Idle.at \notin Steps \union {"guest", "device"}
  BY DEF Idle, Steps
<1>5. /\ \A i : OfIp(i)' = OfIp(i) \ {h}
      /\ \A m : PastLock(m)' = PastLock(m) \ {h}
      /\ \A d : OfDevice(d)' = OfDevice(d) \ {h}
  BY <1>3, <1>4, MovedIp, MovedLock, MovedGuest DEF Leave
<1>6. /\ \A i : h \in OfIp(i) <=> i = ip
      /\ \A m : h \in PastLock(m) <=> m = e
      /\ \A d : h \notin OfDevice(d)
  BY <1>1, <1>2 DEF OfIp, PastLock, OfDevice, At, Steps
<1>7. LoginInv'
  <2>1. Countable(failed') /\ Countable(streak')
    <3>1. Cells \subseteq Cells
      OBVIOUS
    <3>2. QED
      BY <1>3, <3>1, RecordCounts DEF LoginInv
  <2>2. pc' \in [Handlers -> {Idle} \union Attempt \union Guest]
    BY <1>3, CallStays DEF Leave
  <2>3. QED
    BY <1>3, <2>1, <2>2 DEF LoginInv, Countable, Attempts
<1>8. ASSUME NEW i \in Ips PROVE IpMoves(i)
  <2>1. FailuresOfIp(i)' = IF i = ip THEN FailuresOfIp(i) + 1 ELSE FailuresOfIp(i)
    <3>1. PICK K : K = OfAddress(i)
      OBVIOUS
    <3>2. K \subseteq Cells /\ (<<ip, e, 0>> \in K <=> i = ip)
      BY <1>3, <3>1, Windows
    <3>3. Count(failed', K) = IF i = ip THEN Count(failed, K) + 1 ELSE Count(failed, K)
      BY <1>3, <3>2, RecordCounts DEF LoginInv
    <3>4. FailuresOfIp(i) = Count(failed, K) /\ FailuresOfIp(i)' = Count(failed', K)
      BY <3>1, CountUnfolds DEF OfAddress
    <3>5. QED
      BY <3>3, <3>4
  <2>2. FailuresOfIp(i) \in Nat
    BY FailuresType
  <2>3. CASE i = ip
    BY <1>5, <1>6, <2>1, <2>2, <2>3 DEF IpMoves, CountMoves
  <2>4. CASE i # ip
    <3>1. OfIp(i)' = OfIp(i)
      BY <1>5, <1>6, <2>4
    <3>2. QED
      BY <2>1, <2>2, <2>4, <3>1 DEF IpMoves, CountMoves
  <2>5. QED
    BY <2>3, <2>4
<1>9. ASSUME NEW m \in Emails PROVE LockMoves(m)
  <2>1. FailuresInRow(m, LockWindow)'
          = IF m = e THEN FailuresInRow(m, LockWindow) + 1 ELSE FailuresInRow(m, LockWindow)
    <3>1. PICK K : K = OfAccount(m)
      OBVIOUS
    <3>2. K \subseteq Cells /\ (<<ip, e, 0>> \in K <=> m = e)
      BY <1>3, <3>1, Windows
    <3>3. Count(streak', K) = IF m = e THEN Count(streak, K) + 1 ELSE Count(streak, K)
      BY <1>3, <3>2, RecordCounts DEF LoginInv
    <3>4. /\ FailuresInRow(m, LockWindow) = Count(streak, K)
          /\ FailuresInRow(m, LockWindow)' = Count(streak', K)
      BY <3>1, CountUnfolds DEF OfAccount
    <3>5. QED
      BY <3>3, <3>4
  <2>2. FailuresInRow(m, LockWindow) \in Nat
    BY FailuresType
  <2>3. CASE m = e
    BY <1>5, <1>6, <2>1, <2>2, <2>3 DEF LockMoves, CountMoves
  <2>4. CASE m # e
    <3>1. PastLock(m)' = PastLock(m)
      BY <1>5, <1>6, <2>4
    <3>2. QED
      BY <2>1, <2>2, <2>4, <3>1 DEF LockMoves, CountMoves
  <2>5. QED
    BY <2>3, <2>4
<1>10. ASSUME NEW d \in Devices PROVE GuestMoves(d)
  <2>1. guests[d] \in Nat /\ guests'[d] = guests[d]
    BY <1>3 DEF LoginInv
  <2>2. OfDevice(d)' = OfDevice(d)
    BY <1>5, <1>6
  <2>3. QED
    BY <2>1, <2>2 DEF GuestMoves, CountMoves
<1>11. QED
  BY <1>7, <1>8, <1>9, <1>10 DEF CountsMove

\* A recorded success: the account's failures in a row start again.
LEMMA SignInStep ==
  ASSUME LoginInv, NEW h \in Handlers, SignIn(h)
  PROVE  LoginInv' /\ CountsMove
<1>1. PICK e : e = pc[h].email
  OBVIOUS
<1>2. pc[h].at = "success" /\ pc[h] \in Attempt
  BY DEF SignIn, LoginInv, Idle, Guest
<1>3. /\ e \in Emails /\ Leave(h) /\ guests' = guests /\ failed' = failed
      /\ streak' = [x \in Cells |-> IF x[2] = e THEN 0 ELSE streak[x]]
  BY <1>1, <1>2 DEF SignIn, Attempt, Cells
<1>4. Idle.at \notin Steps \union {"guest", "device"}
  BY DEF Idle, Steps
<1>5. /\ \A i : OfIp(i)' = OfIp(i) \ {h}
      /\ \A m : PastLock(m)' = PastLock(m) \ {h}
      /\ \A d : OfDevice(d)' = OfDevice(d) \ {h}
  BY <1>3, <1>4, MovedIp, MovedLock, MovedGuest DEF Leave
<1>6. /\ \A i : h \in OfIp(i) <=> i = pc[h].ip
      /\ \A m : h \in PastLock(m) <=> m = e
      /\ \A d : h \notin OfDevice(d)
  BY <1>1, <1>2 DEF OfIp, PastLock, OfDevice, At, Steps
<1>7. \A x \in Cells : streak'[x] \in 0..streak[x]
  BY <1>3 DEF LoginInv, Countable
<1>8. LoginInv'
  <2>1. streak' \in [Cells -> Nat]
    BY <1>3 DEF LoginInv, Countable
  <2>2. Countable(streak')
    BY <1>7, <2>1, FewerCounts DEF LoginInv, Countable
  <2>3. pc' \in [Handlers -> {Idle} \union Attempt \union Guest]
    BY <1>3, CallStays DEF Leave
  <2>4. QED
    BY <1>3, <2>2, <2>3 DEF LoginInv, Countable, Attempts
<1>9. ASSUME NEW i \in Ips PROVE IpMoves(i)
  <2>1. FailuresOfIp(i)' = FailuresOfIp(i) /\ FailuresOfIp(i) \in Nat
    BY <1>3, FailuresType DEF FailuresOfIp, Count, Attempts
  <2>2. CASE h \in OfIp(i)
    BY <1>5, <2>1, <2>2 DEF IpMoves, CountMoves
  <2>3. CASE h \notin OfIp(i)
    <3>1. OfIp(i)' = OfIp(i)
      BY <1>5, <2>3
    <3>2. QED
      BY <2>1, <3>1 DEF IpMoves, CountMoves
  <2>4. QED
    BY <2>2, <2>3
<1>10. ASSUME NEW m \in Emails PROVE LockMoves(m)
  <2>1. PICK K : K = OfAccount(m)
    OBVIOUS
  <2>2. Count(streak', K) \in 0..Count(streak, K)
    BY <1>7, <2>1, Windows, FewerCounts DEF LoginInv
  <2>3. /\ FailuresInRow(m, LockWindow) = Count(streak, K)
        /\ FailuresInRow(m, LockWindow)' = Count(streak', K)
    BY <2>1, CountUnfolds DEF OfAccount
  <2>4. /\ FailuresInRow(m, LockWindow) \in Nat
        /\ FailuresInRow(m, LockWindow)' \in 0..FailuresInRow(m, LockWindow)
    BY <2>2, <2>3, FailuresType
  <2>5. CASE m = e
    BY <1>5, <1>6, <2>4, <2>5 DEF LockMoves, CountMoves
  <2>6. CASE m # e
    <3>1. PastLock(m)' = PastLock(m)
      BY <1>5, <1>6, <2>6
    <3>2. QED
      BY <2>4, <3>1 DEF LockMoves, CountMoves
  <2>7. QED
    BY <2>5, <2>6
<1>11. ASSUME NEW d \in Devices PROVE GuestMoves(d)
  <2>1. guests[d] \in Nat /\ guests'[d] = guests[d]
    BY <1>3 DEF LoginInv
  <2>2. OfDevice(d)' = OfDevice(d)
    BY <1>5, <1>6
  <2>3. QED
    BY <2>1, <2>2 DEF GuestMoves, CountMoves
<1>12. QED
  BY <1>8, <1>9, <1>10, <1>11 DEF CountsMove

-----------------------------------------------------------------------------
LEMMA CreateGuestStep ==
  ASSUME LoginInv, NEW h \in Handlers, NEW d \in Devices, CreateGuest(h, d)
  PROVE  LoginInv' /\ CountsMove
<1>1. PICK c : c = [at |-> "guest", device |-> d]
  OBVIOUS
<1>2. /\ c.device = d /\ c.at \notin Steps /\ c.at \in {"guest", "device"}
      /\ c \in Guest /\ pc' = [pc EXCEPT ![h] = c] /\ UNCHANGED <<failed, streak, guests>>
  BY <1>1 DEF CreateGuest, Steps, Guest
<1>3. /\ \A i : h \notin OfIp(i)
      /\ \A m : h \notin PastLock(m)
      /\ \A x : h \notin OfDevice(x)
  <2>1. pc[h].at = "idle"
    BY DEF CreateGuest, Idle
  <2>2. QED
    BY <2>1 DEF OfIp, PastLock, OfDevice, At, Steps
<1>4. /\ \A i \in Ips : OfIp(i)' = OfIp(i)
      /\ \A m \in Emails : PastLock(m)' = PastLock(m)
      /\ \A x \in Devices : x # d => OfDevice(x)' = OfDevice(x)
  <2>1. c.at \notin Steps \ {"lock"}
    BY <1>2
  <2>2. QED
    BY <1>2, <1>3, <2>1, MovedWithin
<1>5. OfDevice(d)' = OfDevice(d) \union {h}
  BY <1>2, MovedGuest
<1>6. LoginInv'
  BY <1>2, SameCounts, CallStays DEF LoginInv
<1>7. \A n \in Nat : \A P, limit : CountMoves(n, n, P, P, limit)
  BY DEF CountMoves
<1>8. guests[d] < GuestLimit
  BY LoginAssumption DEF LoginInv, CreateGuest, CheckGuestDeviceLimit
<1>9. GuestMoves(d)
  BY <1>2, <1>3, <1>5, <1>8 DEF GuestMoves, CountMoves
<1>10. ASSUME NEW x \in Devices, x # d PROVE GuestMoves(x)
  BY <1>2, <1>4, <1>7, <1>10, SameCounts DEF GuestMoves
<1>11. QED
  BY <1>2, <1>4, <1>6, <1>7, <1>9, <1>10, SameCounts DEF CountsMove, IpMoves, LockMoves

LEMMA InsertGuestStep ==
  ASSUME LoginInv, NEW h \in Handlers, InsertGuest(h)
  PROVE  LoginInv' /\ CountsMove
<1>1. PICK c : c = [pc[h] EXCEPT !.at = "device"]
  OBVIOUS
<1>2. pc[h].at = "guest" /\ pc[h] \in Guest
  BY DEF InsertGuest, LoginInv, Idle, Attempt, Steps
<1>3. /\ c.device = pc[h].device /\ c.at = "device" /\ c \in Guest
      /\ pc' = [pc EXCEPT ![h] = c] /\ UNCHANGED <<failed, streak, guests>>
  BY <1>1, <1>2 DEF InsertGuest, Goto, Guest
<1>4. /\ \A i : h \notin OfIp(i)
      /\ \A m : h \notin PastLock(m)
      /\ \A d : h \in OfDevice(d) <=> c.device = d
  BY <1>2, <1>3 DEF OfIp, PastLock, OfDevice, At, Steps
<1>5. c.at \notin Steps /\ c.at \notin Steps \ {"lock"} /\ c.at \in {"guest", "device"}
  BY <1>3 DEF Steps
<1>6. /\ \A i \in Ips : OfIp(i)' = OfIp(i)
      /\ \A m \in Emails : PastLock(m)' = PastLock(m)
      /\ \A d \in Devices : OfDevice(d)' = OfDevice(d)
  BY <1>3, <1>4, <1>5, MovedWithin
<1>7. QED
  BY <1>3, <1>6, GoesOnStep

LEMMA RegisterStep ==
  ASSUME LoginInv, NEW h \in Handlers, RegisterDevice(h)
  PROVE  LoginInv' /\ CountsMove
<1>1. PICK d : d = pc[h].device
  OBVIOUS
<1>2. pc[h].at = "device" /\ pc[h] \in Guest
  BY DEF RegisterDevice, LoginInv, Idle, Attempt, Steps
<1>3. /\ d \in Devices /\ guests' = [guests EXCEPT ![d] = @ + 1]
      /\ failed' = failed /\ streak' = streak /\ Leave(h)
  BY <1>1, <1>2 DEF RegisterDevice, Guest
<1>4. Idle.at \notin Steps \union {"guest", "device"}
  BY DEF Idle, Steps
<1>5. /\ \A i : OfIp(i)' = OfIp(i) \ {h}
      /\ \A m : PastLock(m)' = PastLock(m) \ {h}
      /\ \A x : OfDevice(x)' = OfDevice(x) \ {h}
  BY <1>3, <1>4, MovedIp, MovedLock, MovedGuest DEF Leave
<1>6. /\ \A i : h \notin OfIp(i)
      /\ \A m : h \notin PastLock(m)
      /\ \A x : h \in OfDevice(x) <=> x = d
  BY <1>1, <1>2 DEF OfIp, PastLock, OfDevice, At, Steps
<1>7. /\ \A x \in Devices : /\ guests[x] \in Nat
                            /\ guests'[x] = IF x = d THEN guests[x] + 1 ELSE guests[x]
      /\ guests' \in [Devices -> Nat]
  BY <1>3 DEF LoginInv
<1>8. /\ \A ip : FailuresOfIp(ip)' = FailuresOfIp(ip)
      /\ \A e : FailuresInRow(e, LockWindow)' = FailuresInRow(e, LockWindow)
  BY <1>3 DEF FailuresOfIp, FailuresInRow, Count, Attempts
<1>9. LoginInv'
  BY <1>3, <1>7, CallStays DEF LoginInv, Leave, Countable, Attempts
<1>10. ASSUME NEW x \in Devices PROVE GuestMoves(x)
  <2>1. CASE x = d
    BY <1>5, <1>6, <1>7, <2>1 DEF GuestMoves, CountMoves
  <2>2. CASE x # d
    <3>1. OfDevice(x)' = OfDevice(x)
      BY <1>5, <1>6, <2>2
    <3>2. QED
      BY <1>7, <2>2, <3>1 DEF GuestMoves, CountMoves
  <2>3. QED
    BY <2>1, <2>2
<1>11. \A n \in Nat : \A P, limit : CountMoves(n, n, P, P, limit)
  BY DEF CountMoves
<1>12. /\ \A i : OfIp(i)' = OfIp(i)
       /\ \A m : PastLock(m)' = PastLock(m)
  BY <1>5, <1>6
<1>13. /\ \A i \in Ips : FailuresOfIp(i)' = FailuresOfIp(i) /\ FailuresOfIp(i) \in Nat
       /\ \A e \in Emails : /\ FailuresInRow(e, LockWindow)' = FailuresInRow(e, LockWindow)
                            /\ FailuresInRow(e, LockWindow) \in Nat
  BY <1>8, FailuresType
<1>14. QED
  BY <1>9, <1>10, <1>11, <1>12, <1>13 DEF CountsMove, IpMoves, LockMoves

LEMMA TickStep ==
  ASSUME LoginInv, Tick
  PROVE  LoginInv' /\ CountsMove
<1>1. /\ \A i : OfIp(i)' = OfIp(i)
      /\ \A m : PastLock(m)' = PastLock(m)
      /\ \A d : OfDevice(d)' = OfDevice(d)
  BY DEF Tick, OfIp, PastLock, OfDevice, At
<1>2. failed' = Older(failed) /\ streak' = Older(streak) /\ guests' = guests /\ pc' = pc
  BY DEF Tick
<1>3. LoginInv'
  <2>1. Countable(failed') /\ Countable(streak')
    BY <1>2, OlderCountable DEF LoginInv
  <2>2. QED
    BY <1>2, <2>1 DEF LoginInv, Countable, Attempts
<1>4. ASSUME NEW w \in Nat
      PROVE  \A a \in 0..(w - 1) : a # 0 => a - 1 \in 0..(w - 1)
  OBVIOUS
<1>5. Window \in Nat /\ LockWindow \in Nat
  BY LoginAssumption
<1>6. ASSUME NEW ip \in Ips PROVE IpMoves(ip)
  <2>1. PICK K : K = OfAddress(ip)
    OBVIOUS
  <2>2. K \subseteq Cells /\ \A x \in K : x[3] # 0 => <<x[1], x[2], x[3] - 1>> \in K
    <3>1. \A x \in OfAddress(ip) : x[3] # 0 => <<x[1], x[2], x[3] - 1>> \in OfAddress(ip)
      BY <1>4, <1>5 DEF OfAddress
    <3>2. QED
      BY <2>1, <3>1, Windows
  <2>3. Count(failed', K) \in 0..Count(failed, K)
    BY <1>2, <2>2, OlderCounts DEF LoginInv
  <2>4. FailuresOfIp(ip) = Count(failed, K) /\ FailuresOfIp(ip)' = Count(failed', K)
    BY <2>1, CountUnfolds DEF OfAddress
  <2>5. QED
    BY <1>1, <2>3, <2>4 DEF IpMoves, CountMoves
<1>7. ASSUME NEW e \in Emails PROVE LockMoves(e)
  <2>1. PICK K : K = OfAccount(e)
    OBVIOUS
  <2>2. K \subseteq Cells /\ \A x \in K : x[3] # 0 => <<x[1], x[2], x[3] - 1>> \in K
    <3>1. \A x \in OfAccount(e) : x[3] # 0 => <<x[1], x[2], x[3] - 1>> \in OfAccount(e)
      BY <1>4, <1>5 DEF OfAccount
    <3>2. QED
      BY <2>1, <3>1, Windows
  <2>3. Count(streak', K) \in 0..Count(streak, K)
    BY <1>2, <2>2, OlderCounts DEF LoginInv
  <2>4. /\ FailuresInRow(e, LockWindow) = Count(streak, K)
        /\ FailuresInRow(e, LockWindow)' = Count(streak', K)
    BY <2>1, CountUnfolds DEF OfAccount
  <2>5. QED
    BY <1>1, <2>3, <2>4 DEF LockMoves, CountMoves
<1>8. ASSUME NEW d \in Devices PROVE GuestMoves(d)
  <2>1. guests'[d] = guests[d] /\ guests[d] \in Nat
    BY DEF Tick, LoginInv
  <2>2. QED
    BY <1>1, <2>1 DEF GuestMoves, CountMoves
<1>9. QED
  BY <1>3, <1>6, <1>7, <1>8 DEF CountsMove

LEMMA StepMoves == LoginInv /\ [Next]_vars => LoginInv' /\ CountsMove
<1> SUFFICES ASSUME LoginInv, [Next]_vars PROVE LoginInv' /\ CountsMove
  OBVIOUS
<1>1. ASSUME NEW h \in Handlers, AskLock(h) PROVE LoginInv' /\ CountsMove
  <2>1. pc[h].at = "lock" /\ UNCHANGED <<failed, streak, guests>>
    BY <1>1 DEF AskLock
  <2>2. PICK locked \in CheckAccountLock(pc[h].email) :
          IF locked THEN Leave(h) ELSE Goto(h, "captcha")
    BY <1>1 DEF AskLock
  <2>3. CASE locked = TRUE
    BY <2>1, <2>2, <2>3, LeaveStep
  <2>4. CASE locked = FALSE
    BY <2>1, <2>2, <2>4, PassLockStep
  <2>5. locked \in BOOLEAN
    BY DEF CheckAccountLock
  <2>6. QED
    BY <2>3, <2>4, <2>5
<1>2. ASSUME NEW h \in Handlers, AskCaptcha(h) \/ VerifyCaptcha(h) \/ VerifyPassword(h)
      PROVE  LoginInv' /\ CountsMove
  <2>1. /\ pc[h].at \in Steps \ {"lock"} /\ UNCHANGED <<failed, streak, guests>>
        /\ Leave(h) \/ \E step \in Steps \ {"lock"} : Goto(h, step)
    BY <1>2 DEF AskCaptcha, VerifyCaptcha, VerifyPassword, Steps
  <2>2. QED
    BY <2>1, LeaveStep, NextStep
<1>3. ASSUME NEW h \in Handlers, FindAccount(h) \/ Abort(h)
      PROVE  LoginInv' /\ CountsMove
  BY <1>3, LeaveStep DEF FindAccount, Abort
<1>4. CASE UNCHANGED vars
  <2>1. /\ \A i : OfIp(i)' = OfIp(i)
        /\ \A m : PastLock(m)' = PastLock(m)
        /\ \A d : OfDevice(d)' = OfDevice(d)
    BY <1>4 DEF vars, OfIp, PastLock, OfDevice, At
  <2>2. UNCHANGED <<failed, streak, guests, pc>>
    BY <1>4 DEF vars
  <2>3. \A n \in Nat : \A P, limit : CountMoves(n, n, P, P, limit)
    BY DEF CountMoves
  <2>4. LoginInv'
    BY <2>2, SameCounts DEF LoginInv
  <2>5. QED
    BY <2>1, <2>2, <2>3, <2>4, SameCounts DEF CountsMove, IpMoves, LockMoves, GuestMoves
<1>5. QED
  BY <1>1, <1>2, <1>3, <1>4, LoginStep, FailureStep, SignInStep, CreateGuestStep, InsertGuestStep,
     RegisterStep, TickStep DEF Next

LEMMA InitLogin == Init => LoginInv
<1> SUFFICES ASSUME Init PROVE LoginInv
  OBVIOUS
<1>1. failed = [x \in Cells |-> 0] /\ streak = failed
  BY DEF Init, Cells
<1>2. Attempts(failed, Cells) = {}
  BY <1>1 DEF Attempts
<1>3. Countable(failed) /\ Countable(streak)
  BY <1>1, <1>2, FS_EmptySet DEF Countable
<1>4. QED
  BY <1>3 DEF Init, LoginInv

\* Every reachable state satisfies the invariant.
THEOREM LoginInvariant == Spec => []LoginInv
BY InitLogin, StepMoves, PTL DEF Spec

-----------------------------------------------------------------------------
(***************************************************************************)
(* The refinements.                                                        *)
(***************************************************************************)
LEMMA InitCounts ==
  ASSUME Init
  PROVE  /\ \A ip \in Ips : FailuresOfIp(ip) = 0 /\ Cardinality(OfIp(ip)) = 0
         /\ \A e \in Emails : FailuresInRow(e, LockWindow) = 0 /\ Cardinality(PastLock(e)) = 0
         /\ \A d \in Devices : guests[d] = 0 /\ Cardinality(OfDevice(d)) = 0
<1>1. failed = [x \in Cells |-> 0] /\ streak = failed
  BY DEF Init, Cells
<1>2. \A K \in SUBSET Cells : Attempts(failed, K) = {}
  BY <1>1 DEF Attempts
<1>3. \A K \in SUBSET Cells : Count(failed, K) = 0
  BY <1>2, FS_EmptySet DEF Count
<1>4. /\ \A ip \in Ips : FailuresOfIp(ip) = 0
      /\ \A e \in Emails : FailuresInRow(e, LockWindow) = 0
  BY <1>1, <1>3, Windows DEF FailuresOfIp, FailuresInRow, OfAddress, OfAccount
<1>5. /\ \A ip : OfIp(ip) = {}
      /\ \A e : PastLock(e) = {}
      /\ \A d : OfDevice(d) = {}
  BY DEF Init, Idle, OfIp, PastLock, OfDevice, At, Steps
<1>6. QED
  BY <1>4, <1>5, FS_EmptySet DEF Init

LEMMA WaitingRequests ==
  /\ \A ip : OfIp(ip) \subseteq Handlers
  /\ \A e : PastLock(e) \subseteq Handlers
  /\ \A d : OfDevice(d) \subseteq Handlers
BY DEF OfIp, PastLock, OfDevice, At

(***************************************************************************)
(* The failures of an address implement CheckedCount:                      *)
(* check_login_rate_limit lets a request through below the limit, and only *)
(* a request it let through can record another failure.                    *)
(***************************************************************************)
THEOREM AddressCounted == Spec => IpLimitKept
<1>1. Init => IpCount!Init
  BY InitCounts DEF IpCount!Init
<1>2. LoginInv /\ [Next]_vars => [IpCount!Next]_IpCount!countVars
  <2> SUFFICES ASSUME LoginInv, [Next]_vars, NEW ip \in Ips
               PROVE  IpCount!Admit(ip) \/ IpCount!Settle(ip) \/ IpCount!Decay(ip)
    BY DEF IpCount!Next
  <2>1. IpMoves(ip)
    BY StepMoves DEF CountsMove
  <2>2. PICK d, Q : d = FailuresOfIp(ip)' /\ Q = OfIp(ip)'
    OBVIOUS
  <2>3. FailuresOfIp(ip) \in Nat /\ CountMoves(FailuresOfIp(ip), d, OfIp(ip), Q, IpLimit)
    BY <2>1, <2>2, FailuresType DEF IpMoves
  <2>4. PICK P, c : P = OfIp(ip) /\ c = FailuresOfIp(ip)
    OBVIOUS
  <2>5. P \subseteq Handlers /\ c \in Nat /\ CountMoves(c, d, P, Q, IpLimit)
    BY <2>3, <2>4, WaitingRequests
  <2>6. \/ /\ c < IpLimit /\ Cardinality(P) < Cardinality(Handlers)
           /\ Cardinality(Q) = Cardinality(P) + 1 /\ d = c
        \/ /\ Cardinality(P) > 0
           /\ Cardinality(Q) = Cardinality(P) - 1 /\ d \in 0..(c + 1)
        \/ d \in 0..c /\ Cardinality(Q) = Cardinality(P)
    BY <2>5, CountMovesOn
  <2>7. QED
    BY <2>2, <2>4, <2>6 DEF IpCount!Admit, IpCount!Settle, IpCount!Decay
<1>3. QED
  BY <1>1, <1>2, LoginInvariant, PTL DEF Spec, IpLimitKept, IpCount!CountSpec

(***************************************************************************)
(* So do the consecutive failures on an account, from whatever address:    *)
(* under any reading of is_account_locked, only requests already past that *)
(* check add to them once they have reached the limit; and a success       *)
(* clears them.                                                            *)
(***************************************************************************)
THEOREM AccountCounted == Spec => LockKept
<1>1. Init => LockCount!Init
  BY InitCounts DEF LockCount!Init
<1>2. LoginInv /\ [Next]_vars => [LockCount!Next]_LockCount!countVars
  <2> SUFFICES ASSUME LoginInv, [Next]_vars, NEW e \in Emails
               PROVE  LockCount!Admit(e) \/ LockCount!Settle(e) \/ LockCount!Decay(e)
    BY DEF LockCount!Next
  <2>1. LockMoves(e)
    BY StepMoves DEF CountsMove
  <2>2. PICK d, Q : d = FailuresInRow(e, LockWindow)' /\ Q = PastLock(e)'
    OBVIOUS
  <2>3. /\ FailuresInRow(e, LockWindow) \in Nat
        /\ CountMoves(FailuresInRow(e, LockWindow), d, PastLock(e), Q, LockLimit)
    BY <2>1, <2>2, FailuresType DEF LockMoves
  <2>4. PICK P, c : P = PastLock(e) /\ c = FailuresInRow(e, LockWindow)
    OBVIOUS
  <2>5. P \subseteq Handlers /\ c \in Nat /\ CountMoves(c, d, P, Q, LockLimit)
    BY <2>3, <2>4, WaitingRequests
  <2>6. \/ /\ c < LockLimit /\ Cardinality(P) < Cardinality(Handlers)
           /\ Cardinality(Q) = Cardinality(P) + 1 /\ d = c
        \/ /\ Cardinality(P) > 0
           /\ Cardinality(Q) = Cardinality(P) - 1 /\ d \in 0..(c + 1)
        \/ d \in 0..c /\ Cardinality(Q) = Cardinality(P)
    BY <2>5, CountMovesOn
  <2>7. QED
    BY <2>2, <2>4, <2>6 DEF LockCount!Admit, LockCount!Settle, LockCount!Decay
<1>3. QED
  BY <1>1, <1>2, LoginInvariant, PTL DEF Spec, LockKept, LockCount!CountSpec

(***************************************************************************)
(* And the guests of a device: check_guest_device_limit asks before the    *)
(* guest is inserted, and the device is registered last.                   *)
(***************************************************************************)
THEOREM DeviceCounted == Spec => GuestLimitKept
<1>1. Init => GuestCount!Init
  BY InitCounts DEF Init, GuestCount!Init
<1>2. LoginInv /\ [Next]_vars => [GuestCount!Next]_GuestCount!countVars
  <2> SUFFICES ASSUME LoginInv, [Next]_vars
               PROVE  GuestCount!Next
    OBVIOUS
  <2>1. guests' = [d \in Devices |-> guests'[d]]
    BY StepMoves DEF LoginInv
  <2>2. ASSUME NEW d \in Devices
        PROVE  GuestCount!Admit(d) \/ GuestCount!Settle(d) \/ GuestCount!Decay(d)
    <3>1. GuestMoves(d)
      BY StepMoves DEF CountsMove
    <3>2. PICK n, Q : n = guests'[d] /\ Q = OfDevice(d)'
      OBVIOUS
    <3>3. guests[d] \in Nat /\ CountMoves(guests[d], n, OfDevice(d), Q, GuestLimit)
      BY <3>1, <3>2 DEF GuestMoves, LoginInv
    <3>4. PICK P, c : P = OfDevice(d) /\ c = guests[d]
      OBVIOUS
    <3>5. P \subseteq Handlers /\ c \in Nat /\ CountMoves(c, n, P, Q, GuestLimit)
      BY <3>3, <3>4, WaitingRequests
    <3>6. \/ /\ c < GuestLimit /\ Cardinality(P) < Cardinality(Handlers)
             /\ Cardinality(Q) = Cardinality(P) + 1 /\ n = c
          \/ /\ Cardinality(P) > 0
             /\ Cardinality(Q) = Cardinality(P) - 1 /\ n \in 0..(c + 1)
          \/ n \in 0..c /\ Cardinality(Q) = Cardinality(P)
      BY <3>5, CountMovesOn
    <3>7. QED
      BY <3>2, <3>4, <3>6 DEF GuestCount!Admit, GuestCount!Settle, GuestCount!Decay
  <2>3. QED
    BY <2>1, <2>2 DEF GuestCount!Next
<1>3. QED
  BY <1>1, <1>2, LoginInvariant, PTL DEF Spec, GuestLimitKept, GuestCount!CountSpec

-----------------------------------------------------------------------------
(***************************************************************************)
(* How far a limit is passed.                                              *)
(***************************************************************************)
LEMMA OvershootOfOne ==
  ASSUME NEW limit \in Nat \ {0}, NEW slots \in Nat,
         NEW c \in Nat, NEW p \in 0..slots, c + p < limit + slots, NEW d, NEW q,
         \/ c < limit /\ p < slots /\ q = p + 1 /\ d = c
         \/ p > 0 /\ q = p - 1 /\ d \in 0..(c + 1)
         \/ d \in 0..c /\ q = p
  PROVE  d \in Nat /\ q \in 0..slots /\ d + q < limit + slots
<1>1. ASSUME d \in 0..c, q = p
      PROVE  d \in Nat /\ q \in 0..slots /\ d + q < limit + slots
  BY <1>1
<1>2. QED
  BY <1>1

LEMMA Slots ==
  /\ Cardinality(Handlers) \in Nat
  /\ {IpLimit, LockLimit, GuestLimit} \subseteq Nat \ {0}
BY LoginAssumption, FS_CardinalityType

(***************************************************************************)
(* "5 tentatives/15min par IP": an address collects fewer failures than    *)
(* the limit and one for each request that can be under way at once.       *)
(***************************************************************************)
THEOREM AddressOvershoot == Spec => []IpCount!Overshoot
<1>1. IpCount!Init => IpCount!Overshoot
  BY Slots DEF IpCount!Init, IpCount!Overshoot
<1>2. IpCount!Overshoot /\ [IpCount!Next]_IpCount!countVars => IpCount!Overshoot'
  <2> SUFFICES ASSUME IpCount!Overshoot, IpCount!Next, NEW ip \in Ips,
                      NEW d, d = FailuresOfIp(ip)', NEW q, q = Cardinality(OfIp(ip))'
               PROVE  /\ d \in Nat /\ q \in 0..Cardinality(Handlers)
                      /\ d + q < IpLimit + Cardinality(Handlers)
    BY DEF IpCount!Overshoot, IpCount!countVars
  <2>1. IpCount!Admit(ip) \/ IpCount!Settle(ip) \/ IpCount!Decay(ip)
    BY DEF IpCount!Next
  <2>2. QED
    BY <2>1, Slots, OvershootOfOne
    DEF IpCount!Overshoot, IpCount!Admit, IpCount!Settle, IpCount!Decay
<1>3. QED
  BY <1>1, <1>2, AddressCounted, PTL DEF IpLimitKept, IpCount!CountSpec

(***************************************************************************)
(* "Après 10 échecs consécutifs": an account collects fewer consecutive    *)
(* failures than the limit that locks it and one for each request at once, *)
(* though they come from as many addresses.                                *)
(***************************************************************************)
THEOREM AccountOvershoot == Spec => []LockCount!Overshoot
<1>1. LockCount!Init => LockCount!Overshoot
  BY Slots DEF LockCount!Init, LockCount!Overshoot
<1>2. LockCount!Overshoot /\ [LockCount!Next]_LockCount!countVars => LockCount!Overshoot'
  <2> SUFFICES ASSUME LockCount!Overshoot, LockCount!Next, NEW e \in Emails,
                      NEW d, d = FailuresInRow(e, LockWindow)',
                      NEW q, q = Cardinality(PastLock(e))'
               PROVE  /\ d \in Nat /\ q \in 0..Cardinality(Handlers)
                      /\ d + q < LockLimit + Cardinality(Handlers)
    BY DEF LockCount!Overshoot, LockCount!countVars
  <2>1. LockCount!Admit(e) \/ LockCount!Settle(e) \/ LockCount!Decay(e)
    BY DEF LockCount!Next
  <2>2. QED
    BY <2>1, Slots, OvershootOfOne
    DEF LockCount!Overshoot, LockCount!Admit, LockCount!Settle, LockCount!Decay
<1>3. QED
  BY <1>1, <1>2, AccountCounted, PTL DEF LockKept, LockCount!CountSpec

(***************************************************************************)
(* A device has fewer guests than the limit and one for each request that  *)
(* creates guests at once.                                                 *)
(***************************************************************************)
THEOREM DeviceOvershoot == Spec => []GuestCount!Overshoot
<1>1. GuestCount!Init => GuestCount!Overshoot
  BY Slots DEF GuestCount!Init, GuestCount!Overshoot
<1>2. GuestCount!Overshoot /\ [GuestCount!Next]_GuestCount!countVars => GuestCount!Overshoot'
  <2> SUFFICES ASSUME GuestCount!Overshoot, GuestCount!Next, NEW d \in Devices,
                      NEW n, n = guests'[d], NEW q, q = Cardinality(OfDevice(d))'
               PROVE  /\ n \in Nat /\ q \in 0..Cardinality(Handlers)
                      /\ n + q < GuestLimit + Cardinality(Handlers)
    BY DEF GuestCount!Overshoot, GuestCount!countVars
  <2>1. GuestCount!Admit(d) \/ GuestCount!Settle(d) \/ GuestCount!Decay(d)
    BY DEF GuestCount!Next
  <2>2. QED
    BY <2>1, Slots, OvershootOfOne
    DEF GuestCount!Overshoot, GuestCount!Admit, GuestCount!Settle, GuestCount!Decay
<1>3. QED
  BY <1>1, <1>2, DeviceCounted, PTL DEF GuestLimitKept, GuestCount!CountSpec
=============================================================================

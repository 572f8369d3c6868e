---------------------------- MODULE GatewayProofs ---------------------------
(***************************************************************************)
(* What holds of the breaker, for every threshold, timeout and number of   *)
(* requests under way; and of the gateway, for every limit and window.     *)
(* The breaker behaves in the gateway as CircuitBreaker says, whoever asks *)
(* and whoever is turned away before it, so the gateway has what it has.   *)
(***************************************************************************)
EXTENDS Gateway, FiniteSetTheorems, TLAPS

-----------------------------------------------------------------------------
(***************************************************************************)
(* The breaker.                                                            *)
(***************************************************************************)
LEMMA BreakerTyping == TypeOK /\ [Next]_vars => TypeOK'
<1> SUFFICES ASSUME TypeOK, [Next]_vars PROVE TypeOK'
  OBVIOUS
<1> USE BreakerAssumption DEF TypeOK, Goto
<1>1. ASSUME NEW r \in Requests, Pass(r) \/ Refuse(r) \/ Retry(r) \/ Abort(r)
      PROVE  TypeOK'
  BY <1>1 DEF Pass, Refuse, Retry, Abort, vars
<1>2. ASSUME NEW r \in Requests, Step(r)
      PROVE  TypeOK'
  <2>1. /\ failures' = 0 \/ failures' = failures + 1
        /\ age' = age \/ age' = 0
        /\ pc' = [pc EXCEPT ![r] = "sending"] \/ pc' = [pc EXCEPT ![r] = "idle"]
    BY <1>2, Zenon DEF Step, Reset, RecordSuccess, RecordFailure, Close
  <2>2. isOpen' \in BOOLEAN
    BY <1>2, Zenon DEF Step, Reset, RecordSuccess, RecordFailure, Close
  <2>3. failures \in Nat /\ age \in 0..Old /\ pc \in [Requests -> {"idle", "reset", "sending"}]
    OBVIOUS
  <2> HIDE DEF TypeOK
  <2>4. failures' \in Nat /\ age' \in 0..Old /\ pc' \in [Requests -> {"idle", "reset", "sending"}]
    BY <2>1, <2>3 DEF Old
  <2>5. QED
    BY <2>2, <2>4 DEF TypeOK
<1>3. CASE Tick
  BY <1>3 DEF Tick, Expired, Old
<1>4. CASE UNCHANGED vars
  BY <1>4 DEF vars
<1>5. QED
  BY <1>1, <1>2, <1>3, <1>4 DEF Next

(***************************************************************************)
(* Every reachable state is well typed: the age of the last failure stays  *)
(* within what is_open compares it with.                                   *)
(***************************************************************************)
THEOREM BreakerTypeCorrect == Spec => []TypeOK
<1>1. Init => TypeOK
  <2>1. Init => age \in 0..Old
    BY BreakerAssumption DEF Init, Old
  <2>2. Init => isOpen \in BOOLEAN
    BY DEF Init
  <2>3. Init => failures \in Nat /\ pc \in [Requests -> {"idle", "reset", "sending"}]
    BY DEF Init
  <2>4. QED
    BY <2>1, <2>2, <2>3 DEF TypeOK
<1>2. QED
  BY <1>1, BreakerTyping, PTL DEF Spec

-----------------------------------------------------------------------------
LEMMA CountOfSending ==
  ASSUME NEW S, S \subseteq Requests
  PROVE  IsFiniteSet(S) /\ Cardinality(S) \in Nat /\ Cardinality(S) <= Cardinality(Requests)
BY BreakerAssumption, FS_Subset, FS_CardinalityType

LEMMA BoundStep == TypeOK /\ FailuresBounded /\ [Next]_vars => FailuresBounded'
<1> SUFFICES ASSUME TypeOK, FailuresBounded, [Next]_vars PROVE FailuresBounded'
  OBVIOUS
<1> DEFINE all == Cardinality(Requests)
           n == Cardinality(Sending)
<1>1. /\ n \in Nat /\ n <= all /\ IsFiniteSet(Sending)
      /\ Cardinality(Sending') \in Nat /\ Cardinality(Sending') <= all
      /\ all \in Nat /\ failures \in Nat /\ Threshold \in Nat \ {0}
  <2>1. Sending \subseteq Requests /\ Sending' \subseteq Requests
    BY DEF Sending
  <2>2. QED
    BY <2>1, CountOfSending, BreakerAssumption, FS_CardinalityType DEF TypeOK
<1>2. (isOpen <=> failures >= Threshold) /\ failures + n < Threshold + all
  BY DEF FailuresBounded
\* Nothing is recorded, and no request more is sent.
<1>3. ASSUME UNCHANGED <<failures, isOpen>>, Sending' \subseteq Sending
      PROVE  FailuresBounded'
  <2>1. Cardinality(Sending') <= n
    BY <1>1, <1>3, FS_Subset
  <2>2. QED
    BY <1>1, <1>2, <1>3, <2>1 DEF FailuresBounded
\* The breaker is closed.
<1>4. ASSUME failures' < Threshold, failures' \in Nat, ~isOpen'
      PROVE  FailuresBounded'
  BY <1>1, <1>4 DEF FailuresBounded
<1>5. ASSUME NEW r \in Requests, Pass(r)
      PROVE  FailuresBounded'
  <2>1. failures' = failures /\ ~isOpen /\ ~isOpen'
    BY <1>5, Zenon DEF Pass
  <2>2. ~(failures >= Threshold)
    BY <1>2, <2>1, Zenon
  <2>3. failures' < Threshold /\ failures' \in Nat
    BY <1>1, <2>1, <2>2
  <2>4. QED
    BY <1>4, <2>1, <2>3, Zenon
<1>6. ASSUME NEW r \in Requests, Refuse(r) \/ Retry(r) \/ Abort(r)
      PROVE  FailuresBounded'
  <2>1. Sending' \subseteq Sending
    BY <1>6 DEF Refuse, Retry, Abort, Goto, Sending, TypeOK, vars
  <2>2. QED
    BY <1>3, <1>6, <2>1 DEF Refuse, Retry, Abort, vars
<1>7. ASSUME NEW r \in Requests, Reset(r) \/ RecordSuccess(r)
      PROVE  FailuresBounded'
  <2>1. failures' = 0 /\ ~isOpen'
    BY <1>7, Zenon DEF Reset, RecordSuccess, Close
  <2>2. failures' < Threshold /\ failures' \in Nat
    BY <1>1, <2>1
  <2>3. QED
    BY <1>4, <2>1, <2>2, Zenon
<1>8. ASSUME NEW r \in Requests, RecordFailure(r)
      PROVE  FailuresBounded'
  <2>1. r \in Sending /\ Sending' = Sending \ {r}
    BY <1>8 DEF RecordFailure, Goto, Sending, TypeOK
  <2>2. Cardinality(Sending') = n - 1
    BY <1>1, <2>1, FS_RemoveElement
  <2>3. failures' = failures + 1 /\ isOpen' = IF failures' >= Threshold THEN TRUE ELSE isOpen
    BY <1>8 DEF RecordFailure
  <2>4. isOpen' <=> failures' >= Threshold
    BY <1>1, <1>2, <2>3
  <2>5. failures' + Cardinality(Sending') < Threshold + all
    BY <1>1, <1>2, <2>2, <2>3
  <2>6. QED
    BY <2>4, <2>5 DEF FailuresBounded
<1>9. CASE Tick \/ UNCHANGED vars
  BY <1>3, <1>9 DEF Tick, vars, Sending
<1>10. QED
  BY <1>5, <1>6, <1>7, <1>8, <1>9 DEF Next, Step

(***************************************************************************)
(* A breaker is open exactly when enough failures are on record, and a     *)
(* service is asked in vain at most threshold - 1 times plus once for each *)
(* request under way (record_failure, reset).                              *)
(***************************************************************************)
THEOREM BreakerBound == Spec => []FailuresBounded
<1>1. Init => FailuresBounded
  <2> SUFFICES ASSUME Init PROVE FailuresBounded
    OBVIOUS
  <2>1. Sending = {}
    BY DEF Init, Sending
  <2>2. Cardinality(Sending) = 0 /\ Cardinality(Requests) \in Nat
    BY <2>1, FS_EmptySet, BreakerAssumption, FS_CardinalityType
  <2>3. QED
    BY <2>2, BreakerAssumption DEF Init, FailuresBounded
<1>2. QED
  BY <1>1, BoundStep, BreakerTypeCorrect, PTL DEF Spec

-----------------------------------------------------------------------------
(***************************************************************************)
(* The gateway has the breaker.                                            *)
(***************************************************************************)
LEMMA BreakerStep == [GatewayNext]_gatewayVars => [Next]_vars
<1> SUFFICES ASSUME [GatewayNext]_gatewayVars PROVE [Next]_vars
  OBVIOUS
<1>1. ASSUME NEW r \in Requests, Proxy(r) \/ CloseAgain(r) \/ Answer(r) \/ Drop(r)
      PROVE  [Next]_vars
  BY <1>1, Zenon DEF Proxy, CloseAgain, Answer, Drop, Next, Step
<1>2. ASSUME NEW r \in Requests, NEW path \in Paths, ServePublic(r, path)
      PROVE  [Next]_vars
  BY <1>2, Zenon DEF ServePublic, vars
<1>3. ASSUME NEW r \in Requests, NEW path \in Paths, NEW who \in Users \union {NoToken},
             Serve(r, path, who)
      PROVE  [Next]_vars
  BY <1>3, Zenon DEF Serve
<1>4. CASE Clock
  BY <1>4, Zenon DEF Clock, Next
<1>5. CASE UNCHANGED gatewayVars
  BY <1>5, Zenon DEF gatewayVars, vars
<1>6. QED
  BY <1>1, <1>2, <1>3, <1>4, <1>5, Zenon DEF GatewayNext

(***************************************************************************)
(* The gateway implements its breaker: authentication, the limiter and the *)
(* routes in front of proxy_request take no step of the breaker's that     *)
(* CircuitBreaker does not.                                                *)
(***************************************************************************)
THEOREM GatewayHasBreaker == GatewaySpec => Spec
BY BreakerStep, PTL DEF GatewaySpec, GatewayInit, Spec

(***************************************************************************)
(* Behind the limiter, too, a service that is down is asked in vain a      *)
(* bounded number of times (record_failure, is_open).                      *)
(***************************************************************************)
THEOREM GatewayBound == GatewaySpec => []FailuresBounded
BY GatewayHasBreaker, BreakerBound, PTL

-----------------------------------------------------------------------------
(***************************************************************************)
(* The limiter.                                                            *)
(*                                                                         *)
(* The inductive invariant: what the log knows of the window is what was   *)
(* admitted in it, though the log may still hold what has left the window. *)
(***************************************************************************)
Logs == [Ages -> Nat]

LogKnowsWindow == \A u \in Users : admitted[u] = Retain(log[u])

LimiterInv ==
  /\ log \in [Users -> Logs] /\ admitted \in [Users -> Logs]
  /\ LogKnowsWindow
  /\ \A u \in Users : IsFiniteSet(Entries(admitted[u])) /\ Total(admitted[u]) <= Limit

LEMMA AgesType ==
  /\ 0 \in Ages /\ Window \in Ages /\ 0 # Window
  /\ \A a \in Ages : /\ a \in Int
                     /\ a # 0 => a - 1 \in Ages /\ 0 < a /\ a - 1 < Window
                     /\ a # Window <=> a < Window
BY GatewayAssumption DEF Ages

LEMMA OlderType ==
  ASSUME NEW l \in Logs
  PROVE  /\ Older(l) \in Logs /\ Older(l)[0] = 0
         /\ \A a \in Ages : a # 0 /\ a # Window => Older(l)[a] = l[a - 1]
<1>1. \A a \in Ages : a # 0 => l[a - 1] \in Nat /\ l[a] \in Nat
  BY AgesType DEF Logs
<1>2. \A a \in Ages :
        (IF a = 0 THEN 0 ELSE IF a < Window THEN l[a - 1] ELSE l[a - 1] + l[a]) \in Nat
  BY <1>1
<1>3. QED
  BY <1>2, AgesType DEF Logs, Older

LEMMA RetainType ==
  ASSUME NEW l \in Logs
  PROVE  /\ Retain(l) \in Logs /\ Retain(Retain(l)) = Retain(l)
         /\ Retain(OneMore(Retain(l))) = OneMore(Retain(l))
<1>1. Retain(l) \in Logs /\ Retain(Retain(l)) = Retain(l)
  BY DEF Logs, Retain
<1>2. 0 < Window
  BY GatewayAssumption
<1>3. QED
  BY <1>1, <1>2, AgesType DEF Logs, Retain, OneMore

\* One admission more is one entry more.
LEMMA OneEntryMore ==
  ASSUME NEW l \in Logs, IsFiniteSet(Entries(l)),
         NEW m, m = OneMore(l)
  PROVE  /\ m \in Logs
         /\ IsFiniteSet(Entries(m)) /\ Total(m) = Total(l) + 1
<1>1. /\ m \in Logs /\ m[0] = l[0] + 1 /\ l[0] \in Nat
      /\ \A a \in Ages \ {0} : m[a] = l[a]
  BY AgesType DEF Logs, OneMore
<1>2. PICK e : e = <<0, m[0]>>
  OBVIOUS
<1>3. Entries(m) = Entries(l) \union {e}
  <2>1. 1..m[0] = (1..l[0]) \union {m[0]}
    BY <1>1
  <2>2. ASSUME NEW x \in Entries(m) PROVE x \in Entries(l) \union {e}
    <3>1. PICK a \in Ages : x \in {a} \X (1..m[a])
      BY <2>2 DEF Entries
    <3>2. CASE a = 0
      <4>1. x = e \/ x \in {0} \X (1..l[0])
        BY <1>2, <2>1, <3>1, <3>2
      <4>2. QED
        BY <3>2, <4>1 DEF Entries
    <3>3. CASE a # 0
      BY <1>1, <3>1, <3>3 DEF Entries
    <3>4. QED
      BY <3>2, <3>3
  <2>3. ASSUME NEW x \in Entries(l) PROVE x \in Entries(m)
    <3>1. PICK a \in Ages : x \in {a} \X (1..l[a])
      BY <2>3 DEF Entries
    <3>2. 1..l[a] \subseteq 1..m[a]
      BY <1>1, <2>1
    <3>3. QED
      BY <3>1, <3>2 DEF Entries
  <2>4. e \in Entries(m)
    <3>1. e \in {0} \X (1..m[0])
      BY <1>1, <1>2
    <3>2. QED
      BY <3>1, AgesType DEF Entries
  <2>5. QED
    BY <2>2, <2>3, <2>4
<1>4. e \notin Entries(l)
  <2> SUFFICES ASSUME e \in Entries(l) PROVE FALSE
    OBVIOUS
  <2>1. PICK a \in Ages : e \in {a} \X (1..l[a])
    BY DEF Entries
  <2>2. a = 0 /\ m[0] \in 1..l[0]
    BY <1>2, <2>1
  <2>3. QED
    BY <1>1, <2>2
<1>5. QED
  <2>1. /\ IsFiniteSet(Entries(l) \union {e})
        /\ Cardinality(Entries(l) \union {e}) = Cardinality(Entries(l)) + 1
    BY <1>4, FS_AddElement
  <2>2. QED
    BY <1>1, <1>3, <2>1 DEF Total

\* What gets older and leaves the window is entries less.
LEMMA OlderLess ==
  ASSUME NEW l \in Logs, IsFiniteSet(Entries(l)),
         NEW m, m = [Older(l) EXCEPT ![Window] = 0]
  PROVE  /\ m \in Logs
         /\ IsFiniteSet(Entries(m)) /\ Total(m) <= Total(l)
<1>1. Older(l) \in Logs /\ Older(l)[0] = 0
  BY OlderType
<1>2. /\ m \in Logs /\ m[0] = 0 /\ m[Window] = 0
      /\ \A a \in Ages : a # 0 /\ a # Window => m[a] = l[a - 1]
  <2>1. \A a \in Ages : m[a] = IF a = Window THEN 0 ELSE Older(l)[a]
    BY <1>1 DEF Logs
  <2>2. m \in Logs
    BY <1>1, AgesType DEF Logs
  <2>3. QED
    BY <1>1, <2>1, <2>2, AgesType, OlderType
<1>3. ASSUME NEW x \in Entries(m)
      PROVE  /\ x = <<x[1], x[2]>> /\ x[1] \in Ages
             /\ <<x[1] - 1, x[2]>> \in Entries(l)
  <2>1. PICK a \in Ages : x \in {a} \X (1..m[a])
    BY <1>3 DEF Entries
  <2>2. x = <<x[1], x[2]>> /\ x[1] = a /\ x[2] \in 1..m[a]
    BY <2>1
  <2>3. a # 0 /\ a # Window
    BY <1>2, <2>2
  <2>4. <<a - 1, x[2]>> \in {a - 1} \X (1..l[a - 1]) /\ a - 1 \in Ages
    BY <1>2, <2>2, <2>3, AgesType
  <2>5. QED
    BY <2>2, <2>4 DEF Entries
<1>4. PICK f : f = [x \in Entries(m) |-> <<x[1] - 1, x[2]>>]
  OBVIOUS
<1>5. f \in Injection(Entries(m), Entries(l))
  <2>1. f \in [Entries(m) -> Entries(l)]
    BY <1>3, <1>4
  <2>2. ASSUME NEW x \in Entries(m), NEW y \in Entries(m), f[x] = f[y]
        PROVE  x = y
    <3>1. x = <<x[1], x[2]>> /\ y = <<y[1], y[2]>> /\ x[1] \in Int /\ y[1] \in Int
      BY <1>3, AgesType
    <3>2. x[1] - 1 = y[1] - 1 /\ x[2] = y[2]
      BY <1>4, <2>2
    <3>3. x[1] = y[1]
      BY <3>1, <3>2
    <3>4. QED
      BY <3>1, <3>2, <3>3
  <2>3. QED
    BY <2>1, <2>2 DEF Injection, IsInjective
<1>6. QED
  BY <1>2, <1>5, FS_Injection DEF Total

LEMMA AdmitStep ==
  ASSUME LimiterInv, NEW u \in Users, Admit(u)
  PROVE  LimiterInv'
<1>1. PICK m : m = OneMore(admitted[u])
  OBVIOUS
<1>2. admitted[u] \in Logs /\ log[u] \in Logs /\ admitted[u] = Retain(log[u])
  BY DEF LimiterInv, LogKnowsWindow
<1>3. admitted' = [admitted EXCEPT ![u] = m] /\ log' = [log EXCEPT ![u] = m]
  BY <1>1, <1>2 DEF Admit
<1>4. Total(admitted[u]) < Limit
  BY <1>2 DEF Admit, Room
<1>5. m \in Logs /\ IsFiniteSet(Entries(m)) /\ Total(m) = Total(admitted[u]) + 1
  BY <1>1, <1>2, OneEntryMore DEF LimiterInv
<1>6. Total(m) <= Limit
  <2>1. Total(admitted[u]) \in Nat
    BY FS_CardinalityType DEF Total, LimiterInv
  <2>2. QED
    BY <1>4, <1>5, <2>1, GatewayAssumption
<1>7. Retain(m) = m
  BY <1>1, <1>2, RetainType
<1>8. \A v \in Users : /\ admitted'[v] = IF v = u THEN m ELSE admitted[v]
                       /\ log'[v] = IF v = u THEN m ELSE log[v]
  BY <1>3 DEF LimiterInv
<1>9. log' \in [Users -> Logs] /\ admitted' \in [Users -> Logs]
  BY <1>3, <1>5 DEF LimiterInv
<1>10. LogKnowsWindow'
  BY <1>7, <1>8 DEF LimiterInv, LogKnowsWindow
<1>11. QED
  BY <1>5, <1>6, <1>8, <1>9, <1>10 DEF LimiterInv

LEMMA DenyStep ==
  ASSUME LimiterInv, NEW u \in Users, Deny(u)
  PROVE  LimiterInv'
<1>1. log[u] \in Logs /\ Retain(log[u]) \in Logs /\ Retain(Retain(log[u])) = Retain(log[u])
  BY RetainType DEF LimiterInv
<1>2. log' = [log EXCEPT ![u] = Retain(log[u])] /\ admitted' = admitted
  BY DEF Deny
<1>3. \A v \in Users : Retain(log'[v]) = Retain(log[v])
  BY <1>1, <1>2 DEF LimiterInv
<1>4. log' \in [Users -> Logs]
  BY <1>1, <1>2 DEF LimiterInv
<1>5. LogKnowsWindow'
  BY <1>2, <1>3 DEF LimiterInv, LogKnowsWindow
<1>6. QED
  BY <1>2, <1>4, <1>5 DEF LimiterInv

LEMMA ClockStep ==
  ASSUME LimiterInv, Clock
  PROVE  LimiterInv'
<1>1. /\ log' = [u \in Users |-> Older(log[u])]
      /\ admitted' = [u \in Users |-> [Older(admitted[u]) EXCEPT ![Window] = 0]]
  BY DEF Clock
<1>2. ASSUME NEW l \in Logs
      PROVE  Older(l) \in Logs /\ [Older(Retain(l)) EXCEPT ![Window] = 0] = Retain(Older(l))
  <2>1. Older(l) \in Logs /\ Retain(l) \in Logs /\ Older(Retain(l)) \in Logs
    BY OlderType, RetainType
  <2>2. ASSUME NEW a \in Ages
        PROVE  [Older(Retain(l)) EXCEPT ![Window] = 0][a] = Retain(Older(l))[a]
    <3>1. [Older(Retain(l)) EXCEPT ![Window] = 0][a]
            = IF a = Window THEN 0 ELSE Older(Retain(l))[a]
      BY <2>1 DEF Logs
    <3>2. Retain(Older(l))[a] = IF a = Window THEN 0 ELSE Older(l)[a]
      BY AgesType DEF Retain
    <3>3. a # Window /\ a # 0 => Older(Retain(l))[a] = Retain(l)[a - 1] /\ Older(l)[a] = l[a - 1]
      BY <2>1, OlderType
    <3>4. a # 0 => Retain(l)[a - 1] = l[a - 1]
      BY AgesType DEF Retain
    <3>5. a = 0 => Older(Retain(l))[a] = 0 /\ Older(l)[a] = 0
      BY <2>1, OlderType
    <3>6. QED
      BY <3>1, <3>2, <3>3, <3>4, <3>5
  <2>3. QED
    BY <2>1, <2>2 DEF Logs, Retain
<1>3. ASSUME NEW u \in Users
      PROVE  /\ log'[u] \in Logs /\ admitted'[u] \in Logs
             /\ admitted'[u] = Retain(log'[u])
             /\ IsFiniteSet(Entries(admitted'[u])) /\ Total(admitted'[u]) <= Limit
  <2>1. /\ log[u] \in Logs /\ admitted[u] \in Logs /\ admitted[u] = Retain(log[u])
        /\ IsFiniteSet(Entries(admitted[u])) /\ Total(admitted[u]) <= Limit
    BY DEF LimiterInv, LogKnowsWindow
  <2>2. PICK m : m = [Older(admitted[u]) EXCEPT ![Window] = 0]
    OBVIOUS
  <2>3. log'[u] = Older(log[u]) /\ admitted'[u] = m
    BY <1>1, <2>2
  <2>4. m \in Logs /\ IsFiniteSet(Entries(m)) /\ Total(m) <= Total(admitted[u])
    BY <2>1, <2>2, OlderLess
  <2>5. Total(m) \in Nat /\ Total(admitted[u]) \in Nat
    BY <2>1, <2>4, FS_CardinalityType DEF Total
  <2>6. Older(log[u]) \in Logs /\ m = Retain(Older(log[u]))
    BY <1>2, <2>1, <2>2
  <2>7. QED
    BY <2>1, <2>3, <2>4, <2>5, <2>6, GatewayAssumption
<1>4. log' \in [Users -> Logs] /\ admitted' \in [Users -> Logs]
  BY <1>1, <1>3
<1>5. QED
  BY <1>3, <1>4 DEF LimiterInv, LogKnowsWindow

LEMMA LimiterStep == LimiterInv /\ [GatewayNext]_gatewayVars => LimiterInv'
<1> SUFFICES ASSUME LimiterInv, [GatewayNext]_gatewayVars PROVE LimiterInv'
  OBVIOUS
<1>1. ASSUME UNCHANGED limiterVars PROVE LimiterInv'
  BY <1>1 DEF limiterVars, LimiterInv, LogKnowsWindow
<1>2. ASSUME NEW r \in Requests, NEW path \in Paths, NEW who \in Users \union {NoToken},
             Serve(r, path, who)
      PROVE  LimiterInv'
  <2>1. \/ UNCHANGED limiterVars
        \/ who \in Users /\ (Admit(who) \/ Deny(who))
    BY <1>2 DEF Serve
  <2>2. QED
    BY <1>1, <2>1, AdmitStep, DenyStep
<1>3. CASE Clock
  BY <1>3, ClockStep
<1>4. CASE UNCHANGED gatewayVars
  BY <1>1, <1>4 DEF gatewayVars, limiterVars
<1>5. ASSUME NEW r \in Requests,
             Proxy(r) \/ CloseAgain(r) \/ Answer(r) \/ Drop(r)
               \/ \E path \in Paths : ServePublic(r, path)
      PROVE  LimiterInv'
  BY <1>1, <1>5, Zenon DEF Proxy, CloseAgain, Answer, Drop, ServePublic
<1>6. QED
  BY <1>2, <1>3, <1>4, <1>5 DEF GatewayNext

(***************************************************************************)
(* RateLimiter.check lets no more than the limit through in any window,    *)
(* though it counts a log it cleans only when asked.                       *)
(***************************************************************************)
THEOREM LimiterKeepsWindow == GatewaySpec => []WindowKept
<1>1. GatewayInit => LimiterInv
  <2> SUFFICES ASSUME GatewayInit PROVE LimiterInv
    OBVIOUS
  <2>1. None \in Logs /\ Retain(None) = None
    BY DEF None, Logs, Retain
  <2>2. Entries(None) = {}
    BY DEF None, Entries
  <2>3. IsFiniteSet(Entries(None)) /\ Total(None) = 0
    BY <2>2, FS_EmptySet DEF Total
  <2>4. \A u \in Users : log[u] = None /\ admitted[u] = None
    BY DEF GatewayInit
  <2>5. log \in [Users -> Logs] /\ admitted \in [Users -> Logs]
    BY <2>1 DEF GatewayInit
  <2>6. QED
    BY <2>1, <2>3, <2>4, <2>5, GatewayAssumption DEF LimiterInv, LogKnowsWindow
<1>2. LimiterInv => WindowKept
  BY DEF LimiterInv, WindowKept
<1>3. QED
  BY <1>1, <1>2, LimiterStep, PTL DEF GatewaySpec
=============================================================================

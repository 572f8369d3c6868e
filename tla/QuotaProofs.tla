---------------------------- MODULE QuotaProofs ----------------------------
(***************************************************************************)
(* Quota's invariants, and that it implements QuotaCounter, for every set  *)
(* of quotas, keys and handlers.                                           *)
(***************************************************************************)
EXTENDS Quota, TLAPS

\* A transaction began in the past, and not longer ago than it may last.
TxInTime ==
  \A h \in Handlers : pc[h] # "idle" =>
    tx[h].begun <= now /\ now <= tx[h].begun + MaxTxTime

\* A quota without a period has no end of it.
EndlessStaysEndless ==
  \A q \in Quotas : PeriodOf[q] = NoPeriod => periodEnd[q] = NoPeriod

(***************************************************************************)
(* The inductive invariant.  The limit needs what the lock's holder knows  *)
(* of its row; the uniqueness of keys needs who has inserted one; and that *)
(* periods move forward needs how old a transaction can be.                *)
(***************************************************************************)
IInv ==
  /\ TypeOK
  /\ UsageWithinLimit
  /\ LockedRowIsCurrent
  /\ KeyChargedOnce
  /\ TxInTime
  /\ EndlessStaysEndless

\* What EndTx leaves: only h's state and its locks change.
LEMMA EndTxEffect ==
  ASSUME TypeOK, NEW h \in Handlers, EndTx(h)
  PROVE  /\ pc' \in [Handlers -> HandlerStates]
         /\ tx' \in [Handlers -> Tx \union {NoTx}]
         /\ owner' \in [Quotas -> Handlers \union {Nobody}]
         /\ pc'[h] = "idle"
         /\ \A g \in Handlers : g # h => pc'[g] = pc[g] /\ tx'[g] = tx[g]
         /\ \A q \in Quotas : owner[q] # h => owner'[q] = owner[q]
BY DEF EndTx, Goto, TypeOK, HandlerStates

LEMMA EndOfPeriodType ==
  ASSUME NEW q \in Quotas, NEW t \in Nat
  PROVE  EndOfPeriod(q, t) \in Nat \union {NoPeriod}
BY QuotaAssumption DEF EndOfPeriod

\* The initial state satisfies the invariant.
LEMMA InitInv == Init => IInv
BY QuotaAssumption
DEF Init, IInv, TypeOK, UsageWithinLimit, LockedRowIsCurrent, KeyChargedOnce,
    TxInTime, EndlessStaysEndless, KnownKeys, HandlerStates

\* A transaction that ends without committing disturbs nothing.
LEMMA RollbackInv ==
  ASSUME IInv, NEW h \in Handlers, Rollback(h)
  PROVE  IInv'
<1> USE DEF IInv
<1>1. UNCHANGED <<now, made, usage, limit, periodEnd, consumptions>>
  BY DEF Rollback, rows
<1>2. EndTx(h)
  BY DEF Rollback
<1>3. TypeOK'
  BY <1>1, <1>2, EndTxEffect DEF TypeOK
<1>4. UsageWithinLimit'
  BY <1>1 DEF UsageWithinLimit
<1>5. LockedRowIsCurrent'
  <2> SUFFICES ASSUME NEW g \in Handlers, pc'[g] \in {"decide", "record", "commit"}
               PROVE  LockedRowIsCurrent!(g)'
    BY DEF LockedRowIsCurrent
  <2>1. g # h /\ pc'[g] = pc[g] /\ tx'[g] = tx[g]
    BY <1>2, EndTxEffect
  <2>2. tx[g] \in Tx
    BY <2>1 DEF TypeOK
  <2>3. owner'[tx[g].quota] = g
    BY <1>2, <2>1, <2>2, EndTxEffect DEF LockedRowIsCurrent, Tx
  <2> QED
    BY <1>1, <2>1, <2>2, <2>3 DEF LockedRowIsCurrent, EndOfPeriod
<1>6. KeyChargedOnce'
  BY <1>1, <1>2, EndTxEffect DEF KeyChargedOnce, KnownKeys
<1>7. TxInTime' /\ EndlessStaysEndless'
  BY <1>1, <1>2, EndTxEffect DEF TxInTime, EndlessStaysEndless
<1> QED
  BY <1>3, <1>4, <1>5, <1>6, <1>7

\* A handler that goes on in its transaction, the row still as committed.
LEMMA ProgressInv ==
  ASSUME IInv, NEW h \in Handlers,
         \/ \E q \in Quotas, k \in Keys : Consume(h, q, k)
         \/ CheckKey(h) \/ LockQuota(h) \/ CountUse(h) \/ RecordKey(h)
  PROVE  IInv'
<1> USE QuotaAssumption DEF IInv
<1>1. UNCHANGED <<now, made, usage, limit, periodEnd, consumptions>>
  BY DEF Consume, CheckKey, LockQuota, CountUse, RecordKey, rows
<1>2. \A g \in Handlers : g # h => pc'[g] = pc[g] /\ tx'[g] = tx[g]
  BY DEF Consume, CheckKey, LockQuota, CountUse, RecordKey, Goto, TypeOK
<1>3. UsageWithinLimit' /\ EndlessStaysEndless'
  BY <1>1 DEF UsageWithinLimit, EndlessStaysEndless
<1>4. CASE \E q \in Quotas, k \in Keys : Consume(h, q, k)
  <2>1. PICK q \in Quotas, k \in Keys : Consume(h, q, k)
    BY <1>4
  <2>2. TypeOK'
    BY <1>1, <2>1 DEF TypeOK, Consume, Goto, HandlerStates, Tx
  <2>3. LockedRowIsCurrent'
    BY <1>1, <1>2, <2>1 DEF LockedRowIsCurrent, Consume, Goto, TypeOK, EndOfPeriod
  <2>4. KeyChargedOnce'
    BY <1>1, <1>2, <2>1 DEF KeyChargedOnce, KnownKeys, Consume, Goto, TypeOK
  <2>5. TxInTime'
    BY <1>1, <1>2, <2>1 DEF TxInTime, Consume, Goto, TypeOK
  <2> QED
    BY <1>3, <2>2, <2>3, <2>4, <2>5
<1>5. CASE CheckKey(h)
  <2>1. TypeOK'
    BY <1>1, <1>5 DEF TypeOK, CheckKey, Goto, HandlerStates
  <2>2. LockedRowIsCurrent'
    BY <1>1, <1>2, <1>5 DEF LockedRowIsCurrent, CheckKey, Goto, TypeOK, EndOfPeriod
  <2>3. KeyChargedOnce'
    BY <1>1, <1>2, <1>5 DEF KeyChargedOnce, KnownKeys, CheckKey, Goto, TypeOK
  <2>4. TxInTime'
    BY <1>1, <1>2, <1>5 DEF TxInTime, CheckKey, Goto, TypeOK
  <2> QED
    BY <1>3, <2>1, <2>2, <2>3, <2>4
<1>6. CASE LockQuota(h)
  <2>1. TypeOK'
    <3>1. tx[h] \in Tx
      BY <1>6 DEF LockQuota, TypeOK
    <3>2. tx'[h] \in Tx
      BY <1>6, <3>1 DEF LockQuota, TypeOK, Tx
    <3> QED
      BY <1>1, <1>6, <3>2 DEF TypeOK, LockQuota, Goto, HandlerStates
  <2>2. LockedRowIsCurrent'
    <3>1. ASSUME NEW g \in Handlers, g # h
          PROVE  LockedRowIsCurrent!(g)'
      <4>1. pc'[g] = pc[g] /\ tx'[g] = tx[g]
        BY <1>2, <3>1
      <4>2. \A q \in Quotas : owner[q] = g => owner'[q] = g
        BY <1>6, <3>1 DEF LockQuota, TypeOK
      <4>3. pc[g] \in {"decide", "record", "commit"} => tx[g].quota \in Quotas
        BY DEF TypeOK, Tx
      <4>4. QED
        BY <1>1, <4>1, <4>2, <4>3 DEF LockedRowIsCurrent, EndOfPeriod
    <3>2. LockedRowIsCurrent!(h)'
      BY <1>1, <1>6 DEF LockedRowIsCurrent, LockQuota, Goto, TypeOK, Tx
    <3> QED
      BY <3>1, <3>2 DEF LockedRowIsCurrent
  <2>3. KeyChargedOnce'
    BY <1>1, <1>2, <1>6 DEF KeyChargedOnce, KnownKeys, LockQuota, Goto, TypeOK
  <2>4. TxInTime'
    BY <1>1, <1>2, <1>6 DEF TxInTime, LockQuota, Goto, TypeOK, Tx
  <2> QED
    BY <1>3, <2>1, <2>2, <2>3, <2>4
<1>7. CASE CountUse(h)
  <2>1. TypeOK'
    <3>1. tx[h] \in Tx
      BY <1>7 DEF CountUse, TypeOK
    <3>2. EndOfPeriod(tx[h].quota, tx[h].begun) \in Nat \union {NoPeriod}
      BY <3>1, EndOfPeriodType DEF Tx
    <3>3. PICK n \in Nat, end \in Nat \union {NoPeriod} :
            tx' = [tx EXCEPT ![h].usage = n, ![h].periodEnd = end]
      <4> DEFINE n == IF Expired(tx[h]) THEN 1 ELSE tx[h].usage + 1
                 end == IF Expired(tx[h]) THEN EndOfPeriod(tx[h].quota, tx[h].begun)
                        ELSE tx[h].periodEnd
      <4>1. n \in Nat /\ end \in Nat \union {NoPeriod}
        BY <3>1, <3>2 DEF Tx
      <4>2. tx' = [tx EXCEPT ![h].usage = n, ![h].periodEnd = end]
        BY <1>7 DEF CountUse
      <4> HIDE DEF n, end
      <4> QED
        BY <4>1, <4>2
    <3>4. tx'[h] \in Tx
      BY <3>1, <3>3 DEF TypeOK, Tx
    <3> QED
      BY <1>1, <1>7, <3>4 DEF TypeOK, CountUse, Goto, HandlerStates
  <2>2. LockedRowIsCurrent'
    <3>1. ASSUME NEW g \in Handlers, g # h
          PROVE  LockedRowIsCurrent!(g)'
      BY <1>1, <1>2, <1>7, <3>1 DEF LockedRowIsCurrent, CountUse, TypeOK, EndOfPeriod
    <3>2. LockedRowIsCurrent!(h)'
      BY <1>1, <1>7 DEF LockedRowIsCurrent, CountUse, Goto, TypeOK, Tx, Expired, EndOfPeriod
    <3> QED
      BY <3>1, <3>2 DEF LockedRowIsCurrent
  <2>3. KeyChargedOnce'
    BY <1>1, <1>2, <1>7 DEF KeyChargedOnce, KnownKeys, CountUse, Goto, TypeOK
  <2>4. TxInTime'
    BY <1>1, <1>2, <1>7 DEF TxInTime, CountUse, Goto, TypeOK, Tx
  <2> QED
    BY <1>3, <2>1, <2>2, <2>3, <2>4
<1>8. CASE RecordKey(h)
  <2>1. TypeOK'
    BY <1>1, <1>8 DEF TypeOK, RecordKey, Goto, HandlerStates
  <2>2. LockedRowIsCurrent'
    BY <1>1, <1>2, <1>8 DEF LockedRowIsCurrent, RecordKey, Goto, TypeOK, EndOfPeriod
  <2>3. KeyChargedOnce'
    BY <1>1, <1>2, <1>8 DEF KeyChargedOnce, KnownKeys, RecordKey, Inserting, Goto, TypeOK
  <2>4. TxInTime'
    BY <1>1, <1>2, <1>8 DEF TxInTime, RecordKey, Goto, TypeOK
  <2> QED
    BY <1>3, <2>1, <2>2, <2>3, <2>4
<1> QED
  BY <1>4, <1>5, <1>6, <1>7, <1>8

\* Commit writes a row that nobody else holds, and a key nobody else has.
LEMMA CommitInv ==
  ASSUME IInv, NEW h \in Handlers, Commit(h)
  PROVE  IInv'
<1> USE DEF IInv
<1> DEFINE t == tx[h]
<1>1. EndTx(h) /\ UNCHANGED <<now, made, limit>>
  BY DEF Commit
<1>2. pc[h] = "commit" /\ t \in Tx
  BY DEF Commit, TypeOK
<1>3. /\ \A q \in Quotas : q # t.quota => usage'[q] = usage[q] /\ periodEnd'[q] = periodEnd[q]
      /\ usage'[t.quota] = t.usage
  BY <1>2 DEF Commit, TypeOK, Tx
<1>4. KnownKeys' = KnownKeys \union {t.key}
  <2> DEFINE c == [key |-> t.key, quota |-> t.quota, at |-> t.begun]
  <2>1. consumptions' = consumptions \union {c} /\ c.key = t.key
    BY DEF Commit
  <2> HIDE DEF c, t
  <2> QED
    BY <2>1 DEF KnownKeys
<1>5. TypeOK'
  BY <1>1, <1>2, EndTxEffect DEF TypeOK, Commit, Tx, Consumption
<1>6. UsageWithinLimit'
  <2>1. usage[t.quota] < limit[t.quota] /\ t.usage \in {usage[t.quota] + 1, 1}
    BY <1>2 DEF LockedRowIsCurrent
  <2>2. t.usage <= limit[t.quota]
    BY <1>2, <2>1 DEF TypeOK, Tx
  <2> QED
    BY <1>1, <1>3, <2>2 DEF UsageWithinLimit
<1>7. LockedRowIsCurrent'
  <2> SUFFICES ASSUME NEW g \in Handlers, pc'[g] \in {"decide", "record", "commit"}
               PROVE  LockedRowIsCurrent!(g)'
    BY DEF LockedRowIsCurrent
  <2>1. g # h /\ pc'[g] = pc[g] /\ tx'[g] = tx[g]
    BY <1>1, EndTxEffect
  <2>2. tx[g] \in Tx
    BY <2>1 DEF TypeOK
  <2>3. tx[g].quota \in Quotas /\ tx[g].quota # t.quota
    BY <1>2, <2>1, <2>2 DEF LockedRowIsCurrent, Tx
  <2>4. owner'[tx[g].quota] = g
    BY <1>1, <2>1, <2>3, EndTxEffect DEF LockedRowIsCurrent
  <2> QED
    BY <1>1, <1>3, <2>1, <2>2, <2>3, <2>4 DEF LockedRowIsCurrent, EndOfPeriod
<1>8. KeyChargedOnce'
  <2>1. t.key \notin KnownKeys
    BY <1>2 DEF KeyChargedOnce
  <2>2. \A c, d \in consumptions' : c.key = d.key => c = d
    BY <2>1 DEF Commit, KeyChargedOnce, KnownKeys
  <2>3. ASSUME NEW g \in Handlers, pc'[g] = "commit"
        PROVE  tx'[g].key \notin KnownKeys'
    BY <1>1, <1>2, <1>4, <2>3, EndTxEffect DEF KeyChargedOnce
  <2>4. \A f, g \in Handlers :
          pc'[f] = "commit" /\ pc'[g] = "commit" /\ tx'[f].key = tx'[g].key => f = g
    BY <1>1, EndTxEffect DEF KeyChargedOnce
  <2> QED
    BY <2>2, <2>3, <2>4 DEF KeyChargedOnce
<1>9. TxInTime' /\ EndlessStaysEndless'
  <2>1. PeriodOf[t.quota] = NoPeriod => t.periodEnd = NoPeriod
    BY <1>2 DEF LockedRowIsCurrent, EndlessStaysEndless, EndOfPeriod, Tx
  <2>2. periodEnd' = [periodEnd EXCEPT ![t.quota] = t.periodEnd]
    BY DEF Commit
  <2> QED
    BY <1>1, <2>1, <2>2, EndTxEffect DEF TxInTime, EndlessStaysEndless, TypeOK
<1> QED
  BY <1>5, <1>6, <1>7, <1>8, <1>9

\* What happens beside the transactions leaves locked rows alone.
LEMMA OutsideInv ==
  ASSUME IInv,
         \/ \E q \in Quotas, m \in Maxima : CreateQuota(q, m) \/ UpdateLimit(q, m)
         \/ \E q \in Quotas : Renew(q) \/ Reset(q)
  PROVE  IInv'
<1> USE QuotaAssumption DEF IInv
<1>1. UNCHANGED <<now, consumptions, owner, pc, tx>>
  BY DEF CreateQuota, UpdateLimit, Renew, Reset
<1>2. \A q \in Quotas : q \in made /\ owner[q] # Nobody =>
        /\ q \in made'
        /\ usage'[q] = usage[q] /\ limit'[q] = limit[q] /\ periodEnd'[q] = periodEnd[q]
  BY DEF CreateQuota, UpdateLimit, Renew, Reset, Unlocked, TypeOK
<1>3. TypeOK'
  BY <1>1, EndOfPeriodType DEF TypeOK, CreateQuota, UpdateLimit, Renew, Reset
<1>4. UsageWithinLimit'
  BY DEF UsageWithinLimit, CreateQuota, UpdateLimit, Renew, Reset, TypeOK
<1>5. LockedRowIsCurrent'
  <2> SUFFICES ASSUME NEW g \in Handlers, pc[g] \in {"decide", "record", "commit"}
               PROVE  LockedRowIsCurrent!(g)'
    BY <1>1 DEF LockedRowIsCurrent
  <2>1. tx[g].quota \in Quotas /\ tx[g].quota \in made /\ owner[tx[g].quota] # Nobody
    BY DEF LockedRowIsCurrent, TypeOK, Tx
  <2> QED
    BY <1>1, <1>2, <2>1 DEF LockedRowIsCurrent, EndOfPeriod
<1>6. KeyChargedOnce'
  BY <1>1 DEF KeyChargedOnce, KnownKeys
<1>7. TxInTime' /\ EndlessStaysEndless'
  BY <1>1 DEF TxInTime, EndlessStaysEndless, CreateQuota, UpdateLimit, Renew, Reset,
              EndOfPeriod, TypeOK
<1> QED
  BY <1>3, <1>4, <1>5, <1>6, <1>7

LEMMA CleanUpInv ==
  ASSUME IInv, CleanUp
  PROVE  IInv'
<1> USE DEF IInv
<1>1. UNCHANGED <<now, made, usage, limit, periodEnd, owner, pc, tx>>
      /\ consumptions' \subseteq consumptions
  BY DEF CleanUp
<1>2. TypeOK' /\ UsageWithinLimit'
  BY <1>1 DEF TypeOK, UsageWithinLimit
<1>3. LockedRowIsCurrent' /\ TxInTime' /\ EndlessStaysEndless'
  BY <1>1 DEF LockedRowIsCurrent, TxInTime, EndlessStaysEndless, EndOfPeriod
<1>4. KeyChargedOnce'
  BY <1>1 DEF KeyChargedOnce, KnownKeys
<1> QED
  BY <1>2, <1>3, <1>4

LEMMA TickInv ==
  ASSUME IInv, Tick
  PROVE  IInv'
<1> USE QuotaAssumption DEF IInv
<1>1. UNCHANGED <<made, usage, limit, periodEnd, consumptions, owner, pc, tx>>
      /\ now' = now + 1
  BY DEF Tick, rows
<1>2. TypeOK' /\ UsageWithinLimit' /\ EndlessStaysEndless'
  BY <1>1 DEF TypeOK, UsageWithinLimit, EndlessStaysEndless, Tick
<1>3. LockedRowIsCurrent'
  <2> SUFFICES ASSUME NEW g \in Handlers, pc[g] \in {"decide", "record", "commit"}
               PROVE  LockedRowIsCurrent!(g)'
    BY <1>1 DEF LockedRowIsCurrent
  <2>1. tx[g].quota \in Quotas
    BY DEF TypeOK, Tx
  <2> QED
    BY <1>1, <2>1 DEF LockedRowIsCurrent, EndOfPeriod, TypeOK
<1>4. KeyChargedOnce'
  BY <1>1 DEF KeyChargedOnce, KnownKeys
<1>5. TxInTime'
  BY <1>1 DEF TxInTime, Tick, TypeOK, Tx
<1> QED
  BY <1>2, <1>3, <1>4, <1>5

LEMMA NextInv ==
  ASSUME IInv, [Next]_vars
  PROVE  IInv'
<1>1. CASE UNCHANGED vars
  BY <1>1 DEF IInv, vars, TypeOK, UsageWithinLimit, LockedRowIsCurrent, KeyChargedOnce,
              KnownKeys, TxInTime, EndlessStaysEndless, EndOfPeriod
<1>2. ASSUME NEW h \in Handlers, Step(h) \/ Abort(h)
      PROVE  IInv'
  BY <1>2, RollbackInv, ProgressInv, CommitInv
  DEF Step, Abort, RefuseKnownKey, RefuseMissing, RefuseExceeded, RefuseDuplicate
<1> QED
  BY <1>1, <1>2, ProgressInv, OutsideInv, CleanUpInv, TickInv DEF Next

LEMMA Invariance == Spec => []IInv
BY InitInv, NextInv, PTL DEF Spec

(***************************************************************************)
(* Every reachable state of the quota tables and transactions is well      *)
(* typed; in particular no count is negative.                              *)
(***************************************************************************)
THEOREM QuotaTypeCorrect == Spec => []TypeOK
BY Invariance, PTL DEF IInv

(***************************************************************************)
(* No overlap of consumptions, renewals, resets and limit changes takes a  *)
(* quota past its limit: the database's CHECK never has to refuse consume. *)
(***************************************************************************)
THEOREM LimitKept == Spec => []UsageWithinLimit
BY Invariance, PTL DEF IInv

(***************************************************************************)
(* The row that consume locked is current until it commits, so no update   *)
(* of a count is lost.                                                     *)
(***************************************************************************)
THEOREM LockKeepsRow == Spec => []LockedRowIsCurrent
BY Invariance, PTL DEF IInv

(***************************************************************************)
(* A remembered idempotency key was charged once, however often and with   *)
(* whatever overlap its request is retried.                                *)
(***************************************************************************)
THEOREM KeyOnce == Spec => []KeyChargedOnce
BY Invariance, PTL DEF IInv

-----------------------------------------------------------------------------
\* A new period ends after the one it replaces, and within the clock's range.
LEMMA CommitPeriod ==
  ASSUME IInv, NEW h \in Handlers, Commit(h),
         tx[h].periodEnd # periodEnd[tx[h].quota] \/ tx[h].usage # usage[tx[h].quota] + 1
  PROVE  LET t == tx[h] IN
         /\ t.usage = 1
         /\ periodEnd[t.quota] \in Nat /\ periodEnd[t.quota] < now
         /\ t.periodEnd \in Nat /\ t.periodEnd > periodEnd[t.quota]
         /\ t.periodEnd = EndOfPeriod(t.quota, t.begun)
<1> USE DEF IInv
<1> DEFINE t == tx[h]
           q == t.quota
<1>1. t \in Tx /\ q \in Quotas /\ t.begun \in Nat /\ pc[h] = "commit"
  BY QuotaAssumption DEF Commit, TypeOK, Tx
<1>2. /\ t.usage = 1
      /\ periodEnd[q] \in Nat /\ periodEnd[q] < now
      /\ t.periodEnd = EndOfPeriod(q, t.begun)
  BY <1>1 DEF LockedRowIsCurrent, TypeOK
<1>3. now <= t.begun + MaxTxTime
  BY <1>1 DEF TxInTime
<1>4. CASE PeriodOf[q] = NoPeriod
  <2>1. t.periodEnd = NoPeriod
    BY <1>2, <1>4 DEF EndOfPeriod
  <2>2. periodEnd[q] = NoPeriod
    BY <1>1, <1>4 DEF EndlessStaysEndless
  <2> QED
    BY <1>2, <2>2, QuotaAssumption
<1>5. CASE PeriodOf[q] # NoPeriod
  <2>1. t.periodEnd = t.begun + PeriodOf[q] /\ PeriodOf[q] \in Nat /\ MaxTxTime <= PeriodOf[q]
    BY <1>1, <1>2, <1>5, QuotaAssumption DEF EndOfPeriod
  <2> QED
    BY <1>1, <1>2, <1>3, <2>1, QuotaAssumption DEF TypeOK
<1> QED
  BY <1>4, <1>5

(***************************************************************************)
(* A period is only ever replaced by a later one, provided no transaction  *)
(* outlives a period (QuotaAssumption).                                    *)
(***************************************************************************)
THEOREM PeriodsForward == Spec => PeriodsMoveForward
<1>1. ASSUME IInv, [Next]_vars
      PROVE  [\A q \in made : periodEnd[q] # NoPeriod => periodEnd'[q] >= periodEnd[q]]_vars
  <2> SUFFICES ASSUME NEW q \in made, periodEnd[q] # NoPeriod, Next
               PROVE  periodEnd'[q] >= periodEnd[q]
    BY <1>1
  <2>1. q \in Quotas /\ periodEnd[q] \in Nat /\ periodEnd[q] >= periodEnd[q]
    BY <1>1 DEF IInv, TypeOK
  <2>2. CASE \E h \in Handlers : Commit(h)
    <3>1. PICK h \in Handlers : Commit(h)
      BY <2>2
    <3>2. tx[h].quota \in Quotas
      BY <1>1, <3>1 DEF IInv, TypeOK, Commit, Tx
    <3>3. periodEnd' = [periodEnd EXCEPT ![tx[h].quota] = tx[h].periodEnd]
      BY <3>1 DEF Commit
    <3>4. tx[h].periodEnd # periodEnd[tx[h].quota]
            => tx[h].periodEnd > periodEnd[tx[h].quota] /\ tx[h].periodEnd \in Nat
      BY <1>1, <3>1, CommitPeriod
    <3> QED
      BY <1>1, <2>1, <3>2, <3>3, <3>4 DEF IInv, TypeOK
  <2>3. CASE \E p \in Quotas, m \in Maxima : CreateQuota(p, m)
    BY <1>1, <2>1, <2>3 DEF CreateQuota, IInv, TypeOK
  <2>4. CASE ~(\E h \in Handlers : Commit(h))
             /\ ~(\E p \in Quotas, m \in Maxima : CreateQuota(p, m))
    <3>1. UNCHANGED periodEnd
      BY <2>4
      DEF Next, Step, Abort, RefuseKnownKey, RefuseMissing, RefuseExceeded, RefuseDuplicate,
          Rollback, Consume, CheckKey, LockQuota, CountUse, RecordKey, UpdateLimit, Renew,
          Reset, CleanUp, Tick, rows
    <3> QED
      BY <2>1, <3>1
  <2> QED
    BY <2>2, <2>3, <2>4
<1> QED
  BY <1>1, Invariance, PTL DEF Spec, PeriodsMoveForward

-----------------------------------------------------------------------------
\* A locked row is locked by a call at work on it.
AtWork(h) == pc[h] \in {"decide", "record", "commit"}
LocksHeld == \A q \in Quotas, h \in Handlers : owner[q] = h => AtWork(h) /\ tx[h].quota = q

LEMMA LocksHeldStep == IInv /\ LocksHeld /\ [Next]_vars => LocksHeld'
<1> SUFFICES ASSUME IInv, LocksHeld, [Next]_vars,
                    NEW q \in Quotas, NEW g \in Handlers, owner'[q] = g
             PROVE  AtWork(g)' /\ tx'[g].quota = q
  BY DEF LocksHeld
<1> USE DEF IInv, TypeOK
<1>1. CASE UNCHANGED <<owner, pc, tx>>
  BY <1>1 DEF LocksHeld, AtWork
\* h ends its transaction, and another's locks are not touched.
<1>2. ASSUME NEW h \in Handlers, EndTx(h)
      PROVE  AtWork(g)' /\ tx'[g].quota = q
  <2>1. owner[q] = g /\ g # h
    BY <1>2, QuotaAssumption DEF EndTx
  <2>2. pc'[g] = pc[g] /\ tx'[g] = tx[g]
    BY <1>2, <2>1, EndTxEffect
  <2> QED
    BY <2>1, <2>2 DEF LocksHeld, AtWork
<1>3. ASSUME NEW h \in Handlers, LockQuota(h)
      PROVE  AtWork(g)' /\ tx'[g].quota = q
  <2>1. CASE g = h
    <3>1. pc[h] = "lock" /\ tx[h] \in Tx
      BY <1>3 DEF LockQuota
    <3>2. owner[q] # h
      BY <3>1 DEF LocksHeld, AtWork
    <3>3. q = tx[h].quota
      BY <1>3, <2>1, <3>2 DEF LockQuota
    <3> QED
      BY <1>3, <2>1, <3>1, <3>3 DEF LockQuota, Goto, AtWork, Tx
  <2>2. CASE g # h
    BY <1>3, <2>2 DEF LockQuota, Goto, LocksHeld, AtWork
  <2> QED
    BY <2>1, <2>2
<1>4. ASSUME NEW h \in Handlers,
             CheckKey(h) \/ CountUse(h) \/ RecordKey(h)
             \/ \E r \in Quotas, k \in Keys : Consume(h, r, k)
      PROVE  AtWork(g)' /\ tx'[g].quota = q
  <2>1. owner[q] = g
    BY <1>4 DEF CheckKey, CountUse, RecordKey, Consume
  <2>2. AtWork(g) /\ tx[g].quota = q /\ tx[g] \in Tx
    BY <2>1 DEF LocksHeld, AtWork
  <2>3. CASE g # h
    BY <1>4, <2>2, <2>3 DEF CheckKey, CountUse, RecordKey, Consume, Goto, AtWork
  <2>4. CASE g = h
    BY <1>4, <2>2, <2>4 DEF CheckKey, CountUse, RecordKey, Consume, Goto, AtWork, Tx
  <2> QED
    BY <2>3, <2>4
<1> QED
  BY <1>1, <1>2, <1>3, <1>4
  DEF Next, Step, Abort, RefuseKnownKey, RefuseMissing, RefuseExceeded, RefuseDuplicate, Rollback,
      Commit, CreateQuota, UpdateLimit, Renew, Reset, CleanUp, Tick, vars

\* Of a set of calls, the one that has come furthest waits for none of them.
LEMMA FurthestWaitsForNone ==
  ASSUME IInv, LocksHeld
  PROVE  NoDeadlock
<1>1. ASSUME NEW g \in Handlers, NEW h \in Handlers, WaitsFor(h, g)
      PROVE  \/ pc[h] = "lock" /\ AtWork(g)
             \/ pc[h] = "record" /\ pc[g] = "commit"
  BY <1>1 DEF WaitsFor, Inserting, LocksHeld, IInv, TypeOK, Tx
<1>2. ASSUME NEW S \in (SUBSET Handlers) \ {{}}
      PROVE  \E h \in S : \A g \in S : ~WaitsFor(h, g)
  <2>1. CASE \E h \in S : pc[h] = "commit"
    BY <1>1, <2>1
  <2>2. CASE (\E h \in S : AtWork(h)) /\ ~(\E h \in S : pc[h] = "commit")
    BY <1>1, <2>2 DEF AtWork
  <2>3. CASE ~(\E h \in S : AtWork(h))
    BY <1>1, <2>3 DEF AtWork
  <2> QED
    BY <2>1, <2>2, <2>3
<1> QED
  BY <1>1, <1>2 DEF NoDeadlock, AtWork

(***************************************************************************)
(* However many calls of consume meet on rows and keys, they never wait in *)
(* a circle, nor for one that has returned: locks are taken in one order,  *)
(* the row first and then the key.                                         *)
(***************************************************************************)
THEOREM DeadlockFree == Spec => []NoDeadlock
<1>1. Init => LocksHeld
  BY QuotaAssumption DEF Init, LocksHeld
<1>2. QED
  BY <1>1, LocksHeldStep, FurthestWaitsForNone, Invariance, PTL DEF Spec

-----------------------------------------------------------------------------
Ends == {EndOfPeriod(q, t) : q \in {q \in Quotas : PeriodOf[q] # NoPeriod}, t \in 0..EndOfTime}

LEMMA InitRefines == Init => Counter!Init
BY DEF Init, Counter!Init, KnownKeys

\* Commit is one charge of the counter, in the period or in a later one.
LEMMA CommitRefines ==
  ASSUME IInv, NEW h \in Handlers, Commit(h)
  PROVE  Counter!Next
<1> USE DEF IInv
<1> DEFINE t == tx[h]
           q == t.quota
           k == t.key
<1>1. pc[h] = "commit" /\ t \in Tx /\ q \in Quotas /\ k \in Keys
  BY DEF Commit, TypeOK, Tx
<1>2. /\ usage' = [usage EXCEPT ![q] = t.usage]
      /\ periodEnd' = [periodEnd EXCEPT ![q] = t.periodEnd]
      /\ UNCHANGED <<now, made, limit>>
  BY DEF Commit
<1>3. q \in made /\ usage[q] < limit[q]
  BY <1>1 DEF LockedRowIsCurrent
<1>4. Counter!Remember(k)
  <2> DEFINE c == [key |-> k, quota |-> q, at |-> t.begun]
  <2>1. consumptions' = consumptions \union {c} /\ c.key = k
    BY DEF Commit
  <2>2. k \notin KnownKeys
    BY <1>1 DEF KeyChargedOnce
  <2> HIDE DEF c, k
  <2>3. KnownKeys' = KnownKeys \union {k}
    BY <2>1 DEF KnownKeys
  <2> QED
    BY <2>2, <2>3 DEF Counter!Remember
<1>5. CASE t.periodEnd = periodEnd[q] /\ t.usage = usage[q] + 1
  <2>1. periodEnd' = periodEnd
    BY <1>1, <1>2, <1>5 DEF TypeOK
  <2>2. usage' = [usage EXCEPT ![q] = @ + 1]
    BY <1>2, <1>5
  <2>3. Counter!Charge(q, k)
    BY <1>2, <1>3, <1>4, <2>1, <2>2 DEF Counter!Charge
  <2> QED
    BY <1>1, <2>3 DEF Counter!Next
<1>6. CASE t.periodEnd # periodEnd[q] \/ t.usage # usage[q] + 1
  <2>1. /\ t.usage = 1
        /\ periodEnd[q] \in Nat /\ periodEnd[q] < now
        /\ t.periodEnd > periodEnd[q]
        /\ t.periodEnd = EndOfPeriod(q, t.begun)
    BY <1>6, CommitPeriod
  <2>2. t.periodEnd \in Ends
    <3>1. PeriodOf[q] # NoPeriod
      BY <1>1, <2>1, QuotaAssumption DEF EndlessStaysEndless
    <3> QED
      BY <1>1, <2>1, <3>1 DEF Ends, Tx
  <2>3. periodEnd[q] # NoPeriod
    BY <2>1, QuotaAssumption
  <2>4. limit[q] > 0
    BY <1>1, <1>3, QuotaAssumption DEF TypeOK
  <2>5. Counter!ChargeNewPeriod(q, k, t.periodEnd)
    BY <1>2, <1>3, <1>4, <2>1, <2>3, <2>4 DEF Counter!ChargeNewPeriod
  <2> QED
    BY <1>1, <2>2, <2>5 DEF Counter!Next, Ends
<1> QED
  BY <1>5, <1>6

LEMMA StepRefines ==
  ASSUME IInv, [Next]_vars
  PROVE  [Counter!Next]_(Counter!counterVars)
<1> USE DEF IInv
<1>1. CASE UNCHANGED <<now, rows>>
  BY <1>1 DEF rows, Counter!counterVars, KnownKeys
<1>2. ASSUME NEW q \in Quotas, NEW m \in Maxima, CreateQuota(q, m)
      PROVE  Counter!Next
  <2>1. EndOfPeriod(q, now) \in Ends \union {NoPeriod}
    BY DEF Ends, TypeOK, EndOfPeriod
  <2>2. Counter!Grant(q, m, EndOfPeriod(q, now))
    BY <1>2 DEF CreateQuota, Counter!Grant, KnownKeys
  <2> QED
    BY <2>1, <2>2 DEF Counter!Next, Ends
<1>3. ASSUME NEW q \in Quotas, NEW m \in Maxima, UpdateLimit(q, m)
      PROVE  Counter!Next
  <2>1. Counter!SetLimit(q, m)
    BY <1>3 DEF UpdateLimit, Unlocked, Counter!SetLimit, KnownKeys
  <2> QED
    BY <2>1 DEF Counter!Next
<1>4. ASSUME NEW q \in Quotas, Renew(q) \/ Reset(q)
      PROVE  Counter!Next
  BY <1>4 DEF Renew, Reset, Unlocked, Counter!Clear, Counter!Next, KnownKeys
<1>5. CASE CleanUp
  <2> DEFINE forgotten == KnownKeys \ KnownKeys'
  <2>1. KnownKeys' \subseteq KnownKeys /\ KnownKeys \subseteq Keys
    BY <1>5 DEF CleanUp, KnownKeys, TypeOK, Consumption
  <2>2. KnownKeys' = KnownKeys \ forgotten /\ forgotten \in SUBSET Keys
    BY <2>1
  <2>3. Counter!Forget(forgotten)
    BY <1>5, <2>2 DEF CleanUp, Counter!Forget
  <2> QED
    BY <2>2, <2>3 DEF Counter!Next
<1>6. CASE Tick
  BY <1>6 DEF Tick, rows, Counter!Tick, Counter!Next, KnownKeys
<1>7. CASE \E h \in Handlers : Commit(h)
  BY <1>7, CommitRefines
<1>8. CASE UNCHANGED vars
  BY <1>8, <1>1 DEF vars, rows
<1>9. ASSUME NEW h \in Handlers, Step(h) \/ Abort(h), ~Commit(h)
      PROVE  UNCHANGED <<now, rows>>
  BY <1>9
  DEF Step, Abort, RefuseKnownKey, RefuseMissing, RefuseExceeded, RefuseDuplicate, Rollback,
      CheckKey, LockQuota, CountUse, RecordKey, rows
<1>10. ASSUME NEW h \in Handlers, NEW q \in Quotas, NEW k \in Keys, Consume(h, q, k)
       PROVE  UNCHANGED <<now, rows>>
  BY <1>10 DEF Consume, rows
<1> QED
  BY <1>1, <1>2, <1>3, <1>4, <1>5, <1>6, <1>7, <1>8, <1>9, <1>10 DEF Next

(***************************************************************************)
(* Calls of consume, renew, reset, update_limit and of the cleanup, however*)
(* they overlap, behave as if each took effect in one step.                *)
(***************************************************************************)
THEOREM QuotaImplementation == Spec => ImplementsCounter
BY InitRefines, StepRefines, Invariance, PTL DEF Spec, ImplementsCounter, Counter!CounterSpec
=============================================================================

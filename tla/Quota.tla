------------------------------- MODULE Quota -------------------------------
(***************************************************************************)
(* Quotas of auth_service: consume runs in a transaction that looks its    *)
(* idempotency key up, locks the quota's row, counts, records the key and  *)
(* commits; renew, reset, update_limit and the cleanup of old keys run     *)
(* beside it.  Statements see what is committed (READ COMMITTED), a row    *)
(* locked FOR UPDATE or updated stays locked until the transaction ends,   *)
(* and an INSERT of a key waits for a transaction that inserted the same   *)
(* key and is still open.                                                  *)
(*                                                                         *)
(* A transaction that only locks one row, writes it and commits (renew)    *)
(* and a single UPDATE (reset, update_limit) are one step each: nobody     *)
(* sees or changes the row in between.                                     *)
(***************************************************************************)
EXTENDS Integers, FiniteSets

CONSTANTS
  Quotas,      \* rows of user_quotas, one per user and quota_type
  Keys,        \* idempotency keys; without one the service draws a fresh one
  Handlers,
  Maxima,      \* values of max_allowed
  PeriodOf,    \* length of a quota's period_type, or NoPeriod
  NoPeriod,    \* period_end is NULL
  Renewable,   \* quotas with can_renew and a renew_action
  Retention,   \* age from which the cleanup deletes consumptions
  MaxTxTime,   \* no transaction stays open longer (assumed: a day at least)
  EndOfTime,   \* bound on the clock
  Nobody, NoTx

ASSUME QuotaAssumption ==
  /\ Maxima \subseteq Nat
  /\ NoPeriod \notin Int
  /\ PeriodOf \in [Quotas -> Nat \union {NoPeriod}]
  /\ MaxTxTime \in Nat
  /\ \A q \in Quotas : PeriodOf[q] # NoPeriod => MaxTxTime <= PeriodOf[q]
  /\ Retention \in Nat
  /\ EndOfTime \in Nat
  /\ Nobody \notin Handlers

VARIABLES
  now,
  made,            \* rows of user_quotas that exist
  usage, limit,    \* current_usage and max_allowed, as committed
  periodEnd,
  consumptions,    \* rows of quota_consumptions, as committed
  owner,           \* the transaction that holds the row's lock
  pc, tx           \* what each handler does, and its open transaction

vars == <<now, made, usage, limit, periodEnd, consumptions, owner, pc, tx>>
rows == <<made, usage, limit, periodEnd, consumptions>>

Consumption == [key : Keys, quota : Quotas, at : 0..EndOfTime]
KnownKeys == {c.key : c \in consumptions}

\* begun is the transaction's NOW(); the rest is the row, as locked and then
\* as updated.
Tx == [quota : Quotas, key : Keys, begun : 0..EndOfTime,
       usage : Nat, limit : Nat, periodEnd : Nat \union {NoPeriod}]

HandlerStates == {"idle", "check", "lock", "decide", "record", "commit"}

Init ==
  /\ now = 0
  /\ made = {}
  /\ usage = [q \in Quotas |-> 0]
  /\ limit = [q \in Quotas |-> 0]
  /\ periodEnd = [q \in Quotas |-> NoPeriod]
  /\ consumptions = {}
  /\ owner = [q \in Quotas |-> Nobody]
  /\ pc = [h \in Handlers |-> "idle"]
  /\ tx = [h \in Handlers |-> NoTx]

Goto(h, step) == pc' = [pc EXCEPT ![h] = step]

\* COMMIT or ROLLBACK: the locks are released and the handler returns.
EndTx(h) ==
  /\ owner' = [q \in Quotas |-> IF owner[q] = h THEN Nobody ELSE owner[q]]
  /\ Goto(h, "idle")
  /\ tx' = [tx EXCEPT ![h] = NoTx]

Rollback(h) == EndTx(h) /\ UNCHANGED <<now, rows>>

EndOfPeriod(q, start) == IF PeriodOf[q] = NoPeriod THEN NoPeriod ELSE start + PeriodOf[q]

-----------------------------------------------------------------------------
\* create, with a period that starts now.
CreateQuota(q, m) ==
  /\ q \notin made
  /\ made' = made \union {q}
  /\ usage' = [usage EXCEPT ![q] = 0]
  /\ limit' = [limit EXCEPT ![q] = m]
  /\ periodEnd' = [periodEnd EXCEPT ![q] = EndOfPeriod(q, now)]
  /\ UNCHANGED <<now, consumptions, owner, pc, tx>>

\* consume begins its transaction.
Consume(h, q, k) ==
  /\ pc[h] = "idle"
  /\ Goto(h, "check")
  /\ tx' = [tx EXCEPT ![h] = [quota |-> q, key |-> k, begun |-> now,
                              usage |-> 0, limit |-> 0, periodEnd |-> NoPeriod]]
  /\ UNCHANGED <<now, rows, owner>>

\* IdempotencyConflict.
RefuseKnownKey(h) ==
  /\ pc[h] = "check"
  /\ tx[h].key \in KnownKeys
  /\ Rollback(h)

CheckKey(h) ==
  /\ pc[h] = "check"
  /\ tx[h].key \notin KnownKeys
  /\ Goto(h, "lock")
  /\ UNCHANGED <<now, rows, owner, tx>>

\* NotFound.
RefuseMissing(h) ==
  /\ pc[h] = "lock"
  /\ tx[h].quota \notin made
  /\ Rollback(h)

\* Mutant: SELECT without FOR UPDATE.
ReadQuota(h) ==
  LET q == tx[h].quota IN
  /\ pc[h] = "lock"
  /\ q \in made
  /\ tx' = [tx EXCEPT ![h].usage = usage[q], ![h].limit = limit[q],
                      ![h].periodEnd = periodEnd[q]]
  /\ Goto(h, "decide")
  /\ UNCHANGED <<now, rows, owner>>

\* SELECT ... FOR UPDATE waits for the row's lock and then reads the row.
LockQuota(h) ==
  LET q == tx[h].quota IN
  /\ pc[h] = "lock"
  /\ q \in made
  /\ owner[q] = Nobody
  /\ owner' = [owner EXCEPT ![q] = h]
  /\ tx' = [tx EXCEPT ![h].usage = usage[q], ![h].limit = limit[q],
                      ![h].periodEnd = periodEnd[q]]
  /\ Goto(h, "decide")
  /\ UNCHANGED <<now, rows>>

\* QuotaExceeded, before the end of the period is looked at.
RefuseExceeded(h) ==
  /\ pc[h] = "decide"
  /\ tx[h].usage >= tx[h].limit
  /\ Rollback(h)

Expired(t) == t.periodEnd # NoPeriod /\ now > t.periodEnd

\* Mutant: the limit compared as if usage were already counted.
CountUseUpToLimit(h) ==
  LET t == tx[h] IN
  /\ pc[h] = "decide"
  /\ t.usage <= t.limit
  /\ tx' = [tx EXCEPT
       ![h].usage = IF Expired(t) THEN 1 ELSE t.usage + 1,
       ![h].periodEnd = IF Expired(t) THEN EndOfPeriod(t.quota, t.begun) ELSE t.periodEnd]
  /\ Goto(h, "record")
  /\ UNCHANGED <<now, rows, owner>>

\* Mutant: the period is reckoned anew at every use, from a short one.
CountUseShortPeriod(h) ==
  LET t == tx[h] IN
  /\ pc[h] = "decide"
  /\ t.usage < t.limit
  /\ tx' = [tx EXCEPT
       ![h].usage = IF Expired(t) THEN 1 ELSE t.usage + 1,
       ![h].periodEnd = IF t.periodEnd = NoPeriod THEN NoPeriod ELSE t.begun + 1]
  /\ Goto(h, "record")
  /\ UNCHANGED <<now, rows, owner>>

\* The UPDATE: one use more, or the first use of a new period.
CountUse(h) ==
  LET t == tx[h] IN
  /\ pc[h] = "decide"
  /\ t.usage < t.limit
  /\ tx' = [tx EXCEPT
       ![h].usage = IF Expired(t) THEN 1 ELSE t.usage + 1,
       ![h].periodEnd = IF Expired(t) THEN EndOfPeriod(t.quota, t.begun) ELSE t.periodEnd]
  /\ Goto(h, "record")
  /\ UNCHANGED <<now, rows, owner>>

\* The key is inserted and not yet committed.
Inserting(g, k) == pc[g] = "commit" /\ tx[g].key = k

\* Mutant: the table without UNIQUE(idempotency_key).
RecordKeyAgain(h) ==
  /\ pc[h] = "record"
  /\ Goto(h, "commit")
  /\ UNCHANGED <<now, rows, owner, tx>>

\* The INSERT into quota_consumptions, under UNIQUE(idempotency_key).
RecordKey(h) ==
  /\ pc[h] = "record"
  /\ tx[h].key \notin KnownKeys
  /\ \A g \in Handlers : ~Inserting(g, tx[h].key)
  /\ Goto(h, "commit")
  /\ UNCHANGED <<now, rows, owner, tx>>

\* The constraint fails, and the error drops the transaction.
RefuseDuplicate(h) ==
  /\ pc[h] = "record"
  /\ tx[h].key \in KnownKeys
  /\ Rollback(h)

\* Mutant: the row keeps its lock, as if nothing ended the transaction.
CommitKeepsLock(h) ==
  LET t == tx[h] IN
  /\ pc[h] = "commit"
  /\ usage' = [usage EXCEPT ![t.quota] = t.usage]
  /\ periodEnd' = [periodEnd EXCEPT ![t.quota] = t.periodEnd]
  /\ consumptions' = consumptions \union {[key |-> t.key, quota |-> t.quota, at |-> t.begun]}
  /\ Goto(h, "idle")
  /\ tx' = [tx EXCEPT ![h] = NoTx]
  /\ UNCHANGED <<now, made, limit, owner>>

Commit(h) ==
  LET t == tx[h] IN
  /\ pc[h] = "commit"
  /\ usage' = [usage EXCEPT ![t.quota] = t.usage]
  /\ periodEnd' = [periodEnd EXCEPT ![t.quota] = t.periodEnd]
  /\ consumptions' = consumptions \union {[key |-> t.key, quota |-> t.quota, at |-> t.begun]}
  /\ EndTx(h)
  /\ UNCHANGED <<now, made, limit>>

\* A statement fails, or the client hangs up and axum drops the future.
Abort(h) ==
  /\ pc[h] # "idle"
  /\ Rollback(h)

-----------------------------------------------------------------------------
\* An UPDATE by somebody else waits for the row's lock.
Unlocked(q) == q \in made /\ owner[q] = Nobody

\* Mutant: the renewal gives one use back.
RenewOneUse(q) ==
  /\ q \in Renewable
  /\ Unlocked(q)
  /\ usage' = [usage EXCEPT ![q] = @ - 1]
  /\ UNCHANGED <<now, made, limit, periodEnd, consumptions, owner, pc, tx>>

\* renew: the service's checks read columns that never change; the count
\* starts again, the period goes on.
Renew(q) ==
  /\ q \in Renewable
  /\ Unlocked(q)
  /\ usage' = [usage EXCEPT ![q] = 0]
  /\ UNCHANGED <<now, made, limit, periodEnd, consumptions, owner, pc, tx>>

\* reset, by an administrator.
Reset(q) ==
  /\ Unlocked(q)
  /\ usage' = [usage EXCEPT ![q] = 0]
  /\ UNCHANGED <<now, made, limit, periodEnd, consumptions, owner, pc, tx>>

\* update_limit, under CHECK (current_usage <= max_allowed).
UpdateLimit(q, m) ==
  /\ Unlocked(q)
  /\ usage[q] <= m
  /\ limit' = [limit EXCEPT ![q] = m]
  /\ UNCHANGED <<now, made, usage, periodEnd, consumptions, owner, pc, tx>>

\* cleanup_old_consumptions.
CleanUp ==
  /\ consumptions' = {c \in consumptions : c.at >= now - Retention}
  /\ UNCHANGED <<now, made, usage, limit, periodEnd, owner, pc, tx>>

\* Time passes, but not past the longest transaction.
Tick ==
  /\ now < EndOfTime
  /\ \A h \in Handlers : pc[h] # "idle" => now < tx[h].begun + MaxTxTime
  /\ now' = now + 1
  /\ UNCHANGED <<rows, owner, pc, tx>>

-----------------------------------------------------------------------------
Step(h) ==
  \/ RefuseKnownKey(h) \/ CheckKey(h)
  \/ RefuseMissing(h) \/ LockQuota(h)
  \/ RefuseExceeded(h) \/ CountUse(h)
  \/ RecordKey(h) \/ RefuseDuplicate(h)
  \/ Commit(h)

Next ==
  \/ \E q \in Quotas, m \in Maxima : CreateQuota(q, m) \/ UpdateLimit(q, m)
  \/ \E h \in Handlers, q \in Quotas, k \in Keys : Consume(h, q, k)
  \/ \E h \in Handlers : Step(h) \/ Abort(h)
  \/ \E q \in Quotas : Renew(q) \/ Reset(q)
  \/ CleanUp
  \/ Tick

Spec == Init /\ [][Next]_vars

-----------------------------------------------------------------------------
TypeOK ==
  /\ now \in 0..EndOfTime
  /\ made \subseteq Quotas
  /\ usage \in [Quotas -> Nat]
  /\ limit \in [Quotas -> Nat]
  /\ periodEnd \in [Quotas -> Nat \union {NoPeriod}]
  /\ consumptions \subseteq Consumption
  /\ owner \in [Quotas -> Handlers \union {Nobody}]
  /\ pc \in [Handlers -> HandlerStates]
  /\ tx \in [Handlers -> Tx \union {NoTx}]
  /\ \A h \in Handlers : pc[h] # "idle" => tx[h] \in Tx

(***************************************************************************)
(* CHECK quota_usage_valid never fires in consume: the row is checked and  *)
(* counted under one lock, so no overlap of consumptions, renewals, resets *)
(* and new limits takes a quota past its limit.                            *)
(***************************************************************************)
UsageWithinLimit == \A q \in Quotas : usage[q] <= limit[q]

(***************************************************************************)
(* What an open transaction knows of its row is what is committed: nobody  *)
(* renews, resets, limits or counts behind the lock.                       *)
(***************************************************************************)
LockedRowIsCurrent ==
  \A h \in Handlers :
    LET t == tx[h]
        q == t.quota
    IN
    /\ pc[h] \in {"decide", "record", "commit"} =>
         owner[q] = h /\ q \in made /\ t.limit = limit[q]
    /\ pc[h] = "decide" => t.usage = usage[q] /\ t.periodEnd = periodEnd[q]
    /\ pc[h] \in {"record", "commit"} =>
         /\ usage[q] < limit[q]
         /\ \/ t.usage = usage[q] + 1 /\ t.periodEnd = periodEnd[q]
            \/ /\ t.usage = 1
               /\ periodEnd[q] # NoPeriod
               /\ periodEnd[q] < now
               /\ t.periodEnd = EndOfPeriod(q, t.begun)

(***************************************************************************)
(* An idempotency key is charged once as long as it is remembered: it has  *)
(* one row, and at most one open transaction has inserted it, none while   *)
(* it has a row.                                                           *)
(***************************************************************************)
KeyChargedOnce ==
  /\ \A c, d \in consumptions : c.key = d.key => c = d
  /\ \A h \in Handlers : pc[h] = "commit" => tx[h].key \notin KnownKeys
  /\ \A g, h \in Handlers :
       pc[g] = "commit" /\ pc[h] = "commit" /\ tx[g].key = tx[h].key => g = h

(***************************************************************************)
(* Periods only move forward, although the new one is reckoned from the    *)
(* beginning of a transaction that may have begun before the old one       *)
(* ended.                                                                  *)
(***************************************************************************)
PeriodsMoveForward ==
  [][\A q \in made : periodEnd[q] # NoPeriod => periodEnd'[q] >= periodEnd[q]]_vars

(***************************************************************************)
(* "Auto-reset : Quotas périodiques", says the readme, and the comments of *)
(* consume_quota say it twice: a call that holds the row of a quota whose  *)
(* period is over can count the first use of the next one, whatever was    *)
(* used of the last.                                                       *)
(***************************************************************************)
PeriodResets ==
  \A h \in Handlers :
    pc[h] = "decide" /\ Expired(tx[h]) /\ tx[h].limit > 0 => ENABLED CountUse(h)

(***************************************************************************)
(* No deadlock: whoever waits, for a row's lock or another's key, waits    *)
(* for a call under way, and in every set of calls there is one that waits *)
(* for none of the set.                                                    *)
(***************************************************************************)
WaitsFor(h, g) ==
  \/ pc[h] = "lock" /\ owner[tx[h].quota] = g
  \/ pc[h] = "record" /\ Inserting(g, tx[h].key)
NoDeadlock ==
  /\ \A g, h \in Handlers : WaitsFor(h, g) => pc[g] # "idle"
  /\ \A S \in (SUBSET Handlers) \ {{}} : \E h \in S : \A g \in S : ~WaitsFor(h, g)

(***************************************************************************)
(* Every call of the service takes effect at once, or not at all.          *)
(***************************************************************************)
Counter == INSTANCE QuotaCounter WITH
  known <- KnownKeys,
  Ends <- {EndOfPeriod(q, t) : q \in {q \in Quotas : PeriodOf[q] # NoPeriod}, t \in 0..EndOfTime}
ImplementsCounter == Counter!CounterSpec
=============================================================================

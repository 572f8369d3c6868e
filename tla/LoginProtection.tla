-------------------------- MODULE LoginProtection ---------------------------
(***************************************************************************)
(* What SecurityService puts in the way of a login and of a guest account: *)
(* the failures counted per address and per e-mail, the CAPTCHA, and the   *)
(* guests counted per device.  Each check reads its count in a query of    *)
(* its own; the failure or the device is recorded long after.  The         *)
(* repositories behind it (LoginAttemptRepository,                         *)
(* DeviceFingerprintRepository) are not in the source tree: they are taken *)
(* to count what their names say, and where a name leaves it open, as the  *)
(* lock of an account does, to give any answer that a reading of it gives. *)
(***************************************************************************)
EXTENDS Integers, FiniteSets

CONSTANTS
  Ips, Emails, Devices,
  Accounts,        \* the e-mails of accounts with a password
  Handlers,        \* slots for requests under way
  IpLimit,         \* 5 failures per address
  LockLimit,       \* login_max_attempts_before_block
  CaptchaAfter,    \* login_attempts_before_captcha
  GuestLimit,      \* device_fingerprint_max_guests
  Window,          \* 15 minutes, in ticks
  LockWindow       \* 60 minutes, in ticks

ASSUME LoginAssumption ==
  /\ IsFiniteSet(Ips) /\ IsFiniteSet(Emails) /\ IsFiniteSet(Handlers)
  /\ Accounts \subseteq Emails
  /\ {IpLimit, LockLimit, CaptchaAfter, GuestLimit, Window, LockWindow} \subseteq Nat \ {0}
  /\ Window <= LockWindow

VARIABLES
  failed,    \* login_attempts: failures per address, e-mail and age
  streak,    \* those of them since the e-mail's last recorded success
  guests,    \* device_fingerprints: guests per device
  pc         \* what each request does

vars == <<failed, streak, guests, pc>>

Ages == 0..(LockWindow - 1)    \* an older failure is in no query's window
Idle == [at |-> "idle"]

Init ==
  /\ failed = [x \in Ips \X Emails \X Ages |-> 0]
  /\ streak = failed
  /\ guests = [d \in Devices |-> 0]
  /\ pc = [h \in Handlers |-> Idle]

Goto(h, step) == pc' = [pc EXCEPT ![h].at = step]
Leave(h) == pc' = [pc EXCEPT ![h] = Idle]

-----------------------------------------------------------------------------
\* The counts, of the failures in f.
Attempts(f, keys) == UNION {{x} \X (1..f[x]) : x \in keys}
Count(f, keys) == Cardinality(Attempts(f, keys))
FailuresOfIp(ip) == Count(failed, {ip} \X Emails \X (0..(Window - 1)))
FailuresOfEmail(e, window) == Count(failed, Ips \X {e} \X (0..(window - 1)))
FailuresInRow(e, window) == Count(streak, Ips \X {e} \X (0..(window - 1)))

\* Mutant: one failure more than the limit.
IpLimitExceeded(ip) == FailuresOfIp(ip) > IpLimit
CheckLoginRateLimit(ip) == FailuresOfIp(ip) >= IpLimit

\* Mutant: the lock looks at the window of the rate limit alone.
LockedOfLate(e) ==
  {locked \in BOOLEAN : /\ FailuresInRow(e, Window) >= LockLimit => locked
                        /\ locked => FailuresOfEmail(e, Window) > 0}

(***************************************************************************)
(* What is_account_locked(email, 10, 60) may answer.  "Après 10 échecs     *)
(* consécutifs" counts to the last success; a count over 60 minutes does   *)
(* not stop there; "60 minutes de lockout" lasts from the last of the      *)
(* failures on.  By each of them the limit of consecutive failures within  *)
(* the window locks the account, and one without any failure in it is not  *)
(* locked.  Between the two, both answers are possible.                    *)
(***************************************************************************)
CheckAccountLock(e) ==
  {locked \in BOOLEAN : /\ FailuresInRow(e, LockWindow) >= LockLimit => locked
                        /\ locked => FailuresOfEmail(e, LockWindow) > 0}

CheckCaptchaRequired(e) == FailuresOfEmail(e, Window) >= CaptchaAfter

RecordLoginAttempt(ip, e) ==
  /\ failed' = [failed EXCEPT ![<<ip, e, 0>>] = @ + 1]
  /\ streak' = [streak EXCEPT ![<<ip, e, 0>>] = @ + 1]

-----------------------------------------------------------------------------
\* login.  A request over the address's limit is refused, and not recorded.
Login(h, ip, e) ==
  /\ pc[h] = Idle
  /\ ~CheckLoginRateLimit(ip)
  /\ pc' = [pc EXCEPT ![h] = [at |-> "lock", ip |-> ip, email |-> e]]
  /\ UNCHANGED <<failed, streak, guests>>

\* Mutant: a request refused for the lock is recorded as a failure.
AskLockRecording(h) ==
  /\ pc[h].at = "lock"
  /\ \E locked \in CheckAccountLock(pc[h].email) :
       IF locked THEN Leave(h) /\ RecordLoginAttempt(pc[h].ip, pc[h].email)
                 ELSE Goto(h, "captcha") /\ UNCHANGED <<failed, streak>>
  /\ UNCHANGED guests

AskLock(h) ==
  /\ pc[h].at = "lock"
  /\ \E locked \in CheckAccountLock(pc[h].email) :
       IF locked THEN Leave(h) ELSE Goto(h, "captcha")
  /\ UNCHANGED <<failed, streak, guests>>

AskCaptcha(h) ==
  /\ pc[h].at = "captcha"
  /\ IF CheckCaptchaRequired(pc[h].email)
       THEN Goto(h, "verify") \/ Goto(h, "failure")    \* with an answer, without
       ELSE Goto(h, "password")
  /\ UNCHANGED <<failed, streak, guests>>

\* hCaptcha rejects the answer or cannot be asked: the request ends unrecorded.
VerifyCaptcha(h) ==
  /\ pc[h].at = "verify"
  /\ Goto(h, "password") \/ Leave(h)
  /\ UNCHANGED <<failed, streak, guests>>

\* No account of that e-mail, or one without a password: nothing is recorded.
FindAccount(h) ==
  /\ pc[h].at = "password"
  /\ pc[h].email \notin Accounts
  /\ Leave(h)
  /\ UNCHANGED <<failed, streak, guests>>

\* A wrong password, or a suspended account, is a failure.
VerifyPassword(h) ==
  /\ pc[h].at = "password"
  /\ pc[h].email \in Accounts
  /\ Goto(h, "failure") \/ Goto(h, "success")
  /\ UNCHANGED <<failed, streak, guests>>

RecordFailure(h) ==
  /\ pc[h].at = "failure"
  /\ RecordLoginAttempt(pc[h].ip, pc[h].email)
  /\ Leave(h)
  /\ UNCHANGED guests

\* The success is recorded, and the tokens are made (TokenSession).
SignIn(h) ==
  /\ pc[h].at = "success"
  /\ streak' = [x \in Ips \X Emails \X Ages |->
                  IF x[2] = pc[h].email THEN 0 ELSE streak[x]]
  /\ Leave(h)
  /\ UNCHANGED <<failed, guests>>

-----------------------------------------------------------------------------
\* create_guest, for a request that names its device; one without is not limited.
CheckGuestDeviceLimit(d) == guests[d] >= GuestLimit

\* Mutant: the limit of the device is not looked at.
CreateGuestUnchecked(h, d) ==
  /\ pc[h] = Idle
  /\ pc' = [pc EXCEPT ![h] = [at |-> "guest", device |-> d]]
  /\ UNCHANGED <<failed, streak, guests>>

CreateGuest(h, d) ==
  /\ pc[h] = Idle
  /\ ~CheckGuestDeviceLimit(d)
  /\ pc' = [pc EXCEPT ![h] = [at |-> "guest", device |-> d]]
  /\ UNCHANGED <<failed, streak, guests>>

InsertGuest(h) ==
  /\ pc[h].at = "guest"
  /\ Goto(h, "device")
  /\ UNCHANGED <<failed, streak, guests>>

RegisterDevice(h) ==
  /\ pc[h].at = "device"
  /\ guests' = [guests EXCEPT ![pc[h].device] = @ + 1]
  /\ Leave(h)
  /\ UNCHANGED <<failed, streak>>

-----------------------------------------------------------------------------
\* A query fails, or the client hangs up: what was not recorded never is.
Abort(h) ==
  /\ pc[h] # Idle
  /\ Leave(h)
  /\ UNCHANGED <<failed, streak, guests>>

Older(f) ==
  [x \in Ips \X Emails \X Ages |-> IF x[3] = 0 THEN 0 ELSE f[<<x[1], x[2], x[3] - 1>>]]

Tick ==
  /\ failed' = Older(failed)
  /\ streak' = Older(streak)
  /\ UNCHANGED <<guests, pc>>

Next ==
  \/ \E h \in Handlers :
       \/ \E ip \in Ips, e \in Emails : Login(h, ip, e)
       \/ \E d \in Devices : CreateGuest(h, d)
       \/ AskLock(h) \/ AskCaptcha(h) \/ VerifyCaptcha(h)
       \/ FindAccount(h) \/ VerifyPassword(h) \/ RecordFailure(h) \/ SignIn(h)
       \/ InsertGuest(h) \/ RegisterDevice(h) \/ Abort(h)
  \/ Tick

\* Time passes, whatever the requests do.
Spec == Init /\ [][Next]_vars /\ WF_vars(Tick)

-----------------------------------------------------------------------------
Steps == {"lock", "captcha", "verify", "password", "failure", "success"}

At(steps) == {h \in Handlers : pc[h].at \in steps}
OfIp(ip) == {h \in At(Steps) : pc[h].ip = ip}
PastLock(e) == {h \in At(Steps \ {"lock"}) : pc[h].email = e}
OfDevice(d) == {h \in At({"guest", "device"}) : pc[h].device = d}

IpCount == INSTANCE CheckedCount WITH
  Keys <- Ips, Limit <- IpLimit, Slots <- Cardinality(Handlers),
  count <- [ip \in Ips |-> FailuresOfIp(ip)],
  pending <- [ip \in Ips |-> Cardinality(OfIp(ip))]

LockCount == INSTANCE CheckedCount WITH
  Keys <- Emails, Limit <- LockLimit, Slots <- Cardinality(Handlers),
  count <- [e \in Emails |-> FailuresInRow(e, LockWindow)],
  pending <- [e \in Emails |-> Cardinality(PastLock(e))]

GuestCount == INSTANCE CheckedCount WITH
  Keys <- Devices, Limit <- GuestLimit, Slots <- Cardinality(Handlers),
  count <- guests,
  pending <- [d \in Devices |-> Cardinality(OfDevice(d))]

(***************************************************************************)
(* "5 tentatives/15min par IP": an address collects that many failures in  *)
(* the window, and at most one more for each other request of its own that *)
(* passed the check before the last of them was recorded.                  *)
(***************************************************************************)
IpLimitKept == IpCount!CountSpec

(***************************************************************************)
(* "Blocage compte : Après 10 échecs consécutifs": the consecutive         *)
(* failures on one account, from whatever addresses, pass the limit that   *)
(* locks it by the requests already past the lock and no more, whichever   *)
(* reading of the lock is the code's.                                      *)
(***************************************************************************)
LockKept == LockCount!CountSpec

(***************************************************************************)
(* A device has at most the permitted guests, and those whose requests     *)
(* passed the check before the last of them was registered.                *)
(***************************************************************************)
GuestLimitKept == GuestCount!CountSpec

(***************************************************************************)
(* Blocks lift, however often the address or the account is tried          *)
(* meanwhile, since a refusal is not a failure: a limited address comes    *)
(* free again, the consecutive failures that lock an account age, and the  *)
(* account that lets no request past its lock is rid of every failure that *)
(* any reading of the lock could count.                                    *)
(***************************************************************************)
BlocksLift ==
  /\ \A ip \in Ips : CheckLoginRateLimit(ip) ~> ~CheckLoginRateLimit(ip)
  /\ \A e \in Emails :
       /\ FailuresInRow(e, LockWindow) >= LockLimit
            ~> FailuresInRow(e, LockWindow) < LockLimit
       /\ <>[](PastLock(e) = {}) => []<>(FailuresOfEmail(e, LockWindow) = 0)
=============================================================================

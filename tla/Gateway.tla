------------------------------- MODULE Gateway ------------------------------
(***************************************************************************)
(* A request's way through the API gateway: the token check, the limiter's *)
(* log of admissions per user (in memory, under one mutex), the route, and *)
(* the proxy behind its circuit breaker.  The path and the claims decide   *)
(* what happens; the upstream's answer is CircuitBreaker's.                *)
(***************************************************************************)
EXTENDS CircuitBreaker

CONSTANTS
  Users,      \* values of the claim sub
  NoToken,    \* no token, or one that does not validate
  Paths,      \* [public : BOOLEAN, service : Services or NoService]
  NoService,  \* from_path knows no service for the path
  Limit,      \* requests_per_minute
  Window      \* window, in ticks

ASSUME GatewayAssumption ==
  /\ Limit \in Nat \ {0}
  /\ Window \in Nat \ {0}
  /\ NoToken \notin Users

VARIABLES
  log,       \* per user and age in ticks: admissions in the limiter's log
  admitted,  \* the same of the admissions there really were, as history
  inside     \* requests that have passed the limiter

gatewayVars == <<failures, isOpen, age, pc, log, admitted, inside>>
limiterVars == <<log, admitted>>

\* At the age Window an admission has left the window, but maybe not the log.
Ages == 0..Window
None == [a \in Ages |-> 0]
Entries(l) == UNION {{a} \X (1..l[a]) : a \in Ages}
Total(l) == Cardinality(Entries(l))

GatewayInit ==
  /\ Init
  /\ log = [u \in Users |-> None]
  /\ admitted = [u \in Users |-> None]
  /\ inside = {}

-----------------------------------------------------------------------------
\* Mutant: the last of the window is dropped with the old ones.
RetainLess(l) == [a \in Ages |-> IF a < Window - 1 THEN l[a] ELSE 0]

\* Mutant: the log is never cleaned.
RetainAll(l) == l

Retain(l) == [a \in Ages |-> IF a < Window THEN l[a] ELSE 0]

OneMore(l) == [l EXCEPT ![0] = @ + 1]

Room(u) == Total(Retain(log[u])) < Limit

\* RateLimiter.check, of a user whose log has room.
Admit(u) ==
  /\ Room(u)
  /\ log' = [log EXCEPT ![u] = OneMore(Retain(@))]
  /\ admitted' = [admitted EXCEPT ![u] = OneMore(@)]

\* 429 Too Many Requests.
Deny(u) ==
  /\ ~Room(u)
  /\ log' = [log EXCEPT ![u] = Retain(@)]
  /\ UNCHANGED admitted

-----------------------------------------------------------------------------
Free(r) == r \notin inside /\ pc[r] = "idle"

\* 404 if there is no service; else the proxy asks the breaker.
Route(r, path) ==
  inside' = IF path.service = NoService THEN inside ELSE inside \union {r}

\* Routes that are public pass the token check and the limiter by.
ServePublic(r, path) ==
  /\ Free(r)
  /\ path.public
  /\ Route(r, path)
  /\ UNCHANGED <<limiterVars, vars>>

\* Without claims the answer is 401, and the limiter is not asked.
Serve(r, path, who) ==
  /\ Free(r)
  /\ ~path.public
  /\ \/ who = NoToken /\ UNCHANGED <<limiterVars, inside>>
     \/ who # NoToken /\ Admit(who) /\ Route(r, path)
     \/ who # NoToken /\ Deny(who) /\ UNCHANGED inside
  /\ UNCHANGED vars

\* is_open returns, and the proxy goes on to send; or it has to reset first.
Proxy(r) ==
  /\ r \in inside
  /\ Pass(r) \/ Retry(r)
  /\ UNCHANGED <<limiterVars, inside>>

CloseAgain(r) ==
  /\ r \in inside
  /\ Reset(r)
  /\ UNCHANGED <<limiterVars, inside>>

\* The request is answered: by the service, with an error, or with 503 at once.
Answer(r) ==
  /\ r \in inside
  /\ Refuse(r) \/ RecordSuccess(r) \/ RecordFailure(r)
  /\ inside' = inside \ {r}
  /\ UNCHANGED limiterVars

\* The body cannot be read, or the client hangs up, also before is_open returns.
Drop(r) ==
  /\ r \in inside
  /\ Abort(r) \/ (pc[r] = "idle" /\ UNCHANGED vars)
  /\ inside' = inside \ {r}
  /\ UNCHANGED limiterVars

Older(l) ==
  [a \in Ages |-> IF a = 0 THEN 0 ELSE IF a < Window THEN l[a - 1] ELSE l[a - 1] + l[a]]

Clock ==
  /\ Tick \/ (Expired /\ UNCHANGED vars)
  /\ log' = [u \in Users |-> Older(log[u])]
  /\ admitted' = [u \in Users |-> [Older(admitted[u]) EXCEPT ![Window] = 0]]
  /\ UNCHANGED inside

GatewayNext ==
  \/ \E r \in Requests :
       \/ Proxy(r) \/ CloseAgain(r) \/ Answer(r) \/ Drop(r)
       \/ \E path \in Paths : ServePublic(r, path)
                              \/ \E who \in Users \union {NoToken} : Serve(r, path, who)
  \/ Clock

(***************************************************************************)
(* Time passes, requests in the proxy are answered or time out, and some   *)
(* client goes on asking: nothing but a request looks whether the timeout  *)
(* has passed.  Strong, for the locks are handed on in turn and not every  *)
(* client hangs up just while its request waits.                           *)
(***************************************************************************)
Enter == \E r \in Requests, path \in Paths :
           /\ ServePublic(r, path) \/ \E who \in Users : Serve(r, path, who)
           /\ inside' # inside

Fairness ==
  /\ WF_gatewayVars(Clock)
  /\ SF_gatewayVars(Enter)
  /\ \A r \in Requests : /\ SF_gatewayVars(Proxy(r)) /\ SF_gatewayVars(CloseAgain(r))
                         /\ SF_gatewayVars(Answer(r))

GatewaySpec == GatewayInit /\ [][GatewayNext]_gatewayVars
FairSpec == GatewaySpec /\ Fairness

-----------------------------------------------------------------------------
(***************************************************************************)
(* Of one user's requests no window of the limiter's length, wherever it   *)
(* begins, sees more than the limit pass, whatever the log forgets.        *)
(***************************************************************************)
WindowKept == \A u \in Users : Total(admitted[u]) <= Limit

(***************************************************************************)
(* A user over the limit is let in again once the window has moved on,     *)
(* however often he asks meanwhile: what was denied does not count.        *)
(***************************************************************************)
LimitLifts == \A u \in Users : []<>Room(u)

(***************************************************************************)
(* As long as anyone asks, an open breaker closes: neither late failures   *)
(* nor users who have spent their limit on refused requests keep it open.  *)
(***************************************************************************)
Recovers == isOpen ~> ~isOpen
=============================================================================

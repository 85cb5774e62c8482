------------------------------ MODULE Transport ------------------------------
(***************************************************************************)
(* AsyncTransport.request for the coroutines that share one server's       *)
(* transport: the concurrency semaphore, the rate limit behind its lock,   *)
(* the attempts of a request and the waits between them.                   *)
(*                                                                         *)
(* Time is counted in ticks.  A timer says what is left of a sleep; a      *)
(* sleeper may wake later than that, never earlier.  What waits for the    *)
(* semaphore or the lock is served in any order, asyncio serves it in      *)
(* turn.  The server may handle an attempt whether or not its sender is    *)
(* still there, and whatever the sender is answered.                       *)
(***************************************************************************)
EXTENDS Naturals, FiniteSets

CONSTANTS Requests,       \* the calls of request()
          Idempotent,     \* those made with idempotent=True
          Concurrency,    \* ServerConfig.concurrency
          MinInterval,    \* 1 / rate_limit, or 0
          MaxAttempts,    \* RetryConfig ...
          InitialDelay,
          Multiplier,
          MaxDelay,
          RespectRetryAfter,
          MaxRetryAfter,
          RetryAfters,    \* what a server may ask for in Retry-After
          None

ASSUME ConstantsAssumption ==
    /\ IsFiniteSet(Requests) /\ Idempotent \subseteq Requests /\ None \notin Requests
    /\ Concurrency \in Nat \ {0} /\ MaxAttempts \in Nat \ {0} /\ Multiplier \in Nat \ {0}
    /\ MinInterval \in Nat /\ InitialDelay \in Nat /\ MaxDelay \in Nat
    /\ RespectRetryAfter \in BOOLEAN /\ MaxRetryAfter \in Nat /\ RetryAfters \subseteq Nat

VARIABLES
    phase,      \* where each request is
    attempt,    \* which attempt it is at
    permits,    \* the value of _semaphore
    rateLock,   \* who holds _rate_lock
    sinceLast,  \* how long ago _last_request_at was set, up to MinInterval
    timer,      \* what is left of each request's sleep
    wire,       \* the attempts on their way to the server
    handled,    \* the attempts the server has handled
    owed        \* what is left of the wait the server asked a request for (history)

vars == <<phase, attempt, permits, rateLock, sinceLast, timer, wire, handled, owed>>

Ended   == {"returned", "raised", "cancelled"}
Holding == {"admitted", "throttled", "sent"}    \* inside `async with self._semaphore`
Phases  == {"idle", "queued", "asleep"} \cup Holding \cup Ended

TypeOK ==
    /\ phase \in [Requests -> Phases]
    /\ attempt \in [Requests -> 1..MaxAttempts]
    /\ permits \in 0..Concurrency
    /\ rateLock \in Requests \cup {None}
    /\ sinceLast \in 0..MinInterval
    /\ timer \in [Requests -> Nat] /\ owed \in [Requests -> Nat]
    /\ wire \subseteq Requests \X (1..MaxAttempts)
    /\ handled \subseteq Requests \X (1..MaxAttempts)

Init ==
    /\ phase = [r \in Requests |-> "idle"]
    /\ attempt = [r \in Requests |-> 1]
    /\ permits = Concurrency /\ rateLock = None
    /\ sinceLast = MinInterval
    /\ timer = [r \in Requests |-> 0] /\ owed = [r \in Requests |-> 0]
    /\ wire = {} /\ handled = {}

-----------------------------------------------------------------------------
(* _send_once(): a permit, then the rate limit, then the request.          *)

Call(r) ==
    /\ phase[r] = "idle"
    /\ phase' = [phase EXCEPT ![r] = "queued"]
    /\ UNCHANGED <<attempt, permits, rateLock, sinceLast, timer, wire, handled, owed>>

Unlimited == TRUE                                     \* mutant
HasPermit == permits > 0

Admit(r) ==
    /\ phase[r] = "queued" /\ HasPermit
    /\ permits' = permits - 1
    /\ phase' = [phase EXCEPT ![r] = "admitted"]
    /\ UNCHANGED <<attempt, rateLock, sinceLast, timer, wire, handled, owed>>

Depart(r) ==
    /\ phase' = [phase EXCEPT ![r] = "sent"]
    /\ wire' = wire \cup {<<r, attempt[r]>>}
    /\ sinceLast' = 0

Unlocked == TRUE                                      \* mutant
LockFree == rateLock = None

\* The interval has passed: nothing to sleep for.
Pass(r) ==
    /\ phase[r] = "admitted" /\ LockFree /\ sinceLast >= MinInterval
    /\ Depart(r)
    /\ UNCHANGED <<attempt, permits, rateLock, timer, handled, owed>>

\* The rest of the interval is slept out with the lock held.
Throttle(r) ==
    /\ phase[r] = "admitted" /\ LockFree /\ sinceLast < MinInterval
    /\ rateLock' = r
    /\ timer' = [timer EXCEPT ![r] = MinInterval - sinceLast]
    /\ phase' = [phase EXCEPT ![r] = "throttled"]
    /\ UNCHANGED <<attempt, permits, sinceLast, wire, handled, owed>>

Release(r) == rateLock' = IF rateLock = r THEN None ELSE rateLock

EndThrottle(r) ==
    /\ phase[r] = "throttled" /\ timer[r] = 0
    /\ Depart(r) /\ Release(r)
    /\ UNCHANGED <<attempt, permits, timer, handled, owed>>

KeepsPermit == permits                                \* mutant
FreedTwice  == permits + 2                            \* mutant
Freed       == permits + 1

Succeed(r) ==
    /\ phase[r] = "sent" /\ <<r, attempt[r]>> \in handled
    /\ permits' = Freed
    /\ phase' = [phase EXCEPT ![r] = "returned"]
    /\ UNCHANGED <<attempt, rateLock, sinceLast, timer, wire, handled, owed>>

-----------------------------------------------------------------------------
(* request(): which failures are tried again, and when.                    *)

Least(m, n)    == IF m < n THEN m ELSE n
Greatest(m, n) == IF m < n THEN n ELSE m

AttemptsForAll(r) == MaxAttempts                      \* mutant
Attempts(r) == IF r \in Idempotent THEN MaxAttempts ELSE 1

\* _backoff_delay: exponential, jittered, and no shorter than Retry-After, of
\* which more than MaxRetryAfter is not believed.  asked is 0 when there is none.
Exponential(n) == InitialDelay * Multiplier^(n - 1)
\* From half of a delay to all of it, of a delay that is at most cap.
Jittered(delay, cap) == {d \in 0..cap : d <= delay /\ 2 * d >= Least(delay, cap)}
Uncapped(asked) == IF RespectRetryAfter THEN asked ELSE 0        \* mutant
Floor(asked) == IF RespectRetryAfter THEN Least(asked, MaxRetryAfter) ELSE 0
FloorThenJitter(n, asked) ==                                     \* mutant
    Jittered(Greatest(Exponential(n), Floor(asked)), Greatest(MaxDelay, Floor(asked)))
Delays(n, asked) == {Greatest(d, Floor(asked)) : d \in Jittered(Exponential(n), MaxDelay)}

\* A timeout, a lost connection, 429, 502, 503, 504.  RateLimitError alone carries
\* a Retry-After.
FailRetryably(r, asked) ==
    /\ phase[r] = "sent"
    /\ permits' = Freed
    /\ IF attempt[r] < Attempts(r)
       THEN /\ phase' = [phase EXCEPT ![r] = "asleep"]
            /\ \E d \in Delays(attempt[r], asked) : timer' = [timer EXCEPT ![r] = d]
            /\ owed' = [owed EXCEPT ![r] = Floor(asked)]
       ELSE /\ phase' = [phase EXCEPT ![r] = "raised"]
            /\ UNCHANGED <<timer, owed>>
    /\ UNCHANGED <<attempt, rateLock, sinceLast, wire, handled>>

\* TLS, a refusal, a redirect, any other status, a body too large or not JSON.
FailFinally(r) ==
    /\ phase[r] = "sent"
    /\ permits' = Freed
    /\ phase' = [phase EXCEPT ![r] = "raised"]
    /\ UNCHANGED <<attempt, rateLock, sinceLast, timer, wire, handled, owed>>

Retry(r) ==
    /\ phase[r] = "asleep" /\ timer[r] = 0
    /\ attempt' = [attempt EXCEPT ![r] = @ + 1]
    /\ phase' = [phase EXCEPT ![r] = "queued"]
    /\ UNCHANGED <<permits, rateLock, sinceLast, timer, wire, handled, owed>>

\* `async with` gives back what the coroutine holds, and nothing it only waits for.
FreedByWaiter(r) == permits + 1                       \* mutant
FreedByCancel(r) == IF phase[r] \in Holding THEN permits + 1 ELSE permits

Cancel(r) ==
    /\ phase[r] \in {"queued", "asleep"} \cup Holding
    /\ permits' = FreedByCancel(r)
    /\ Release(r)
    /\ phase' = [phase EXCEPT ![r] = "cancelled"]
    /\ timer' = [timer EXCEPT ![r] = 0]
    /\ UNCHANGED <<attempt, sinceLast, wire, handled, owed>>

-----------------------------------------------------------------------------
\* The server handles an attempt, or never does.
Handle(r, n) ==
    /\ <<r, n>> \in wire
    /\ wire' = wire \ {<<r, n>>}
    /\ handled' = handled \cup {<<r, n>>}
    /\ UNCHANGED <<phase, attempt, permits, rateLock, sinceLast, timer, owed>>

Less(n) == IF n = 0 THEN 0 ELSE n - 1

Tick ==
    /\ sinceLast' = Least(sinceLast + 1, MinInterval)
    /\ timer' = [r \in Requests |-> Less(timer[r])]
    /\ owed' = [r \in Requests |-> Less(owed[r])]
    /\ UNCHANGED <<phase, attempt, permits, rateLock, wire, handled>>

-----------------------------------------------------------------------------
Answer(r) ==
    \/ Succeed(r) \/ FailFinally(r)
    \/ \E asked \in RetryAfters \cup {0} : FailRetryably(r, asked)

Step(r) == Admit(r) \/ Pass(r) \/ Throttle(r) \/ EndThrottle(r) \/ Answer(r) \/ Retry(r)

Next ==
    \/ \E r \in Requests :
        Call(r) \/ Step(r) \/ Cancel(r) \/ (\E n \in 1..MaxAttempts : Handle(r, n))
    \/ Tick

\* The loop runs what is ready, time passes, and httpx.Timeout ends a request
\* that is not answered.
Fairness == (\A r \in Requests : WF_vars(Step(r))) /\ WF_vars(Tick)

Spec == Init /\ [][Next]_vars
FairSpec == Spec /\ Fairness

-----------------------------------------------------------------------------
(* Properties.                                                             *)

\* A mutation reaches its server at most once, however many failures, timeouts and
\* late deliveries (error-handling.md: "Mutating requests are never retried").
MutatesAtMostOnce ==
    \A r \in Requests \ Idempotent : Cardinality({h \in handled : h[1] = r}) <= 1

Holders == {r \in Requests : phase[r] \in Holding}

\* No more than Concurrency requests are past the semaphore, whoever is cancelled
\* while it waits for a permit or holds one.
ConcurrencyBounded == Cardinality(Holders) <= Concurrency

Departs(r) == phase[r] # "sent" /\ phase'[r] = "sent"

\* Requests leave at least MinInterval apart, though every coroutine reads
\* _last_request_at, sleeps, and only then sets it.
RateRespected == [][\A r \in Requests : Departs(r) => sinceLast >= MinInterval]_vars

\* No server parks a request for longer than the configuration allows.
NobodyIsParked ==
    \A r \in Requests : timer[r] <= Greatest(MinInterval, Greatest(MaxDelay, MaxRetryAfter))

\* The server's wait is kept, and no more than kept: no retry leaves before it is
\* over ("The server-mandated wait is a floor"), and however many years the server
\* asked for, or the exponential comes to, no sleep outlasts the configured caps.
RetryAfterHonoured ==
    /\ [][\A r \in Requests : Departs(r) => owed[r] = 0]_vars
    /\ []NobodyIsParked

\* Every request ends: nobody waits for ever for a permit or for the lock, though
\* one of them is slept under.
RequestsEnd == \A r \in Requests : phase[r] = "queued" ~> phase[r] \in Ended

-----------------------------------------------------------------------------
(* The inductive invariant behind them, in parts.                          *)

\* No permit is lost or made up.
PermitsCounted == permits + Cardinality(Holders) = Concurrency

\* Who sleeps out the interval has the lock, nobody else does, and when it wakes
\* the interval is over.
LockIsSleptUnder ==
    \A r \in Requests :
        /\ rateLock = r <=> phase[r] = "throttled"
        /\ phase[r] = "throttled" => timer[r] + sinceLast >= MinInterval

\* An attempt leaves once: what has still to leave never left.
AttemptsLeaveOnce ==
    \A h \in wire \cup handled :
        /\ h[2] <= attempt[h[1]]
        /\ phase[h[1]] \in {"idle", "queued", "admitted", "throttled"} => h[2] < attempt[h[1]]

\* Who backs off has an attempt left.
AsleepHasAttempts == \A r \in Requests : phase[r] = "asleep" => attempt[r] < Attempts(r)

\* A mutation has one attempt.
MutationsTryOnce == \A r \in Requests \ Idempotent : attempt[r] = 1

\* The wait a server asked for is slept out.
OwedIsSlept ==
    \A r \in Requests :
        /\ phase[r] = "asleep" => owed[r] <= timer[r]
        /\ phase[r] \notin Ended \cup {"asleep"} => owed[r] = 0

IndInv ==
    /\ TypeOK /\ PermitsCounted /\ LockIsSleptUnder
    /\ AttemptsLeaveOnce /\ AsleepHasAttempts /\ MutationsTryOnce /\ OwedIsSlept
=============================================================================

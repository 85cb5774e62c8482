--------------------------- MODULE TransportProofs ---------------------------
(***************************************************************************)
(* The safety properties of Transport, for any requests, concurrency,      *)
(* interval and retry configuration.                                       *)
(***************************************************************************)
EXTENDS Transport, FiniteSetTheorems, TLAPS

USE DEF HasPermit, LockFree, Freed, FreedByCancel, Attempts

-----------------------------------------------------------------------------
(* Operators.                                                              *)

\* A backoff is a time, no shorter than what the server asked for and no longer
\* than the configuration allows.
LEMMA DelayIsNoShorter ==
    ASSUME NEW n, NEW asked \in Nat, NEW d \in Delays(n, asked)
    PROVE  /\ d \in Nat /\ Floor(asked) \in Nat
           /\ d >= Floor(asked) /\ d <= Greatest(MaxDelay, MaxRetryAfter)
<1> USE ConstantsAssumption
<1>1. Floor(asked) \in Nat /\ Floor(asked) <= MaxRetryAfter
  BY DEF Floor, Least
<1>2. PICK e \in Jittered(Exponential(n), MaxDelay) : d = Greatest(e, Floor(asked))
  BY DEF Delays
<1>3. e \in 0..MaxDelay
  BY <1>2 DEF Jittered
<1> QED BY <1>1, <1>2, <1>3 DEF Greatest

\* A request enters the semaphore with one permit and leaves with one.
LEMMA HoldersCount ==
    ASSUME TypeOK, NEW r \in Requests, NEW p \in Phases,
           phase' = [phase EXCEPT ![r] = p]
    PROVE  /\ phase[r] \notin Holding /\ p \in Holding =>
                Cardinality(Holders') = Cardinality(Holders) + 1
           /\ phase[r] \in Holding /\ p \notin Holding =>
                Cardinality(Holders') = Cardinality(Holders) - 1
           /\ (phase[r] \in Holding <=> p \in Holding) =>
                Cardinality(Holders') = Cardinality(Holders)
<1>1. IsFiniteSet(Holders)
  BY ConstantsAssumption, FS_Subset DEF Holders
<1>2. r \in Holders <=> phase[r] \in Holding
  BY DEF Holders
<1>3. p \in Holding => Holders' = Holders \cup {r}
  BY DEF TypeOK, Holders
<1>4. p \notin Holding => Holders' = Holders \ {r}
  BY DEF TypeOK, Holders
<1>5. Cardinality(Holders \cup {r}) =
        IF r \in Holders THEN Cardinality(Holders) ELSE Cardinality(Holders) + 1
  BY <1>1, FS_AddElement
<1>6. Cardinality(Holders \ {r}) =
        IF r \in Holders THEN Cardinality(Holders) - 1 ELSE Cardinality(Holders)
  BY <1>1, FS_RemoveElement
<1> QED BY <1>2, <1>3, <1>4, <1>5, <1>6


-----------------------------------------------------------------------------
(* The parts of the invariant, one lemma each.                             *)

\* What a step of one request does to where it is and to the permits.
LEMMA PermitsStep ==
    ASSUME TypeOK, PermitsCounted, [Next]_vars
    PROVE  PermitsCounted' /\ permits' \in 0..Concurrency
<1> USE ConstantsAssumption
<1>1. IsFiniteSet(Holders) /\ IsFiniteSet(Holders')
  BY FS_Subset DEF Holders
<1>2. Cardinality(Holders) \in Nat /\ Cardinality(Holders') \in Nat
  BY <1>1, FS_CardinalityType
<1>3. permits \in Nat
  BY DEF TypeOK
<1>4. SUFFICES PermitsCounted' /\ permits' \in Nat
  BY <1>2 DEF PermitsCounted
<1>5. ASSUME NEW r \in Requests, NEW p \in Phases, phase' = [phase EXCEPT ![r] = p],
             \/ phase[r] \notin Holding /\ p \in Holding
                    /\ permits > 0 /\ permits' = permits - 1
             \/ phase[r] \in Holding /\ p \notin Holding /\ permits' = permits + 1
             \/ (phase[r] \in Holding <=> p \in Holding) /\ permits' = permits
      PROVE  PermitsCounted' /\ permits' \in Nat
  <2>1. CASE phase[r] \notin Holding /\ p \in Holding
    <3>1. Cardinality(Holders') = Cardinality(Holders) + 1
      BY <1>5, <2>1, HoldersCount
    <3> QED BY <1>2, <1>3, <1>5, <2>1, <3>1 DEF PermitsCounted
  <2>2. CASE phase[r] \in Holding /\ p \notin Holding
    <3>1. Cardinality(Holders') = Cardinality(Holders) - 1
      BY <1>5, <2>2, HoldersCount
    <3> QED BY <1>2, <1>3, <1>5, <2>2, <3>1 DEF PermitsCounted
  <2>3. CASE phase[r] \in Holding <=> p \in Holding
    <3>1. Cardinality(Holders') = Cardinality(Holders)
      BY <1>5, <2>3, HoldersCount
    <3> QED BY <1>2, <1>3, <1>5, <2>3, <3>1 DEF PermitsCounted
  <2> QED BY <2>1, <2>2, <2>3
<1>6. ASSUME phase' = phase, permits' = permits PROVE PermitsCounted' /\ permits' \in Nat
  BY <1>3, <1>6 DEF PermitsCounted, Holders
<1>7. ASSUME NEW r \in Requests,
             Call(r) \/ Step(r) \/ Cancel(r) \/ \E n \in 1..MaxAttempts : Handle(r, n)
      PROVE  PermitsCounted' /\ permits' \in Nat
  <2> USE DEF Holding, Phases, Ended
  <2>1. CASE Call(r) BY <1>5, <2>1 DEF Call
  <2>2. CASE Admit(r) BY <1>5, <2>2 DEF Admit
  <2>3. CASE Pass(r) BY <1>5, <2>3 DEF Pass, Depart
  <2>4. CASE Throttle(r) BY <1>5, <2>4 DEF Throttle
  <2>5. CASE EndThrottle(r) BY <1>5, <2>5 DEF EndThrottle, Depart
  <2>6. CASE Answer(r)
    <3>1. CASE Succeed(r) BY <1>5, <3>1 DEF Succeed
    <3>2. CASE FailFinally(r) BY <1>5, <3>2 DEF FailFinally
    <3>3. ASSUME NEW asked, FailRetryably(r, asked) PROVE PermitsCounted' /\ permits' \in Nat
      <4>1. PICK p \in {"asleep", "raised"} : phase' = [phase EXCEPT ![r] = p]
        BY <3>3 DEF FailRetryably
      <4> QED BY <1>5, <3>3, <4>1 DEF FailRetryably
    <3> QED BY <2>6, <3>1, <3>2, <3>3 DEF Answer
  <2>7. CASE Retry(r) BY <1>5, <2>7 DEF Retry
  <2>8. CASE Cancel(r) BY <1>5, <2>8 DEF Cancel
  <2>9. ASSUME NEW n \in 1..MaxAttempts, Handle(r, n) PROVE PermitsCounted' /\ permits' \in Nat
    BY <1>6, <2>9 DEF Handle
  <2> QED BY <1>7, <2>1, <2>2, <2>3, <2>4, <2>5, <2>6, <2>7, <2>8, <2>9 DEF Step
<1>8. CASE Tick BY <1>6, <1>8 DEF Tick
<1>9. CASE UNCHANGED vars BY <1>6, <1>9 DEF vars
<1> QED BY <1>7, <1>8, <1>9 DEF Next

LEMMA TypeStep ==
    ASSUME TypeOK, AsleepHasAttempts, permits' \in 0..Concurrency, [Next]_vars
    PROVE  TypeOK'
<1> USE ConstantsAssumption DEF TypeOK, Phases, Holding, Ended
<1>1. ASSUME NEW r \in Requests, Step(r) PROVE TypeOK'
  <2>1. CASE Admit(r) BY <2>1 DEF Admit
  <2>2. CASE Pass(r) BY <2>2 DEF Pass, Depart
  <2>3. CASE Throttle(r) BY <2>3 DEF Throttle
  <2>4. CASE EndThrottle(r) BY <2>4 DEF EndThrottle, Depart, Release
  <2>5. CASE Succeed(r) BY <2>5 DEF Succeed
  <2>6. CASE FailFinally(r) BY <2>6 DEF FailFinally
  <2>7. ASSUME NEW asked \in RetryAfters \cup {0}, FailRetryably(r, asked) PROVE TypeOK'
    <3>1. CASE attempt[r] < Attempts(r)
      <4>1. PICK d \in Delays(attempt[r], asked) : timer' = [timer EXCEPT ![r] = d]
        BY <2>7, <3>1 DEF FailRetryably
      <4>2. d \in Nat /\ Floor(asked) \in Nat
        BY DelayIsNoShorter
      <4> QED BY <2>7, <3>1, <4>1, <4>2 DEF FailRetryably
    <3>2. CASE ~(attempt[r] < Attempts(r))
      BY <2>7, <3>2 DEF FailRetryably
    <3> QED BY <3>1, <3>2
  <2>8. CASE Retry(r) 
    <3>1. attempt[r] < MaxAttempts
      BY <2>8 DEF Retry, AsleepHasAttempts
    <3> QED BY <2>8, <3>1 DEF Retry
  <2> QED BY <1>1, <2>1, <2>2, <2>3, <2>4, <2>5, <2>6, <2>7, <2>8 DEF Step, Answer
<1>2. ASSUME NEW r \in Requests, Call(r) PROVE TypeOK'
  BY <1>2 DEF Call
<1>3. ASSUME NEW r \in Requests, Cancel(r) PROVE TypeOK'
  BY <1>3 DEF Cancel, Release
<1>4. ASSUME NEW r \in Requests, NEW n \in 1..MaxAttempts, Handle(r, n) PROVE TypeOK'
  BY <1>4 DEF Handle
<1>5. CASE Tick BY <1>5 DEF Tick, Less, Least
<1>6. CASE UNCHANGED vars BY <1>6 DEF vars
<1> QED BY <1>1, <1>2, <1>3, <1>4, <1>5, <1>6 DEF Next

LEMMA LockStep ==
    ASSUME TypeOK, LockIsSleptUnder, [Next]_vars
    PROVE  LockIsSleptUnder'
<1> USE ConstantsAssumption DEF TypeOK, LockIsSleptUnder
<1>1. ASSUME NEW r \in Requests, Step(r) PROVE LockIsSleptUnder'
  <2>1. CASE Admit(r) BY <2>1 DEF Admit
  <2>2. CASE Pass(r) BY <2>2 DEF Pass, Depart
  <2>3. CASE Throttle(r) BY <2>3 DEF Throttle
  <2>4. CASE EndThrottle(r) BY <2>4 DEF EndThrottle, Depart, Release
  <2>5. CASE Succeed(r) BY <2>5 DEF Succeed
  <2>6. CASE FailFinally(r) BY <2>6 DEF FailFinally
  <2>7. ASSUME NEW asked \in RetryAfters \cup {0}, FailRetryably(r, asked) PROVE LockIsSleptUnder'
    BY <2>7 DEF FailRetryably
  <2>8. CASE Retry(r) BY <2>8 DEF Retry
  <2> QED BY <1>1, <2>1, <2>2, <2>3, <2>4, <2>5, <2>6, <2>7, <2>8 DEF Step, Answer
<1>2. ASSUME NEW r \in Requests, Call(r) PROVE LockIsSleptUnder'
  BY <1>2 DEF Call
<1>3. ASSUME NEW r \in Requests, Cancel(r) PROVE LockIsSleptUnder'
  BY <1>3 DEF Cancel, Release
<1>4. ASSUME NEW r \in Requests, NEW n \in 1..MaxAttempts, Handle(r, n) PROVE LockIsSleptUnder'
  BY <1>4 DEF Handle
<1>5. CASE Tick BY <1>5 DEF Tick, Less, Least
<1>6. CASE UNCHANGED vars BY <1>6 DEF vars
<1> QED BY <1>1, <1>2, <1>3, <1>4, <1>5, <1>6 DEF Next

LEMMA LeaveOnceStep ==
    ASSUME TypeOK, AttemptsLeaveOnce, [Next]_vars
    PROVE  AttemptsLeaveOnce'
<1> USE DEF TypeOK, AttemptsLeaveOnce
<1>1. ASSUME NEW r \in Requests, Step(r) PROVE AttemptsLeaveOnce'
  <2>1. CASE Admit(r) BY <2>1 DEF Admit
  <2>2. CASE Pass(r) BY <2>2 DEF Pass, Depart
  <2>3. CASE Throttle(r) BY <2>3 DEF Throttle
  <2>4. CASE EndThrottle(r) BY <2>4 DEF EndThrottle, Depart
  <2>5. CASE Succeed(r) BY <2>5 DEF Succeed
  <2>6. CASE FailFinally(r) BY <2>6 DEF FailFinally
  <2>7. ASSUME NEW asked \in RetryAfters \cup {0}, FailRetryably(r, asked) PROVE AttemptsLeaveOnce'
    BY <2>7 DEF FailRetryably
  <2>8. CASE Retry(r) BY <2>8 DEF Retry
  <2> QED BY <1>1, <2>1, <2>2, <2>3, <2>4, <2>5, <2>6, <2>7, <2>8 DEF Step, Answer
<1>2. ASSUME NEW r \in Requests, Call(r) PROVE AttemptsLeaveOnce'
  BY <1>2 DEF Call
<1>3. ASSUME NEW r \in Requests, Cancel(r) PROVE AttemptsLeaveOnce'
  BY <1>3 DEF Cancel
<1>4. ASSUME NEW r \in Requests, NEW n \in 1..MaxAttempts, Handle(r, n) PROVE AttemptsLeaveOnce'
  BY <1>4 DEF Handle
<1>5. CASE Tick BY <1>5 DEF Tick
<1>6. CASE UNCHANGED vars BY <1>6 DEF vars
<1> QED BY <1>1, <1>2, <1>3, <1>4, <1>5, <1>6 DEF Next

LEMMA AsleepStep ==
    ASSUME TypeOK, AsleepHasAttempts, [Next]_vars
    PROVE  AsleepHasAttempts'
<1> USE ConstantsAssumption DEF TypeOK, AsleepHasAttempts
<1>1. ASSUME NEW r \in Requests, Step(r) PROVE AsleepHasAttempts'
  <2>1. CASE Admit(r) BY <2>1 DEF Admit
  <2>2. CASE Pass(r) BY <2>2 DEF Pass, Depart
  <2>3. CASE Throttle(r) BY <2>3 DEF Throttle
  <2>4. CASE EndThrottle(r) BY <2>4 DEF EndThrottle, Depart
  <2>5. CASE Succeed(r) BY <2>5 DEF Succeed
  <2>6. CASE FailFinally(r) BY <2>6 DEF FailFinally
  <2>7. ASSUME NEW asked \in RetryAfters \cup {0}, FailRetryably(r, asked) PROVE AsleepHasAttempts'
    BY <2>7 DEF FailRetryably
  <2>8. CASE Retry(r) BY <2>8 DEF Retry
  <2> QED BY <1>1, <2>1, <2>2, <2>3, <2>4, <2>5, <2>6, <2>7, <2>8 DEF Step, Answer
<1>2. ASSUME NEW r \in Requests, Call(r) PROVE AsleepHasAttempts'
  BY <1>2 DEF Call
<1>3. ASSUME NEW r \in Requests, Cancel(r) PROVE AsleepHasAttempts'
  BY <1>3 DEF Cancel
<1>4. ASSUME NEW r \in Requests, NEW n \in 1..MaxAttempts, Handle(r, n) PROVE AsleepHasAttempts'
  BY <1>4 DEF Handle
<1>5. CASE Tick BY <1>5 DEF Tick
<1>6. CASE UNCHANGED vars BY <1>6 DEF vars
<1> QED BY <1>1, <1>2, <1>3, <1>4, <1>5, <1>6 DEF Next

LEMMA TryOnceStep ==
    ASSUME TypeOK, AsleepHasAttempts, MutationsTryOnce, [Next]_vars
    PROVE  MutationsTryOnce'
<1> USE DEF TypeOK, AsleepHasAttempts, MutationsTryOnce
<1>1. ASSUME NEW r \in Requests, Step(r) PROVE MutationsTryOnce'
  <2>1. CASE Admit(r) BY <2>1 DEF Admit
  <2>2. CASE Pass(r) BY <2>2 DEF Pass, Depart
  <2>3. CASE Throttle(r) BY <2>3 DEF Throttle
  <2>4. CASE EndThrottle(r) BY <2>4 DEF EndThrottle, Depart
  <2>5. CASE Succeed(r) BY <2>5 DEF Succeed
  <2>6. CASE FailFinally(r) BY <2>6 DEF FailFinally
  <2>7. ASSUME NEW asked \in RetryAfters \cup {0}, FailRetryably(r, asked) PROVE MutationsTryOnce'
    BY <2>7 DEF FailRetryably
  <2>8. CASE Retry(r) BY <2>8 DEF Retry
  <2> QED BY <1>1, <2>1, <2>2, <2>3, <2>4, <2>5, <2>6, <2>7, <2>8 DEF Step, Answer
<1>2. ASSUME NEW r \in Requests, Call(r) PROVE MutationsTryOnce'
  BY <1>2 DEF Call
<1>3. ASSUME NEW r \in Requests, Cancel(r) PROVE MutationsTryOnce'
  BY <1>3 DEF Cancel
<1>4. ASSUME NEW r \in Requests, NEW n \in 1..MaxAttempts, Handle(r, n) PROVE MutationsTryOnce'
  BY <1>4 DEF Handle
<1>5. CASE Tick BY <1>5 DEF Tick
<1>6. CASE UNCHANGED vars BY <1>6 DEF vars
<1> QED BY <1>1, <1>2, <1>3, <1>4, <1>5, <1>6 DEF Next

LEMMA OwedStep ==
    ASSUME TypeOK, OwedIsSlept, [Next]_vars
    PROVE  OwedIsSlept'
<1> USE ConstantsAssumption DEF TypeOK, OwedIsSlept, Ended, Holding
<1>1. ASSUME NEW r \in Requests, Step(r) PROVE OwedIsSlept'
  <2>1. CASE Admit(r) BY <2>1 DEF Admit
  <2>2. CASE Pass(r) BY <2>2 DEF Pass, Depart
  <2>3. CASE Throttle(r) BY <2>3 DEF Throttle
  <2>4. CASE EndThrottle(r) BY <2>4 DEF EndThrottle, Depart
  <2>5. CASE Succeed(r) BY <2>5 DEF Succeed
  <2>6. CASE FailFinally(r) BY <2>6 DEF FailFinally
  <2>7. ASSUME NEW asked \in RetryAfters \cup {0}, FailRetryably(r, asked) PROVE OwedIsSlept'
    <3>1. CASE attempt[r] < Attempts(r)
      <4>1. PICK d \in Delays(attempt[r], asked) : timer' = [timer EXCEPT ![r] = d]
        BY <2>7, <3>1 DEF FailRetryably
      <4>2. d \in Nat /\ Floor(asked) \in Nat /\ d >= Floor(asked)
        BY DelayIsNoShorter
      <4> QED BY <2>7, <3>1, <4>1, <4>2 DEF FailRetryably
    <3>2. CASE ~(attempt[r] < Attempts(r))
      BY <2>7, <3>2 DEF FailRetryably
    <3> QED BY <3>1, <3>2
  <2>8. CASE Retry(r) BY <2>8 DEF Retry
  <2> QED BY <1>1, <2>1, <2>2, <2>3, <2>4, <2>5, <2>6, <2>7, <2>8 DEF Step, Answer
<1>2. ASSUME NEW r \in Requests, Call(r) PROVE OwedIsSlept'
  BY <1>2 DEF Call
<1>3. ASSUME NEW r \in Requests, Cancel(r) PROVE OwedIsSlept'
  BY <1>3 DEF Cancel
<1>4. ASSUME NEW r \in Requests, NEW n \in 1..MaxAttempts, Handle(r, n) PROVE OwedIsSlept'
  BY <1>4 DEF Handle
<1>5. CASE Tick BY <1>5 DEF Tick, Less
<1>6. CASE UNCHANGED vars BY <1>6 DEF vars
<1> QED BY <1>1, <1>2, <1>3, <1>4, <1>5, <1>6 DEF Next

-----------------------------------------------------------------------------
LEMMA Initially == Init => IndInv
<1> SUFFICES ASSUME Init PROVE IndInv
  OBVIOUS
<1> USE ConstantsAssumption
<1>1. TypeOK
  BY DEF Init, TypeOK, Phases
<1>2. PermitsCounted
  <2>1. Holders = {}
    BY DEF Init, Holders, Holding
  <2> QED BY <2>1, FS_EmptySet DEF Init, PermitsCounted
<1>3. LockIsSleptUnder /\ AttemptsLeaveOnce /\ AsleepHasAttempts
  BY DEF Init, LockIsSleptUnder, AttemptsLeaveOnce, AsleepHasAttempts
<1>4. MutationsTryOnce /\ OwedIsSlept
  BY DEF Init, MutationsTryOnce, OwedIsSlept
<1> QED BY <1>1, <1>2, <1>3, <1>4 DEF IndInv

\* The inductive invariant holds whatever is lost, late, retried or cancelled.
THEOREM Invariance == Spec => []IndInv
<1>1. IndInv /\ [Next]_vars => IndInv'
  BY PermitsStep, TypeStep, LockStep, LeaveOnceStep, AsleepStep, TryOnceStep, OwedStep
     DEF IndInv
<1> QED BY Initially, <1>1, PTL DEF Spec

\* Every variable keeps its type; the semaphore never exceeds its size.
THEOREM TypeCorrect == Spec => []TypeOK
<1>1. IndInv => TypeOK BY DEF IndInv
<1> QED BY Invariance, <1>1, PTL

\* No more than Concurrency requests are past the semaphore.
THEOREM Bounded == Spec => []ConcurrencyBounded
<1>1. IndInv => ConcurrencyBounded
  <2> SUFFICES ASSUME IndInv PROVE ConcurrencyBounded
    OBVIOUS
  <2>1. IsFiniteSet(Holders)
    BY ConstantsAssumption, FS_Subset DEF Holders
  <2>2. Cardinality(Holders) \in Nat
    BY <2>1, FS_CardinalityType
  <2> QED BY <2>2, ConstantsAssumption DEF IndInv, TypeOK, PermitsCounted, ConcurrencyBounded
<1> QED BY Invariance, <1>1, PTL

\* A mutation reaches its server at most once, whatever becomes of its answers.
THEOREM AtMostOnce == Spec => []MutatesAtMostOnce
<1>1. IndInv => MutatesAtMostOnce
  <2> SUFFICES ASSUME IndInv, NEW r \in Requests \ Idempotent
               PROVE  Cardinality({h \in handled : h[1] = r}) <= 1
    BY DEF MutatesAtMostOnce
  <2> DEFINE H == {h \in handled : h[1] = r}
  <2>1. H \subseteq {<<r, 1>>}
    <3> SUFFICES ASSUME NEW h \in H PROVE h = <<r, 1>>
      OBVIOUS
    <3>1. h[1] = r /\ h[2] \in 1..MaxAttempts /\ h = <<h[1], h[2]>>
      BY DEF IndInv, TypeOK
    <3>2. h[2] <= 1
      BY <3>1 DEF IndInv, AttemptsLeaveOnce, MutationsTryOnce
    <3> QED BY <3>1, <3>2, ConstantsAssumption
  <2>2. IsFiniteSet({<<r, 1>>}) /\ Cardinality({<<r, 1>>}) = 1
    BY FS_Singleton
  <2>3. Cardinality(H) <= Cardinality({<<r, 1>>})
    BY <2>1, <2>2, FS_Subset
  <2> QED BY <2>2, <2>3
<1> QED BY Invariance, <1>1, PTL

\* Only these two steps send a request.
LEMMA DepartsBySending ==
    ASSUME TypeOK, Next, NEW r \in Requests, Departs(r)
    PROVE  Pass(r) \/ EndThrottle(r)
<1>1. ASSUME NEW q \in Requests, Step(q), ~(Pass(r) \/ EndThrottle(r)) PROVE FALSE
  BY <1>1 DEF TypeOK, Departs, Step, Answer, Admit, Pass, Throttle, EndThrottle, Depart,
              Succeed, FailFinally, FailRetryably, Retry
<1> QED BY <1>1 DEF TypeOK, Departs, Next, Call, Cancel, Handle, Tick

\* Requests leave at least MinInterval apart.
THEOREM RateKept == Spec => RateRespected
<1> DEFINE Apart == \A r \in Requests : Departs(r) => sinceLast >= MinInterval
<1>1. IndInv /\ [Next]_vars => [Apart]_vars
  <2> SUFFICES ASSUME IndInv, Next, NEW r \in Requests, Departs(r)
               PROVE  sinceLast >= MinInterval
    BY DEF Departs, vars
  <2>1. CASE Pass(r)
    BY <2>1 DEF Pass
  <2>2. CASE EndThrottle(r)
    BY <2>2, ConstantsAssumption DEF IndInv, TypeOK, LockIsSleptUnder, EndThrottle
  <2> QED BY <2>1, <2>2, DepartsBySending DEF IndInv
<1>2. Spec => [][Apart]_vars
  BY Invariance, <1>1, PTL DEF Spec
<1> QED BY <1>2 DEF RateRespected

\* Nobody sleeps longer than the configuration allows, whatever a server asks for.
THEOREM SleepsBounded == Spec => []NobodyIsParked
<1> DEFINE Most == Greatest(MinInterval, Greatest(MaxDelay, MaxRetryAfter))
<1>1. /\ Most \in Nat /\ MinInterval <= Most
      /\ Greatest(MaxDelay, MaxRetryAfter) \in Nat /\ Greatest(MaxDelay, MaxRetryAfter) <= Most
  BY ConstantsAssumption DEF Greatest
<1>2. Init => NobodyIsParked
  BY <1>1 DEF Init, NobodyIsParked
<1>3. ASSUME IndInv, NobodyIsParked, [Next]_vars PROVE NobodyIsParked'
  <2> SUFFICES ASSUME NEW q \in Requests PROVE timer'[q] <= Most
    BY DEF NobodyIsParked
  <2>1. timer[q] \in Nat /\ timer[q] <= Most /\ timer \in [Requests -> Nat] /\ sinceLast \in 0..MinInterval
    BY <1>3 DEF IndInv, TypeOK, NobodyIsParked
  <2> HIDE DEF Most
  <2>2. ASSUME NEW r \in Requests, Throttle(r) PROVE timer'[q] <= Most
    <3>1. MinInterval - sinceLast <= Most
      BY <1>1, <2>1, ConstantsAssumption
    <3> QED BY <2>1, <2>2, <3>1 DEF Throttle
  <2>3. ASSUME NEW r \in Requests, NEW asked \in RetryAfters \cup {0}, FailRetryably(r, asked)
        PROVE  timer'[q] <= Most
    <3>1. CASE UNCHANGED timer
      BY <2>1, <3>1
    <3>2. ASSUME NEW d \in Delays(attempt[r], asked), timer' = [timer EXCEPT ![r] = d]
          PROVE  timer'[q] <= Most
      <4>1. d \in Nat /\ d <= Greatest(MaxDelay, MaxRetryAfter)
        BY DelayIsNoShorter, ConstantsAssumption
      <4>2. d <= Most
        BY <1>1, <4>1
      <4> QED BY <2>1, <3>2, <4>2
    <3> QED BY <2>3, <3>1, <3>2 DEF FailRetryably
  <2>4. ASSUME NEW r \in Requests, Cancel(r) PROVE timer'[q] <= Most
    BY <1>1, <2>1, <2>4 DEF Cancel
  <2>5. CASE Tick
    BY <2>1, <2>5, <1>1 DEF Tick, Less
  <2>6. CASE UNCHANGED timer
    BY <2>1, <2>6
  <2> QED BY <1>3, <2>2, <2>3, <2>4, <2>5, <2>6
          DEF Next, vars, Call, Step, Handle, Admit, Pass, EndThrottle, Depart, Answer,
              Succeed, FailFinally, Retry
<1> QED BY Invariance, <1>2, <1>3, PTL DEF Spec

\* No attempt leaves before the wait the server asked for is over, and no wait is
\* longer than the configuration allows.
THEOREM WaitsOutRetryAfter == Spec => RetryAfterHonoured
<1> DEFINE Waited == \A r \in Requests : Departs(r) => owed[r] = 0
<1>1. IndInv /\ [Next]_vars => [Waited]_vars
  <2> SUFFICES ASSUME IndInv, Next, NEW r \in Requests, Departs(r)
               PROVE  owed[r] = 0
    BY DEF Departs, vars
  <2>1. phase[r] \in {"admitted", "throttled"}
    BY DepartsBySending DEF IndInv, Pass, EndThrottle
  <2> QED BY <2>1 DEF IndInv, OwedIsSlept, Ended
<1>2. Spec => [][Waited]_vars
  BY Invariance, <1>1, PTL DEF Spec
<1> QED BY <1>2, SleepsBounded DEF RetryAfterHonoured
=============================================================================

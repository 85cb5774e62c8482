----------------------------- MODULE FleetProofs ----------------------------
(***************************************************************************)
(* The safety properties of the fleet's concurrent parts: its clients      *)
(* (FleetClients), for any servers, fan-outs, callers and closers; the     *)
(* executor that runs one operation on each of them (FleetExecutor), for   *)
(* any number of selected servers and any concurrency; and the paged       *)
(* reading of a query's answers (FederatedSearch), for any data, page size *)
(* and limit.                                                              *)
(***************************************************************************)
EXTENDS FleetClients, FleetExecutor, FederatedSearch, FiniteSetTheorems, SequenceTheorems,
        TLAPS

-----------------------------------------------------------------------------
(* FleetClients.                                                           *)

USE DEF Threads, Call, MayHitCache, Announced, AfterFailure, SetDefault, Kept, NoBuilds,
        ToClose

LEMMA TypeStep ==
    ASSUME TypeOK, CallsAreCoherent, [Next]_vars, building' \in Nat
    PROVE  TypeOK'
<1> USE ConstantsAssumption DEF TypeOK, fleetVars, fanVars, closeVars,
        Call, CallPhase, FanPhase, ClosePhase, NoCall
<1>1. ASSUME NEW t \in Threads, ClientStep(t) PROVE TypeOK'
  <2>1. CASE Refuse(t)
    <3>1. call' \in [Threads -> Call]
      BY <2>1 DEF Refuse
    <3> QED BY <2>1, <3>1 DEF Refuse
  <2>2. CASE HitCache(t)
    <3>1. call[t].server \in Servers BY <2>2 DEF CallsAreCoherent, HitCache
    <3>2. PICK result \in Nat :
            call' = [call EXCEPT ![t].phase = "returning", ![t].client = result]
      BY <2>2, <3>1 DEF HitCache
    <3>3. call' \in [Threads -> Call] BY <3>2, SMTT(30)
    <3> QED BY <2>2, <3>3, SMTT(30) DEF HitCache
  <2>3. CASE Announce(t) BY <2>3 DEF Announce
  <2>4. CASE Construct(t) BY <2>4 DEF Construct
  <2>5. CASE FailBuild(t) BY <2>5 DEF FailBuild
  <2>6. CASE Publish(t)
    <3>1. call[t].server \in Servers BY <2>6 DEF CallsAreCoherent, Publish
    <3>2. PICK current \in Nat : clients' = [clients EXCEPT ![call[t].server] = current]
      BY <2>6, <3>1 DEF Publish
    <3>3. clients' \in [Servers -> Nat] BY <3>2
    <3>4. discarded' \subseteq Nat BY <2>6, <3>1 DEF Publish
    <3>5. PICK result \in Nat :
            call' = [call EXCEPT ![t].phase = "returning", ![t].client = result]
      <4>1. CASE closed BY <2>6, <4>1 DEF Publish
      <4>2. CASE ~closed BY <2>6, <3>1, <4>2 DEF Publish
      <4> QED BY <4>1, <4>2
    <3>6. call' \in [Threads -> Call]
      BY <3>5
    <3> QED BY <2>6, <3>3, <3>4, <3>6 DEF Publish
  <2> QED BY <1>1, <2>1, <2>2, <2>3, <2>4, <2>5, <2>6 DEF ClientStep
<1>2. CASE ReturnOnLoop BY <1>2 DEF ReturnOnLoop
<1>3. ASSUME NEW c \in Callers, NEW s \in Servers, CallDirectly(c, s) PROVE TypeOK'
  BY <1>3 DEF CallDirectly, Invoke
<1>4. ASSUME NEW f \in FanOuts, NEW names \in Selections[f], StartFanOut(f, names)
      PROVE  TypeOK'
  BY <1>4 DEF StartFanOut
<1>5. ASSUME NEW f \in FanOuts, WorkerStep(f) PROVE TypeOK'
  <2>1. CASE StartWorker(f) BY <2>1 DEF StartWorker
  <2>2. ASSUME NEW s \in Servers, BuildNext(f, s) PROVE TypeOK'
    BY <2>2 DEF BuildNext, Invoke
  <2>3. CASE ReturnOnWorker(f)
    <3>1. call[f].server \in Servers BY <2>3 DEF CallsAreCoherent, ReturnOnWorker
    <3> QED BY <2>3, <3>1 DEF ReturnOnWorker
  <2>4. CASE EndDetached(f) BY <2>4 DEF EndDetached, Leave
  <2> QED BY <1>5, <2>1, <2>2, <2>3, <2>4 DEF WorkerStep
<1>6. ASSUME NEW f \in FanOuts, FanStep(f) PROVE TypeOK'
  <2>1. CASE Resume(f) BY <2>1 DEF Resume
  <2>2. ASSUME NEW s \in Servers, RunTask(f, s) PROVE TypeOK'
    BY <2>2 DEF RunTask, Invoke
  <2>3. CASE EndFanOut(f) BY <2>3 DEF EndFanOut, Leave
  <2> QED BY <1>6, <2>1, <2>2, <2>3 DEF FanStep
<1>7. ASSUME NEW f \in FanOuts, CancelFanOut(f) PROVE TypeOK'
  BY <1>7 DEF CancelFanOut, Leave
<1>8. ASSUME NEW f \in FanOuts, DetachWorker(f) PROVE TypeOK'
  BY <1>8 DEF DetachWorker
<1>9. ASSUME NEW k \in Closers, ShutGate(k) PROVE TypeOK'
  BY <1>9 DEF ShutGate
<1>10. ASSUME NEW k \in Closers, CloseStep(k) PROVE TypeOK'
  <2>1. CASE Drain(k)
    <3>1. Cached \subseteq Nat BY DEF Cached
    <3>2. Cached \cup discarded \in SUBSET Nat BY <3>1
    <3> QED BY <2>1, <3>2 DEF Drain
  <2>2. ASSUME NEW c \in draining[k], CloseOne(k, c) PROVE TypeOK'
    BY <2>2 DEF CloseOne
  <2>3. CASE EndClose(k) BY <2>3 DEF EndClose
  <2> QED BY <1>10, <2>1, <2>2, <2>3 DEF CloseStep
<1>11. ASSUME NEW k \in Closers, CancelClose(k) PROVE TypeOK'
  BY <1>11 DEF CancelClose
<1>12. CASE UNCHANGED vars BY <1>12 DEF vars
<1> QED BY <1>1, <1>2, <1>3, <1>4, <1>5, <1>6, <1>7, <1>8, <1>9, <1>10, <1>11, <1>12
        DEF Next, UserStep

-----------------------------------------------------------------------------
(* What the operations do outside client() touches neither the fleet's own *)
(* state nor the clients under construction.                               *)

LEMMA InvokeFrame ==
    ASSUME TypeOK, NEW t \in Threads, NEW s, NEW u, Invoke(t, s, u)
    PROVE  Builders' = Builders /\ InFlight' = InFlight
<1>1. Builders' = Builders BY DEF TypeOK, Invoke, Builders
<1>2. \A x \in Threads : call[x].phase = "built" <=> call'[x].phase = "built"
  BY DEF TypeOK, Invoke
<1>3. \A x \in Threads : call[x].phase = "built" => call'[x] = call[x]
  BY DEF TypeOK, Invoke
<1> QED BY <1>1, <1>2, <1>3 DEF InFlight

LEMMA ReturnFrame ==
    ASSUME TypeOK, NEW t \in Threads, call[t].phase = "returning",
           call' = [call EXCEPT ![t] = NoCall]
    PROVE  Builders' = Builders /\ InFlight' = InFlight
<1>1. Builders' = Builders BY DEF TypeOK, NoCall, Builders
<1>2. \A x \in Threads : call[x].phase = "built" <=> call'[x].phase = "built"
  BY DEF TypeOK, NoCall
<1>3. \A x \in Threads : call[x].phase = "built" => call'[x] = call[x]
  BY DEF TypeOK, NoCall
<1> QED BY <1>1, <1>2, <1>3 DEF InFlight

UserFrame ==
    /\ UNCHANGED <<clients, discarded, closed, building, made, open>>
    /\ UNCHANGED <<closer, draining, abandoned>>
    /\ Builders' = Builders /\ InFlight' = InFlight

LEMMA UserStepFrame ==
    ASSUME TypeOK, UserStep
    PROVE  UserFrame
<1> USE DEF fleetVars, closeVars, UserFrame
<1>0. ASSUME UNCHANGED call PROVE Builders' = Builders /\ InFlight' = InFlight
  BY <1>0 DEF Builders, InFlight
<1>1. CASE ReturnOnLoop BY <1>1, ReturnFrame DEF ReturnOnLoop
<1>2. ASSUME NEW c \in Callers, NEW s \in Servers, CallDirectly(c, s) PROVE UserFrame
  BY <1>2, InvokeFrame DEF CallDirectly
<1>3. ASSUME NEW f \in FanOuts, NEW names \in Selections[f], StartFanOut(f, names)
      PROVE  UserFrame
  BY <1>0, <1>3 DEF StartFanOut
<1>4. ASSUME NEW f \in FanOuts, WorkerStep(f) PROVE UserFrame
  <2>1. CASE StartWorker(f) BY <1>0, <2>1 DEF StartWorker
  <2>2. ASSUME NEW s \in Servers, BuildNext(f, s) PROVE UserFrame
    BY <2>2, InvokeFrame DEF BuildNext
  <2>3. CASE ReturnOnWorker(f) BY <2>3, ReturnFrame DEF ReturnOnWorker
  <2>4. CASE EndDetached(f) BY <1>0, <2>4 DEF EndDetached
  <2> QED BY <1>4, <2>1, <2>2, <2>3, <2>4 DEF WorkerStep
<1>5. ASSUME NEW f \in FanOuts, FanStep(f) PROVE UserFrame
  <2>1. CASE Resume(f) BY <1>0, <2>1 DEF Resume
  <2>2. ASSUME NEW s \in Servers, RunTask(f, s) PROVE UserFrame
    BY <1>0, <2>2, InvokeFrame DEF RunTask
  <2>3. CASE EndFanOut(f) BY <1>0, <2>3 DEF EndFanOut
  <2> QED BY <1>5, <2>1, <2>2, <2>3 DEF FanStep
<1>6. ASSUME NEW f \in FanOuts, CancelFanOut(f) \/ DetachWorker(f) PROVE UserFrame
  BY <1>0, <1>6 DEF CancelFanOut, DetachWorker
<1> QED BY <1>1, <1>2, <1>3, <1>4, <1>5, <1>6 DEF UserStep

-----------------------------------------------------------------------------
(* _building counts the builders: client() enters the set when it          *)
(* announces the build and leaves it when it fails or publishes.           *)

LEMMA BuildersFinite == IsFiniteSet(Builders) /\ Cardinality(Builders) \in Nat
<1>1. IsFiniteSet(Threads) BY ConstantsAssumption, FS_AddElement
<1>2. IsFiniteSet(Builders) BY <1>1, FS_Subset DEF Builders
<1> QED BY <1>2, FS_CardinalityType

LEMMA CountStep ==
    ASSUME TypeOK, BuildsCounted, [Next]_vars
    PROVE  BuildsCounted' /\ building' \in Nat
<1> USE DEF fleetVars, fanVars, closeVars
<1>0. ASSUME Builders' = Builders, building' = building
      PROVE  BuildsCounted' /\ building' \in Nat
  BY <1>0, BuildersFinite DEF BuildsCounted
<1>1. ASSUME NEW t \in Threads, ClientStep(t)
      PROVE  BuildsCounted' /\ building' \in Nat
  <2>1. CASE Refuse(t) \/ HitCache(t) \/ Construct(t)
    <3>1. Builders' = Builders BY <2>1 DEF TypeOK, Builders, Refuse, HitCache, Construct
    <3> QED BY <1>0, <2>1, <3>1 DEF Refuse, HitCache, Construct
  <2>2. CASE Announce(t)
    <3>1. Builders' = Builders \cup {t} /\ t \notin Builders
      BY <2>2 DEF TypeOK, Builders, Announce
    <3>2. Cardinality(Builders \cup {t}) = Cardinality(Builders) + 1
      BY <3>1, BuildersFinite, FS_AddElement
    <3> QED BY <2>2, <3>1, <3>2, BuildersFinite DEF Announce, BuildsCounted
  <2>3. CASE FailBuild(t) \/ Publish(t)
    <3>1. Builders' = Builders \ {t} /\ t \in Builders
      BY <2>3 DEF TypeOK, Builders, FailBuild, Publish
    <3>2. Cardinality(Builders \ {t}) = Cardinality(Builders) - 1
      BY <3>1, BuildersFinite, FS_RemoveElement
    <3>3. IsFiniteSet(Builders \ {t}) BY BuildersFinite, FS_RemoveElement
    <3>4. Cardinality(Builders \ {t}) \in Nat BY <3>3, FS_CardinalityType
    <3>5. building' = building - 1 BY <2>3 DEF FailBuild, Publish
    <3> QED BY <3>1, <3>2, <3>4, <3>5 DEF BuildsCounted
  <2> QED BY <1>1, <2>1, <2>2, <2>3 DEF ClientStep
<1>2. CASE UserStep BY <1>0, <1>2, UserStepFrame DEF UserFrame
<1>3. ASSUME NEW k \in Closers, ShutGate(k) \/ CloseStep(k) \/ CancelClose(k)
      PROVE  BuildsCounted' /\ building' \in Nat
  BY <1>0, <1>3 DEF ShutGate, CloseStep, CancelClose, Drain, CloseOne, EndClose, Builders
<1>4. CASE UNCHANGED vars BY <1>0, <1>4 DEF vars, Builders
<1> QED BY <1>1, <1>2, <1>3, <1>4 DEF Next

LEMMA NoBuildsNoFlight ==
    ASSUME BuildsCounted, building = 0
    PROVE  Builders = {} /\ InFlight = {}
<1>1. Builders = {} BY BuildersFinite, FS_EmptySet DEF BuildsCounted
<1> QED BY <1>1 DEF Builders, InFlight

-----------------------------------------------------------------------------
(* Where the open clients are, and what is still open of the kept ones.    *)

CloserStep(k) == ShutGate(k) \/ CloseStep(k) \/ CancelClose(k)

\* What the steps of client() do to the clients under construction.
LEMMA FlightStep ==
    ASSUME TypeOK, NEW t \in Threads
    PROVE  /\ Refuse(t) \/ HitCache(t) \/ Announce(t) \/ FailBuild(t) => InFlight' = InFlight
           /\ Construct(t) => InFlight' = InFlight \cup {made + 1}
           /\ Publish(t) => /\ InFlight \subseteq InFlight' \cup {call[t].client}
                            /\ InFlight' \subseteq InFlight
                            /\ call[t].client \in InFlight
<1>1. ASSUME Refuse(t) \/ HitCache(t) \/ Announce(t) \/ FailBuild(t)
      PROVE  InFlight' = InFlight
  <2>1. \A x \in Threads : call[x].phase = "built" <=> call'[x].phase = "built"
    BY <1>1 DEF TypeOK, Refuse, HitCache, Announce, FailBuild
  <2>2. \A x \in Threads : call[x].phase = "built" => call'[x] = call[x]
    BY <1>1 DEF TypeOK, Refuse, HitCache, Announce, FailBuild
  <2> QED BY <2>1, <2>2 DEF InFlight
<1>2. ASSUME Construct(t) PROVE InFlight' = InFlight \cup {made + 1}
  <2>1. /\ call[t].phase = "building"
        /\ call'[t].phase = "built" /\ call'[t].client = made + 1
    BY <1>2 DEF TypeOK, Construct
  <2>2. \A x \in Threads \ {t} : call'[x] = call[x]
    BY <1>2 DEF TypeOK, Construct
  <2> QED BY <2>1, <2>2 DEF InFlight
<1>3. ASSUME Publish(t)
      PROVE  /\ InFlight \subseteq InFlight' \cup {call[t].client}
             /\ InFlight' \subseteq InFlight /\ call[t].client \in InFlight
  <2>1. call[t].phase = "built" /\ call'[t].phase = "returning"
    BY <1>3 DEF TypeOK, Publish
  <2>2. \A x \in Threads \ {t} : call'[x] = call[x]
    BY <1>3 DEF TypeOK, Publish
  <2> QED BY <2>1, <2>2 DEF InFlight
<1> QED BY <1>1, <1>2, <1>3

\* Publishing keeps every client: the winner in the cache, the loser aside.
LEMMA PublishKeeps ==
    ASSUME TypeOK, CallsAreCoherent, NEW t \in Threads, Publish(t)
    PROVE  Cached' \cup discarded' = Cached \cup discarded \cup {call[t].client}
<1> DEFINE s == call[t].server
           c == call[t].client
<1>1. s \in Servers /\ c # 0 BY DEF Publish, CallsAreCoherent
<1>2. CASE clients[s] = 0
  <2>1. clients' = [clients EXCEPT ![s] = c] /\ discarded' = discarded
    BY <1>2 DEF Publish
  <2>2. Cached' = Cached \cup {c} BY <1>1, <1>2, <2>1 DEF TypeOK, Cached
  <2> QED BY <2>1, <2>2
<1>3. CASE clients[s] # 0
  <2>1. clients' = clients BY <1>3 DEF TypeOK, Publish
  <2>2. clients[s] \in Cached BY <1>1, <1>3 DEF Cached
  <2>3. Cached' = Cached BY <2>1 DEF Cached
  <2>4. discarded' = IF clients[s] = c THEN discarded ELSE discarded \cup {c}
    BY <1>3 DEF Publish
  <2> QED BY <2>2, <2>3, <2>4
<1> QED BY <1>2, <1>3

LEMMA OwnedStep ==
    ASSUME TypeOK, CallsAreCoherent, GateBeforeDrain, OpenClientsAreOwned, [Next]_vars
    PROVE  OpenClientsAreOwned'
<1> USE DEF fleetVars, fanVars, closeVars, OpenClientsAreOwned
<1>0. /\ UNCHANGED clients => Cached' = Cached
      /\ UNCHANGED draining => Drained' = Drained
  BY DEF Cached, Drained
<1>1. ASSUME NEW t \in Threads, ClientStep(t) PROVE OpenClientsAreOwned'
  <2>1. CASE Refuse(t) \/ HitCache(t) \/ Announce(t) \/ FailBuild(t)
    <3>1. UNCHANGED <<clients, discarded, open, draining, abandoned>>
      BY <2>1 DEF Refuse, HitCache, Announce, FailBuild
    <3>2. InFlight' = InFlight BY <2>1, FlightStep
    <3> QED BY <1>0, <3>1, <3>2
  <2>2. CASE Construct(t)
    <3>1. UNCHANGED <<clients, discarded, draining, abandoned>> BY <2>2 DEF Construct
    <3>2. open' = open \cup {made + 1} BY <2>2 DEF Construct
    <3>3. InFlight' = InFlight \cup {made + 1} BY <2>2, FlightStep
    <3> QED BY <1>0, <3>1, <3>2, <3>3
  <2>3. CASE Publish(t)
    <3>1. UNCHANGED <<open, draining, abandoned>> BY <2>3 DEF Publish
    <3> QED BY <1>0, <2>3, <3>1, FlightStep, PublishKeeps
  <2> QED BY <1>1, <2>1, <2>2, <2>3 DEF ClientStep
<1>2. CASE UserStep BY <1>0, <1>2, UserStepFrame DEF UserFrame
<1>3. ASSUME NEW k \in Closers, CloserStep(k) PROVE OpenClientsAreOwned'
  <2>0. InFlight' = InFlight
    BY <1>3 DEF CloserStep, ShutGate, CloseStep, CancelClose, Drain, CloseOne, EndClose,
                InFlight
  <2>1. CASE ShutGate(k) BY <1>0, <2>0, <2>1 DEF ShutGate
  <2>2. CASE Drain(k)
    <3>1. draining[k] = {} BY <2>2 DEF GateBeforeDrain, Drain
    <3>2. draining'[k] = Cached \cup discarded BY <2>2 DEF TypeOK, Drain
    <3>3. \A j \in Closers \ {k} : draining'[j] = draining[j] BY <2>2 DEF TypeOK, Drain
    <3>4. Drained \cup Cached \cup discarded \subseteq Drained' BY <3>1, <3>2, <3>3 DEF Drained
    <3> QED BY <2>0, <2>2, <3>4 DEF Drain
  <2>3. ASSUME NEW c \in draining[k], CloseOne(k, c) PROVE OpenClientsAreOwned'
    <3>1. Drained \subseteq Drained' \cup {c} BY <2>3 DEF TypeOK, CloseOne, Drained
    <3> QED BY <1>0, <2>0, <2>3, <3>1 DEF CloseOne
  <2>4. CASE EndClose(k) BY <1>0, <2>0, <2>4 DEF EndClose
  <2>5. CASE CancelClose(k)
    <3>1. Drained \subseteq Drained' \cup draining[k] BY <2>5 DEF TypeOK, CancelClose, Drained
    <3>2. UNCHANGED <<clients, discarded, open>> BY <2>5 DEF CancelClose
    <3>3. abandoned' = abandoned \cup draining[k] BY <2>5 DEF CancelClose
    <3> QED BY <1>0, <2>0, <3>1, <3>2, <3>3
  <2> QED BY <1>3, <2>1, <2>2, <2>3, <2>4, <2>5 DEF CloserStep, CloseStep
<1>4. CASE UNCHANGED vars BY <1>4 DEF vars, Cached, InFlight, Drained
<1> QED BY <1>1, <1>2, <1>3, <1>4 DEF Next, CloserStep

LEMMA KeptStep ==
    ASSUME TypeOK, CallsAreCoherent, BuildsCounted, GateBeforeDrain,
           KeptClientsAreOpen, [Next]_vars
    PROVE  KeptClientsAreOpen'
<1> USE DEF fleetVars, fanVars, closeVars, KeptClientsAreOpen
<1>0. ASSUME UNCHANGED clients PROVE Cached' = Cached BY <1>0 DEF Cached
<1>1. ASSUME NEW t \in Threads, ClientStep(t) PROVE KeptClientsAreOpen'
  <2>1. CASE Refuse(t) \/ HitCache(t) \/ Announce(t) \/ FailBuild(t)
    BY <1>0, <2>1, FlightStep DEF Refuse, HitCache, Announce, FailBuild
  <2>2. CASE Construct(t) BY <1>0, <2>2, FlightStep DEF Construct
  <2>3. CASE Publish(t)
    <3>1. UNCHANGED open BY <2>3 DEF Publish
    <3> QED BY <2>3, <3>1, FlightStep, PublishKeeps
  <2> QED BY <1>1, <2>1, <2>2, <2>3 DEF ClientStep
<1>2. CASE UserStep BY <1>0, <1>2, UserStepFrame DEF UserFrame
<1>3. ASSUME NEW k \in Closers, CloserStep(k) PROVE KeptClientsAreOpen'
  <2>0. InFlight' = InFlight
    BY <1>3 DEF CloserStep, ShutGate, CloseStep, CancelClose, Drain, CloseOne, EndClose,
                InFlight
  <2>1. CASE Drain(k)
    <3>1. Cached' = {} BY <2>1 DEF Drain, Cached
    <3> QED BY <2>0, <2>1, <3>1 DEF Drain
  <2>2. ASSUME NEW c \in draining[k], CloseOne(k, c) PROVE KeptClientsAreOpen'
    <3>1. building = 0 /\ Cached = {} /\ discarded = {}
      BY <2>2 DEF GateBeforeDrain, CloseOne
    <3> QED BY <1>0, <2>0, <2>2, <3>1, NoBuildsNoFlight DEF CloseOne
  <2>3. CASE ShutGate(k) \/ EndClose(k) \/ CancelClose(k)
    BY <1>0, <2>0, <2>3 DEF ShutGate, EndClose, CancelClose
  <2> QED BY <1>3, <2>1, <2>2, <2>3 DEF CloserStep, CloseStep
<1>4. CASE UNCHANGED vars BY <1>4 DEF vars, Cached, InFlight
<1> QED BY <1>1, <1>2, <1>3, <1>4 DEF Next, CloserStep

LEMMA GateStep ==
    ASSUME TypeOK, CallsAreCoherent, BuildsCounted, GateBeforeDrain, [Next]_vars
    PROVE  GateBeforeDrain'
<1> USE DEF fleetVars, fanVars, closeVars
<1>0. ASSUME UNCHANGED clients PROVE Cached' = Cached BY <1>0 DEF Cached
<1>1. ASSUME NEW t \in Threads, ClientStep(t) PROVE GateBeforeDrain'
  <2>1. CASE Refuse(t) \/ HitCache(t) \/ Construct(t)
    BY <1>0, <2>1 DEF GateBeforeDrain, Refuse, HitCache, Construct
  <2>2. CASE Announce(t) BY <1>0, <2>2 DEF GateBeforeDrain, Announce
  <2>3. CASE FailBuild(t) \/ Publish(t)
    <3>1. t \in Builders BY <2>3 DEF FailBuild, Publish, Builders
    <3>2. building # 0 BY <3>1, NoBuildsNoFlight
    <3>3. UNCHANGED <<closer, draining, closed>> BY <2>3 DEF FailBuild, Publish
    <3> QED BY <3>2, <3>3 DEF GateBeforeDrain
  <2> QED BY <1>1, <2>1, <2>2, <2>3 DEF ClientStep
<1>2. CASE UserStep BY <1>0, <1>2, UserStepFrame DEF UserFrame, GateBeforeDrain
<1>3. ASSUME NEW k \in Closers, CloserStep(k) PROVE GateBeforeDrain'
  <2>1. CASE ShutGate(k) BY <1>0, <2>1 DEF ShutGate, GateBeforeDrain, TypeOK
  <2>2. CASE Drain(k)
    <3>1. Cached' = {} BY <2>2 DEF Drain, Cached
    <3> QED BY <2>2, <3>1 DEF Drain, GateBeforeDrain, TypeOK
  <2>3. ASSUME NEW c \in draining[k], CloseOne(k, c) PROVE GateBeforeDrain'
    BY <1>0, <2>3 DEF CloseOne, GateBeforeDrain, TypeOK
  <2>4. CASE EndClose(k) BY <1>0, <2>4 DEF EndClose, GateBeforeDrain, TypeOK
  <2>5. CASE CancelClose(k) BY <1>0, <2>5 DEF CancelClose, GateBeforeDrain, TypeOK
  <2> QED BY <1>3, <2>1, <2>2, <2>3, <2>4, <2>5 DEF CloserStep, CloseStep
<1>4. CASE UNCHANGED vars BY <1>4 DEF vars, Cached, GateBeforeDrain
<1> QED BY <1>1, <1>2, <1>3, <1>4 DEF Next, CloserStep

-----------------------------------------------------------------------------
(* What each client() is doing, and what it may hand out.                  *)

\* A client in the cache stays there as long as the gate is open.
LEMMA CacheGrows ==
    ASSUME TypeOK, CallsAreCoherent, GateBeforeDrain, [Next]_vars
    PROVE  /\ closed => closed'
           /\ \A s \in Servers : clients[s] # 0 => clients'[s] = clients[s] \/ closed
<1> USE DEF fleetVars, fanVars, closeVars
<1>0. ASSUME UNCHANGED <<clients, closed>>
      PROVE  /\ closed => closed'
             /\ \A s \in Servers : clients[s] # 0 => clients'[s] = clients[s] \/ closed
  BY <1>0
<1>1. ASSUME NEW t \in Threads, ClientStep(t)
      PROVE  /\ closed => closed'
             /\ \A s \in Servers : clients[s] # 0 => clients'[s] = clients[s] \/ closed
  <2>1. CASE Refuse(t) \/ HitCache(t) \/ Announce(t) \/ FailBuild(t) \/ Construct(t)
    BY <1>0, <2>1 DEF Refuse, HitCache, Announce, FailBuild, Construct
  <2>2. CASE Publish(t) BY <2>2 DEF TypeOK, CallsAreCoherent, Publish
  <2> QED BY <1>1, <2>1, <2>2 DEF ClientStep
<1>2. CASE UserStep BY <1>0, <1>2, UserStepFrame DEF UserFrame
<1>3. ASSUME NEW k \in Closers, CloserStep(k)
      PROVE  /\ closed => closed'
             /\ \A s \in Servers : clients[s] # 0 => clients'[s] = clients[s] \/ closed
  BY <1>3 DEF CloserStep, ShutGate, CloseStep, CancelClose, Drain, CloseOne, EndClose,
              GateBeforeDrain
<1>4. CASE UNCHANGED vars BY <1>0, <1>4 DEF vars
<1> QED BY <1>1, <1>2, <1>3, <1>4 DEF Next, CloserStep

\* Outside client(), a step begins a call, ends one, or leaves every call alone.
CallFrame ==
    \/ UNCHANGED call
    \/ \E t \in Threads, s \in Servers, u \in Callers \cup FanOuts : Invoke(t, s, u)
    \/ \E t \in Threads : /\ call[t].phase = "returning"
                          /\ call' = [call EXCEPT ![t] = NoCall]

LEMMA UserCallStep ==
    ASSUME UserStep
    PROVE  CallFrame
<1> USE DEF fleetVars, fanVars, closeVars, CallFrame
<1>1. CASE ReturnOnLoop BY <1>1 DEF ReturnOnLoop
<1>2. ASSUME NEW c \in Callers, NEW s \in Servers, CallDirectly(c, s) PROVE CallFrame
  <2>1. /\ Invoke(Loop, s, c)
        /\ c \in Callers \cup FanOuts /\ Loop \in Threads
    BY <1>2 DEF CallDirectly
  <2> QED BY <2>1
<1>3. ASSUME NEW f \in FanOuts, NEW names \in Selections[f], StartFanOut(f, names)
      PROVE  CallFrame
  BY <1>3 DEF StartFanOut
<1>4. ASSUME NEW f \in FanOuts, WorkerStep(f) PROVE CallFrame
  <2>1. CASE StartWorker(f) \/ EndDetached(f) BY <2>1 DEF StartWorker, EndDetached
  <2>2. ASSUME NEW s \in Servers, BuildNext(f, s) PROVE CallFrame
    <3>1. /\ Invoke(f, s, f)
          /\ f \in Callers \cup FanOuts /\ f \in Threads
      BY <2>2, ConstantsAssumption DEF BuildNext
    <3> QED BY <3>1
  <2>3. CASE ReturnOnWorker(f) BY <2>3 DEF ReturnOnWorker
  <2> QED BY <1>4, <2>1, <2>2, <2>3 DEF WorkerStep
<1>5. ASSUME NEW f \in FanOuts, FanStep(f) PROVE CallFrame
  <2>1. CASE Resume(f) \/ EndFanOut(f) BY <2>1 DEF Resume, EndFanOut
  <2>2. ASSUME NEW s \in Servers, RunTask(f, s) PROVE CallFrame
    <3>1. CASE s \in failures[f] BY <2>2, <3>1 DEF RunTask
    <3>2. CASE s \notin failures[f]
      <4>1. /\ Invoke(Loop, s, f)
            /\ f \in Callers \cup FanOuts /\ Loop \in Threads
        BY <2>2, <3>2 DEF RunTask
      <4> QED BY <4>1
    <3> QED BY <3>1, <3>2
  <2> QED BY <1>5, <2>1, <2>2 DEF FanStep
<1>6. ASSUME NEW f \in FanOuts, CancelFanOut(f) \/ DetachWorker(f) PROVE CallFrame
  BY <1>6 DEF CancelFanOut, DetachWorker
<1> QED BY <1>1, <1>2, <1>3, <1>4, <1>5, <1>6 DEF UserStep

LEMMA CoherentStep ==
    ASSUME TypeOK, CallsAreCoherent, GateBeforeDrain, [Next]_vars
    PROVE  CallsAreCoherent'
<1>a. /\ closed => closed'
      /\ \A s \in Servers : clients[s] # 0 => clients'[s] = clients[s] \/ closed
  BY CacheGrows
<1>1. CASE UNCHANGED call BY <1>a, <1>1 DEF CallsAreCoherent
<1>2. ASSUME NEW t \in Threads, NEW s \in Servers, NEW u, Invoke(t, s, u)
      PROVE  CallsAreCoherent'
  <2>1. /\ call'[t].server = s /\ call'[t].client = 0
        /\ call'[t].phase \in {"checking", "returning"}
    BY <1>2 DEF TypeOK, Invoke
  <2>2. \A x \in Threads \ {t} : call'[x] = call[x] BY <1>2 DEF TypeOK, Invoke
  <2> QED BY <1>a, <2>1, <2>2 DEF CallsAreCoherent
<1>3. ASSUME NEW t \in Threads, call[t].phase = "returning",
             call' = [call EXCEPT ![t] = NoCall]
      PROVE  CallsAreCoherent'
  <2>1. call'[t] = NoCall BY <1>3 DEF TypeOK
  <2>2. \A x \in Threads \ {t} : call'[x] = call[x] BY <1>3 DEF TypeOK
  <2> QED BY <1>a, <2>1, <2>2 DEF CallsAreCoherent, NoCall
<1>4. ASSUME NEW t \in Threads, ClientStep(t) PROVE CallsAreCoherent'
  <2>1. call[t].server \in Servers
    BY <1>4 DEF CallsAreCoherent, ClientStep, Refuse, HitCache, Announce, FailBuild,
                Construct, Publish
  <2>2. \A x \in Threads \ {t} : call'[x] = call[x]
    BY <1>4 DEF TypeOK, ClientStep, Refuse, HitCache, Announce, FailBuild,
                Construct, Publish
  <2>3. call'[t].server = call[t].server
    BY <1>4 DEF TypeOK, ClientStep, Refuse, HitCache, Announce, FailBuild,
                Construct, Publish
  <2>4. CASE Refuse(t)
    <3>1. call'[t].phase = "returning" /\ call'[t].client = 0
      BY <2>4 DEF TypeOK, CallsAreCoherent, Refuse
    <3> QED BY <1>a, <2>1, <2>2, <2>3, <3>1 DEF CallsAreCoherent
  <2>5. CASE HitCache(t)
    <3>1. /\ call'[t].phase = "returning"
          /\ clients[call[t].server] # 0 /\ UNCHANGED clients
      BY <2>5 DEF TypeOK, HitCache, fleetVars
    <3> QED BY <1>a, <2>1, <2>2, <2>3, <3>1 DEF CallsAreCoherent
  <2>6. CASE Announce(t)
    <3>1. call'[t].phase = "building" /\ call'[t].client = 0
      BY <2>6 DEF TypeOK, CallsAreCoherent, Announce
    <3> QED BY <1>a, <2>1, <2>2, <2>3, <3>1 DEF CallsAreCoherent
  <2>7. CASE Construct(t)
    <3>1. call'[t].phase = "built" /\ call'[t].client # 0
      BY <2>7 DEF TypeOK, Construct
    <3> QED BY <1>a, <2>1, <2>2, <2>3, <3>1 DEF CallsAreCoherent
  <2>8. CASE FailBuild(t)
    <3>1. call'[t].phase = "returning" /\ call'[t].client = 0
      BY <2>8 DEF TypeOK, CallsAreCoherent, FailBuild
    <3> QED BY <1>a, <2>1, <2>2, <2>3, <3>1 DEF CallsAreCoherent
  <2>9. CASE Publish(t)
    <3>1. call'[t].phase = "returning" BY <2>9 DEF TypeOK, Publish
    <3>2. clients'[call[t].server] # 0
      BY <2>1, <2>9 DEF TypeOK, CallsAreCoherent, Publish
    <3> QED BY <1>a, <2>1, <2>2, <2>3, <3>1, <3>2 DEF CallsAreCoherent
  <2> QED BY <1>4, <2>4, <2>5, <2>6, <2>7, <2>8, <2>9 DEF ClientStep
<1>5. CASE UserStep BY <1>1, <1>2, <1>3, <1>5, UserCallStep DEF CallFrame
<1>6. ASSUME NEW k \in Closers, CloserStep(k) PROVE CallsAreCoherent'
  BY <1>1, <1>6 DEF CloserStep, ShutGate, CloseStep, CancelClose, Drain, CloseOne, EndClose
<1>7. CASE UNCHANGED vars BY <1>1, <1>7 DEF vars
<1> QED BY <1>4, <1>5, <1>6, <1>7 DEF Next, CloserStep

LEMMA HandedOutStep ==
    ASSUME TypeOK, CallsAreCoherent, KeptClientsAreOpen, HandedOutAlive, [Next]_vars
    PROVE  HandedOutAlive'
<1> USE DEF fleetVars, fanVars, closeVars
<1>0. ASSUME call'[Loop] = call[Loop], closed' = closed, open \subseteq open'
      PROVE  HandedOutAlive'
  BY <1>0 DEF HandedOutAlive
<1>1. ASSUME NEW t \in Threads, ClientStep(t) PROVE HandedOutAlive'
  <2>1. CASE t # Loop
    <3>1. call'[Loop] = call[Loop] /\ closed' = closed
      BY <1>1, <2>1 DEF TypeOK, ClientStep, Refuse, HitCache, Announce, Construct,
                        FailBuild, Publish
    <3>2. open \subseteq open'
      BY <1>1 DEF ClientStep, Refuse, HitCache, Announce, Construct, FailBuild, Publish
    <3> QED BY <1>0, <3>1, <3>2
  <2>2. CASE t = Loop
    <3>1. CASE Refuse(t) \/ FailBuild(t)
      BY <2>2, <3>1 DEF TypeOK, CallsAreCoherent, HandedOutAlive, Refuse, FailBuild
    <3>2. CASE HitCache(t)
      <4>1. /\ ~closed' /\ open' = open
            /\ call'[Loop].client = clients[call[Loop].server]
            /\ call[Loop].server \in Servers /\ clients[call[Loop].server] # 0
        BY <2>2, <3>2 DEF TypeOK, CallsAreCoherent, HitCache
      <4>2. clients[call[Loop].server] \in Cached BY <4>1 DEF Cached
      <4> QED BY <4>1, <4>2 DEF KeptClientsAreOpen, HandedOutAlive
    <3>3. CASE Announce(t) \/ Construct(t)
      BY <2>2, <3>3 DEF TypeOK, HandedOutAlive, Announce, Construct
    <3>4. CASE Publish(t)
      <4>1. call[t].server \in Servers /\ call[t].phase = "built"
        BY <3>4 DEF CallsAreCoherent, Publish
      <4>2. closed' = closed /\ open' = open BY <3>4 DEF Publish
      <4>3. CASE closed
        <5>1. call'[Loop].client = 0 BY <2>2, <3>4, <4>3 DEF TypeOK, Publish
        <5> QED BY <5>1 DEF HandedOutAlive
      <4>4. CASE ~closed
        <5>1. call[t].client \in InFlight BY <4>1 DEF InFlight
        <5>2. clients[call[t].server] # 0 => clients[call[t].server] \in Cached
          BY <4>1 DEF Cached
        <5>3. call'[Loop].client \in {call[t].client} \cup
                ({clients[call[t].server]} \ {0})
          BY <2>2, <3>4, <4>4 DEF TypeOK, Publish
        <5> QED BY <4>2, <4>4, <5>1, <5>2, <5>3 DEF KeptClientsAreOpen, HandedOutAlive
      <4> QED BY <4>3, <4>4
    <3> QED BY <1>1, <3>1, <3>2, <3>3, <3>4 DEF ClientStep
  <2> QED BY <2>1, <2>2
<1>2. CASE UserStep
  <2>1. closed' = closed /\ open' = open BY <1>2, UserStepFrame DEF UserFrame
  <2>2. ASSUME NEW t \in Threads, NEW s, NEW u, Invoke(t, s, u) PROVE HandedOutAlive'
    <3>1. call'[Loop] = call[Loop] \/ call'[Loop].client = 0
      BY <2>2 DEF TypeOK, Invoke
    <3> QED BY <1>0, <2>1, <3>1 DEF HandedOutAlive
  <2>3. ASSUME NEW t \in Threads, call' = [call EXCEPT ![t] = NoCall]
        PROVE  HandedOutAlive'
    <3>1. call'[Loop] = call[Loop] \/ call'[Loop].client = 0
      BY <2>3 DEF TypeOK, NoCall
    <3> QED BY <1>0, <2>1, <3>1 DEF HandedOutAlive
  <2>4. CASE UNCHANGED call BY <1>0, <2>1, <2>4
  <2> QED BY <1>2, <2>2, <2>3, <2>4, UserCallStep DEF CallFrame
<1>3. ASSUME NEW k \in Closers, CloserStep(k) PROVE HandedOutAlive'
  <2>1. call' = call
    BY <1>3 DEF CloserStep, ShutGate, CloseStep, CancelClose, Drain, CloseOne, EndClose
  <2>2. call[Loop].phase = "none" \/ (open' = open /\ closed' = closed)
    BY <1>3 DEF CloserStep, ShutGate, CloseStep, CancelClose, Drain, CloseOne, EndClose,
                LoopFree
  <2> QED BY <1>0, <2>1, <2>2 DEF HandedOutAlive
<1>4. CASE UNCHANGED vars BY <1>0, <1>4 DEF vars
<1> QED BY <1>1, <1>2, <1>3, <1>4 DEF Next, CloserStep

-----------------------------------------------------------------------------
(* A fan-out resolves its credentials on its worker.                       *)

LEMMA PrebuildStep ==
    ASSUME TypeOK, CallsAreCoherent, GateBeforeDrain, PrebuildCovers, [Next]_vars
    PROVE  PrebuildCovers'
<1> USE ConstantsAssumption DEF fleetVars, fanVars, closeVars
<1>a. /\ closed => closed'
      /\ \A s \in Servers : clients[s] # 0 => clients'[s] # 0 \/ closed
  BY CacheGrows
\* For a fan-out the step does not move, and whose worker it leaves in its call.
<1>b. ASSUME NEW g \in FanOuts,
             fan'[g] = fan[g], pending'[g] = pending[g], failures'[g] = failures[g],
             todo'[g] \subseteq todo[g],
             call[g].phase # "none" => call'[g].phase # "none" /\ call'[g].server = call[g].server
      PROVE  \A s \in todo'[g] : Covered(g, s)'
  <2> SUFFICES ASSUME NEW s \in todo'[g] PROVE Covered(g, s)' OBVIOUS
  <2>1. Covered(g, s) /\ s \in Servers BY <1>b DEF PrebuildCovers, TypeOK
  <2> QED BY <1>a, <1>b, <2>1 DEF Covered
<1>c. ASSUME UNCHANGED fanVars,
             \A g \in FanOuts : call[g].phase # "none" =>
                call'[g].phase # "none" /\ call'[g].server = call[g].server
      PROVE  PrebuildCovers'
  BY <1>b, <1>c DEF PrebuildCovers
<1>1. ASSUME NEW t \in Threads, ClientStep(t) PROVE PrebuildCovers'
  <2>1. UNCHANGED fanVars
    BY <1>1 DEF ClientStep, Refuse, HitCache, Announce, FailBuild, Construct, Publish
  <2>2. \A g \in Threads : call[g].phase # "none" =>
                call'[g].phase # "none" /\ call'[g].server = call[g].server
    BY <1>1 DEF TypeOK, ClientStep, Refuse, HitCache, Announce, FailBuild, Construct, Publish
  <2> QED BY <1>c, <2>1, <2>2
<1>2. CASE ReturnOnLoop
  <2>1. \A g \in FanOuts : call'[g] = call[g] BY <1>2 DEF TypeOK, ReturnOnLoop
  <2> QED BY <1>2, <1>c, <2>1 DEF ReturnOnLoop
<1>3. ASSUME NEW c \in Callers, NEW s \in Servers, CallDirectly(c, s) PROVE PrebuildCovers'
  <2>1. \A g \in FanOuts : call'[g] = call[g] BY <1>3 DEF TypeOK, CallDirectly, Invoke
  <2> QED BY <1>3, <1>c, <2>1 DEF CallDirectly
<1>4. ASSUME NEW f \in FanOuts, NEW names \in Selections[f], StartFanOut(f, names)
      PROVE  PrebuildCovers'
  <2>1. \A g \in FanOuts \ {f} : \A s \in todo'[g] : Covered(g, s)'
    BY <1>4, <1>b DEF StartFanOut, TypeOK
  <2>2. ASSUME NEW s \in todo'[f] PROVE Covered(f, s)'
    <3>1. s \in names /\ names \subseteq Servers BY <1>4, <2>2 DEF StartFanOut, TypeOK
    <3>2. clients[s] # 0 \/ (s \in pending'[f] /\ fan'[f] = "queued")
      BY <1>4, <3>1 DEF StartFanOut, TypeOK
    <3> QED BY <1>4, <3>2 DEF Covered, StartFanOut
  <2> QED BY <2>1, <2>2 DEF PrebuildCovers
<1>5. ASSUME NEW f \in FanOuts, StartWorker(f) PROVE PrebuildCovers'
  <2>1. \A g \in FanOuts \ {f} : \A s \in todo'[g] : Covered(g, s)'
    BY <1>5, <1>b DEF StartWorker, TypeOK
  <2>2. \A s \in todo'[f] : Covered(f, s)'
    BY <1>5 DEF StartWorker, TypeOK, PrebuildCovers, Covered
  <2> QED BY <2>1, <2>2 DEF PrebuildCovers
<1>6. ASSUME NEW f \in FanOuts, NEW n \in Servers, BuildNext(f, n) PROVE PrebuildCovers'
  <2>1. \A g \in FanOuts \ {f} : \A s \in todo'[g] : Covered(g, s)'
    BY <1>6, <1>b DEF BuildNext, Invoke, TypeOK
  <2>2. /\ call[f].phase = "none" /\ call'[f].phase # "none" /\ call'[f].server = n
        /\ pending'[f] = pending[f] \ {n}
        /\ UNCHANGED <<fan, failures, todo, clients, closed>>
        /\ fan[f] \in {"working", "detached"}
    BY <1>6 DEF BuildNext, Invoke, TypeOK
  <2>3. \A s \in todo'[f] : Covered(f, s)' BY <2>2 DEF PrebuildCovers, Covered
  <2> QED BY <2>1, <2>3 DEF PrebuildCovers
<1>7. ASSUME NEW f \in FanOuts, ReturnOnWorker(f) PROVE PrebuildCovers'
  <2>1. \A g \in FanOuts \ {f} : \A s \in todo'[g] : Covered(g, s)'
    BY <1>7, <1>b DEF ReturnOnWorker, TypeOK
  <2>2. call[f].client = 0 \/ clients[call[f].server] # 0 \/ closed
    BY <1>7 DEF ReturnOnWorker, CallsAreCoherent
  <2>3. \A s \in todo'[f] : Covered(f, s)'
    BY <1>7, <2>2 DEF ReturnOnWorker, TypeOK, PrebuildCovers, Covered
  <2> QED BY <2>1, <2>3 DEF PrebuildCovers
<1>8. ASSUME NEW f \in FanOuts, Resume(f) PROVE PrebuildCovers'
  <2>1. \A g \in FanOuts \ {f} : \A s \in todo'[g] : Covered(g, s)'
    BY <1>8, <1>b DEF Resume, TypeOK
  <2>2. \A s \in todo'[f] : Covered(f, s)'
    BY <1>8 DEF Resume, TypeOK, PrebuildCovers, Covered
  <2> QED BY <2>1, <2>2 DEF PrebuildCovers
<1>9. ASSUME NEW f \in FanOuts, NEW n \in Servers, RunTask(f, n) PROVE PrebuildCovers'
  <2>1. \A g \in FanOuts : call'[g] = call[g] BY <1>9 DEF RunTask, Invoke, TypeOK
  <2>2. \A g \in FanOuts : todo'[g] \subseteq todo[g] BY <1>9 DEF RunTask, TypeOK
  <2> QED BY <1>9, <1>b, <2>1, <2>2 DEF RunTask, PrebuildCovers
<1>10. ASSUME NEW f \in FanOuts,
              EndFanOut(f) \/ CancelFanOut(f) \/ EndDetached(f) \/ DetachWorker(f)
       PROVE  PrebuildCovers'
  <2>1. \A g \in FanOuts \ {f} : \A s \in todo'[g] : Covered(g, s)'
    BY <1>10, <1>b DEF EndFanOut, CancelFanOut, EndDetached, DetachWorker, Leave, TypeOK
  <2>2. todo'[f] = {}
    BY <1>10 DEF EndFanOut, CancelFanOut, EndDetached, DetachWorker, Leave, TypeOK
  <2> QED BY <2>1, <2>2 DEF PrebuildCovers
<1>11. ASSUME NEW k \in Closers, CloserStep(k) PROVE PrebuildCovers'
  BY <1>11, <1>c DEF CloserStep, ShutGate, CloseStep, CancelClose, Drain, CloseOne, EndClose
<1>12. CASE UNCHANGED vars BY <1>12, <1>c DEF vars
<1> QED BY <1>1, <1>2, <1>3, <1>4, <1>5, <1>6, <1>7, <1>8, <1>9, <1>10, <1>11, <1>12
        DEF Next, UserStep, WorkerStep, FanStep, CloserStep

LoopSafe == TasksFindTheirClient /\ FanOutNeverBlocksLoop

LEMMA LoopStep ==
    ASSUME TypeOK, CallsAreCoherent, GateBeforeDrain, PrebuildCovers, LoopSafe, [Next]_vars
    PROVE  LoopSafe'
<1> USE ConstantsAssumption
    DEF fleetVars, fanVars, closeVars, LoopSafe, TasksFindTheirClient, FanOutNeverBlocksLoop
<1>a. /\ closed => closed'
      /\ \A s \in Servers : clients[s] # 0 => clients'[s] # 0 \/ closed
  BY CacheGrows
<1>0. ASSUME call'[Loop] = call[Loop] PROVE LoopSafe'
  BY <1>0, <1>a DEF CallsAreCoherent
<1>1. ASSUME NEW t \in Threads, ClientStep(t) PROVE LoopSafe'
  <2>1. CASE t # Loop
    BY <1>0, <1>1, <2>1 DEF TypeOK, ClientStep, Refuse, HitCache, Announce, Construct,
                            FailBuild, Publish
  <2>2. CASE t = Loop
    <3>1. CASE Refuse(t) \/ HitCache(t) \/ FailBuild(t) \/ Publish(t)
      BY <2>2, <3>1 DEF TypeOK, Refuse, HitCache, FailBuild, Publish
    <3>2. CASE Announce(t) \/ Construct(t)
      BY <2>2, <3>2 DEF TypeOK, Announce, Construct
    <3> QED BY <1>1, <3>1, <3>2 DEF ClientStep
  <2> QED BY <2>1, <2>2
<1>2. CASE ReturnOnLoop BY <1>2 DEF TypeOK, ReturnOnLoop, NoCall
<1>3. ASSUME NEW c \in Callers, NEW s \in Servers, CallDirectly(c, s) PROVE LoopSafe'
  BY <1>3 DEF TypeOK, CallDirectly, Invoke
<1>4. ASSUME NEW f \in FanOuts, NEW n \in Servers, RunTask(f, n) PROVE LoopSafe'
  <2>1. CASE n \in failures[f] BY <1>0, <1>4, <2>1 DEF RunTask
  <2>2. CASE n \notin failures[f]
    <3>1. closed \/ clients[n] # 0
      BY <1>4, <2>2 DEF RunTask, PrebuildCovers, Covered
    <3> QED BY <1>4, <2>2, <3>1 DEF TypeOK, RunTask, Invoke
  <2> QED BY <2>1, <2>2
<1>5. ASSUME NEW f \in FanOuts, WorkerStep(f) PROVE LoopSafe'
  BY <1>0, <1>5 DEF TypeOK, WorkerStep, StartWorker, BuildNext, Invoke, ReturnOnWorker,
                    EndDetached
<1>6. ASSUME NEW f \in FanOuts,
             \/ \E names \in Selections[f] : StartFanOut(f, names)
             \/ Resume(f) \/ EndFanOut(f) \/ CancelFanOut(f) \/ DetachWorker(f)
      PROVE  LoopSafe'
  BY <1>0, <1>6 DEF StartFanOut, Resume, EndFanOut, CancelFanOut, DetachWorker
<1>7. ASSUME NEW k \in Closers, CloserStep(k) PROVE LoopSafe'
  BY <1>0, <1>7 DEF CloserStep, ShutGate, CloseStep, CancelClose, Drain, CloseOne, EndClose
<1>8. CASE UNCHANGED vars BY <1>0, <1>8 DEF vars
<1> QED BY <1>1, <1>2, <1>3, <1>4, <1>5, <1>6, <1>7, <1>8
        DEF Next, UserStep, FanStep, CloserStep

-----------------------------------------------------------------------------
(* The inductive invariant, and what follows from it.                      *)

LEMMA InitInv == Init => IndInv
<1> SUFFICES ASSUME Init PROVE IndInv OBVIOUS
<1> USE DEF Init
<1>1. TypeOK
  BY ConstantsAssumption DEF TypeOK, Call, NoCall, CallPhase, FanPhase, ClosePhase
<1>2. Builders = {} /\ InFlight = {} /\ Cached = {}
  BY DEF Builders, InFlight, Cached, NoCall
<1>3. BuildsCounted BY <1>2, FS_EmptySet DEF BuildsCounted
<1>4. OpenClientsAreOwned /\ KeptClientsAreOpen
  BY <1>2 DEF OpenClientsAreOwned, KeptClientsAreOpen
<1>5. GateBeforeDrain BY DEF GateBeforeDrain
<1>6. CallsAreCoherent /\ HandedOutAlive /\ TasksFindTheirClient /\ FanOutNeverBlocksLoop
  BY DEF CallsAreCoherent, HandedOutAlive, TasksFindTheirClient, FanOutNeverBlocksLoop, NoCall
<1>7. PrebuildCovers BY DEF PrebuildCovers
<1> QED BY <1>1, <1>3, <1>4, <1>5, <1>6, <1>7 DEF IndInv

LEMMA NextInv == IndInv /\ [Next]_vars => IndInv'
<1> SUFFICES ASSUME IndInv, [Next]_vars PROVE IndInv' OBVIOUS
<1> USE DEF IndInv
<1>1. BuildsCounted' /\ building' \in Nat BY CountStep
<1>2. TypeOK' BY <1>1, TypeStep
<1>3. OpenClientsAreOwned' BY OwnedStep
<1>4. KeptClientsAreOpen' BY KeptStep
<1>5. GateBeforeDrain' BY GateStep
<1>6. HandedOutAlive' BY HandedOutStep
<1>7. CallsAreCoherent' BY CoherentStep
<1>8. PrebuildCovers' BY PrebuildStep
<1>9. LoopSafe' BY LoopStep DEF LoopSafe
<1> QED BY <1>1, <1>2, <1>3, <1>4, <1>5, <1>6, <1>7, <1>8, <1>9 DEF LoopSafe

\* The strengthening holds in every reachable state: fleet.py's bookkeeping of
\* builds, cached clients and drains is coherent for any fleet.
THEOREM Invariance == Spec => []IndInv
<1> QED BY InitInv, NextInv, PTL DEF Spec

\* Every variable of fleet.py's client life cycle keeps its type; in particular
\* _building never goes below zero.
THEOREM TypeCorrect == Spec => []TypeOK
<1>1. IndInv => TypeOK BY DEF IndInv
<1> QED BY <1>1, Invariance, PTL

\* client() and aclose() never lose sight of a client whose transport is open.
THEOREM ClientsOwned == Spec => []OpenClientsAreOwned
<1>1. IndInv => OpenClientsAreOwned BY DEF IndInv
<1> QED BY <1>1, Invariance, PTL

\* After an aclose() nothing is open, however many builds raced it, unless an
\* aclose() was cancelled while it was closing.
THEOREM NoLeak == Spec => []NoClientLeaked
<1>1. IndInv => NoClientLeaked
  <2> SUFFICES ASSUME IndInv, NEW k \in Closers, closer[k] = "done",
                      \A j \in Closers : closer[j] # "closing"
               PROVE  open \subseteq abandoned
    BY DEF NoClientLeaked
  <2>1. building = 0 /\ Cached = {} /\ discarded = {} BY DEF IndInv, GateBeforeDrain
  <2>2. InFlight = {} BY <2>1, NoBuildsNoFlight DEF IndInv
  <2>3. Drained = {} BY DEF IndInv, GateBeforeDrain, Drained
  <2> QED BY <2>1, <2>2, <2>3 DEF IndInv, OpenClientsAreOwned
<1> QED BY <1>1, Invariance, PTL

\* client() on the event loop only ever returns an open client of an open fleet.
THEOREM HandedOut == Spec => []HandedOutAlive
<1>1. IndInv => HandedOutAlive BY DEF IndInv
<1> QED BY <1>1, Invariance, PTL

\* No task of a fan-out builds a client, so none blocks the event loop.
THEOREM LoopNotBlocked == Spec => []FanOutNeverBlocksLoop
<1>1. IndInv => FanOutNeverBlocksLoop BY DEF IndInv
<1> QED BY <1>1, Invariance, PTL

\* A server's cached client is replaced by no later build.
THEOREM CacheStable == Spec => CachedClientIsStable
<1>1. IndInv /\ [Next]_vars =>
        [\A s \in Servers : clients[s] # 0 =>
            \/ clients'[s] = clients[s]
            \/ closed /\ clients'[s] = 0]_clients
  <2> SUFFICES ASSUME IndInv, [Next]_vars, NEW s \in Servers, clients[s] # 0,
                      clients'[s] # clients[s]
               PROVE  closed /\ clients'[s] = 0
    OBVIOUS
  <2> USE DEF fleetVars, fanVars, closeVars
  <2>1. ASSUME NEW t \in Threads, ClientStep(t) PROVE FALSE
    <3>1. CASE Publish(t)
      BY <3>1 DEF IndInv, TypeOK, CallsAreCoherent, Publish
    <3> QED BY <2>1, <3>1 DEF ClientStep, Refuse, HitCache, Announce, Construct, FailBuild
  <2>2. CASE UserStep BY <2>2, UserStepFrame DEF IndInv, UserFrame
  <2>3. ASSUME NEW k \in Closers, CloserStep(k) PROVE closed /\ clients'[s] = 0
    BY <2>3 DEF IndInv, GateBeforeDrain, CloserStep, ShutGate, CloseStep, CancelClose,
                Drain, CloseOne, EndClose
  <2>4. CASE UNCHANGED vars BY <2>4 DEF vars
  <2> QED BY <2>1, <2>2, <2>3, <2>4 DEF Next, CloserStep
<1> QED BY <1>1, Invariance, PTL DEF Spec, CachedClientIsStable

-----------------------------------------------------------------------------
(* FleetExecutor: permits.                                                 *)

USE DEF HasPermit, NotCancelled, Reraises, Released

\* A task enters the semaphore with one permit and leaves with one.
LEMMA RunningCounts ==
    ASSUME RunTypeOK, NEW s \in Selected, NEW t \in TaskState,
           task' = [task EXCEPT ![s] = t]
    PROVE  /\ Cardinality(Running) \in Nat
           /\ task[s] # "running" /\ t = "running" =>
                Cardinality(Running') = Cardinality(Running) + 1
           /\ task[s] = "running" /\ t # "running" =>
                Cardinality(Running') = Cardinality(Running) - 1
           /\ task[s] # "running" /\ t # "running" =>
                Cardinality(Running') = Cardinality(Running)
<1>1. IsFiniteSet(Running)
  BY RunAssumption, FS_Subset DEF Running
<1>2. Cardinality(Running) \in Nat
  BY <1>1, FS_CardinalityType
<1>3. task[s] # "running" /\ t = "running" => Running' = Running \cup {s}
  BY DEF RunTypeOK, Running
<1>4. t # "running" => Running' = Running \ {s}
  BY DEF RunTypeOK, Running
<1>5. task[s] # "running" <=> s \notin Running
  BY DEF Running
<1>6. Cardinality(Running \cup {s}) =
        IF s \in Running THEN Cardinality(Running) ELSE Cardinality(Running) + 1
  BY <1>1, FS_AddElement
<1>7. Cardinality(Running \ {s}) =
        IF s \in Running THEN Cardinality(Running) - 1 ELSE Cardinality(Running)
  BY <1>1, FS_RemoveElement
<1> QED BY <1>2, <1>3, <1>4, <1>5, <1>6, <1>7

LEMMA PermitsStep ==
    ASSUME RunTypeOK, PermitsCounted, [RunNext]_runVars
    PROVE  PermitsCounted' /\ permits' \in 0..MaxConcurrency
<1> USE RunAssumption
<1>1. SUFFICES PermitsCounted' /\ permits' \in Nat /\ Cardinality(Running') \in Nat
  BY DEF PermitsCounted
<1>2. IsFiniteSet(Running')
  BY FS_Subset DEF Running
<1>3. Cardinality(Running') \in Nat
  BY <1>2, FS_CardinalityType
<1>4. permits \in Nat
  BY DEF RunTypeOK
<1>5. Cardinality(Running) \in Nat
  BY FS_Subset, FS_CardinalityType DEF Running
<1>6. ASSUME NEW s \in Selected, TaskStep(s)
      PROVE  PermitsCounted' /\ permits' \in Nat
  <2>1. CASE Start(s)
    <3>1. task[s] # "running" /\ task' = [task EXCEPT ![s] = "running"]
      BY <2>1 DEF Start
    <3>2. Cardinality(Running') = Cardinality(Running) + 1
      BY <3>1, RunningCounts DEF TaskState
    <3> QED BY <1>4, <1>5, <2>1, <3>2 DEF Start, PermitsCounted
  <2>2. CASE Succeed(s)
    <3>1. task[s] = "running" /\ task' = [task EXCEPT ![s] = "ended"]
      BY <2>2 DEF Succeed
    <3>2. Cardinality(Running') = Cardinality(Running) - 1
      BY <3>1, RunningCounts DEF TaskState
    <3> QED BY <1>4, <1>5, <2>2, <3>2 DEF Succeed, PermitsCounted
  <2>3. ASSUME NEW kind \in Kinds, Fail(s, kind) PROVE PermitsCounted' /\ permits' \in Nat
    <3>1. task[s] = "running" /\ task' = [task EXCEPT ![s] = "ended"]
      BY <2>3 DEF Fail
    <3>2. Cardinality(Running') = Cardinality(Running) - 1
      BY <3>1, RunningCounts DEF TaskState
    <3> QED BY <1>4, <1>5, <2>3, <3>2 DEF Fail, PermitsCounted
  <2>4. CASE GiveUp(s)
    <3>1. task' = [task EXCEPT ![s] = "ended"]
      BY <2>4 DEF GiveUp
    <3>2. Cardinality(Running') = IF task[s] = "running" THEN Cardinality(Running) - 1
                                  ELSE Cardinality(Running)
      BY <3>1, RunningCounts DEF TaskState
    <3> QED BY <1>4, <1>5, <2>4, <3>2 DEF GiveUp, PermitsCounted
  <2>5. CASE Notice(s)
    <3>1. task[s] # "running" /\ task' = [task EXCEPT ![s] = "done"]
      BY <2>5 DEF Notice
    <3>2. Cardinality(Running') = Cardinality(Running)
      BY <3>1, RunningCounts DEF TaskState
    <3> QED BY <1>4, <2>5, <3>2 DEF Notice, PermitsCounted
  <2> QED BY <1>6, <2>1, <2>2, <2>3, <2>4, <2>5 DEF TaskStep
<1>7. CASE CancelRun
  BY <1>3, <1>4, <1>7 DEF CancelRun, PermitsCounted, Running
<1>8. CASE EndRun
  BY <1>3, <1>4, <1>8 DEF EndRun, PermitsCounted, Running
<1>9. CASE UNCHANGED runVars
  BY <1>3, <1>4, <1>9 DEF runVars, PermitsCounted, Running
<1> QED BY <1>3, <1>6, <1>7, <1>8, <1>9 DEF RunNext

-----------------------------------------------------------------------------
(* The other parts of the invariant.                                       *)

LEMMA RunTypeStep ==
    ASSUME RunTypeOK, [RunNext]_runVars, permits' \in 0..MaxConcurrency
    PROVE  RunTypeOK'
<1> USE DEF RunTypeOK, TaskState, Outcomes
<1>1. ASSUME NEW s \in Selected, TaskStep(s) PROVE RunTypeOK'
  <2>1. CASE Start(s) BY <2>1 DEF Start
  <2>2. CASE Succeed(s) BY <2>2 DEF Succeed
  <2>3. ASSUME NEW kind \in Kinds, Fail(s, kind) PROVE RunTypeOK' BY <2>3 DEF Fail
  <2>4. CASE GiveUp(s) BY <2>4 DEF GiveUp
  <2>5. CASE Notice(s) BY <2>5 DEF Notice, Unfinished
  <2> QED BY <1>1, <2>1, <2>2, <2>3, <2>4, <2>5 DEF TaskStep
<1>2. CASE CancelRun BY <1>2 DEF CancelRun, Unfinished
<1>3. CASE EndRun BY <1>3 DEF EndRun, Verdict
<1>4. CASE UNCHANGED runVars BY <1>4 DEF runVars
<1> QED BY <1>1, <1>2, <1>3, <1>4 DEF RunNext

LEMMA AccountStep ==
    ASSUME RunTypeOK, EndedIsAccounted, AbortsForAReason, [RunNext]_runVars
    PROVE  EndedIsAccounted'
<1> USE DEF RunTypeOK, EndedIsAccounted, TaskState
<1>1. ASSUME NEW s \in Selected, TaskStep(s) PROVE EndedIsAccounted'
  <2>1. CASE Start(s) BY <2>1 DEF Start
  <2>2. CASE Succeed(s) BY <2>2 DEF Succeed
  <2>3. ASSUME NEW kind \in Kinds, Fail(s, kind) PROVE EndedIsAccounted' BY <2>3 DEF Fail
  <2>4. CASE GiveUp(s) BY <2>4 DEF GiveUp
  <2>5. CASE Notice(s)
    BY <2>5 DEF Notice, AbortsForAReason
  <2> QED BY <1>1, <2>1, <2>2, <2>3, <2>4, <2>5 DEF TaskStep
<1>2. CASE CancelRun BY <1>2 DEF CancelRun, AbortsForAReason
<1>3. CASE EndRun BY <1>3 DEF EndRun
<1>4. CASE UNCHANGED runVars BY <1>4 DEF runVars
<1> QED BY <1>1, <1>2, <1>3, <1>4 DEF RunNext

LEMMA ReasonStep ==
    ASSUME RunTypeOK, AbortsForAReason, [RunNext]_runVars
    PROVE  AbortsForAReason'
<1> USE DEF RunTypeOK, AbortsForAReason
<1>1. ASSUME NEW s \in Selected, TaskStep(s) PROVE AbortsForAReason'
  <2>1. CASE Start(s) BY <2>1 DEF Start
  <2>2. CASE Succeed(s) BY <2>2 DEF Succeed
  <2>3. ASSUME NEW kind \in Kinds, Fail(s, kind) PROVE AbortsForAReason' BY <2>3 DEF Fail
  <2>4. CASE GiveUp(s) BY <2>4 DEF GiveUp
  <2>5. CASE Notice(s) BY <2>5 DEF Notice
  <2> QED BY <1>1, <2>1, <2>2, <2>3, <2>4, <2>5 DEF TaskStep
<1>2. CASE CancelRun BY <1>2 DEF CancelRun
<1>3. CASE EndRun BY <1>3 DEF EndRun
<1>4. CASE UNCHANGED runVars BY <1>4 DEF runVars
<1> QED BY <1>1, <1>2, <1>3, <1>4 DEF RunNext

LEMMA ReachStep ==
    ASSUME RunTypeOK, AbortReachesAll, [RunNext]_runVars
    PROVE  AbortReachesAll'
<1> USE DEF RunTypeOK, AbortReachesAll, Unfinished, TaskState
<1>1. ASSUME NEW s \in Selected, TaskStep(s) PROVE AbortReachesAll'
  <2>1. CASE Start(s) BY <2>1 DEF Start
  <2>2. CASE Succeed(s) BY <2>2 DEF Succeed
  <2>3. ASSUME NEW kind \in Kinds, Fail(s, kind) PROVE AbortReachesAll' BY <2>3 DEF Fail
  <2>4. CASE GiveUp(s) BY <2>4 DEF GiveUp
  <2>5. CASE Notice(s) BY <2>5 DEF Notice
  <2> QED BY <1>1, <2>1, <2>2, <2>3, <2>4, <2>5 DEF TaskStep
<1>2. CASE CancelRun BY <1>2 DEF CancelRun
<1>3. CASE EndRun BY <1>3 DEF EndRun
<1>4. CASE UNCHANGED runVars BY <1>4 DEF runVars
<1> QED BY <1>1, <1>2, <1>3, <1>4 DEF RunNext

\* A run that is over is over: all its tasks are done, and none takes a step.
LEMMA OverIsOver ==
    ASSUME RunTypeOK, VerdictStands, outcome # "none"
    PROVE  ~CancelRun /\ ~EndRun /\ \A s \in Selected : ~TaskStep(s)
BY DEF VerdictStands, CancelRun, EndRun, TaskStep, Start, Succeed, Fail, GiveUp, Notice

LEMMA VerdictStep ==
    ASSUME RunTypeOK, AbortsForAReason, VerdictStands, [RunNext]_runVars
    PROVE  VerdictStands'
<1>1. CASE UNCHANGED runVars
  BY <1>1 DEF runVars, VerdictStands, PolicyBroken
<1>2. CASE outcome # "none"
  BY <1>1, <1>2, OverIsOver DEF RunNext
<1>3. CASE outcome = "none" /\ EndRun
  <2>1. outcome' = "returned" => ~cancelled /\ raised = {} /\ ~PolicyBroken
    BY <1>3 DEF EndRun, Verdict, PolicyBroken, AbortsForAReason
  <2> QED BY <1>3, <2>1 DEF EndRun, VerdictStands, PolicyBroken
<1>4. CASE outcome = "none" /\ CancelRun
  BY <1>4 DEF CancelRun, VerdictStands
<1>5. ASSUME outcome = "none", NEW s \in Selected, TaskStep(s) PROVE VerdictStands'
  <2>1. outcome' = outcome
    BY <1>5 DEF TaskStep, Start, Succeed, Fail, GiveUp, Notice
  <2> QED BY <1>5, <2>1 DEF VerdictStands
<1> QED BY <1>1, <1>2, <1>3, <1>4, <1>5 DEF RunNext

-----------------------------------------------------------------------------
LEMMA RunInitially == RunInit => RunInv
<1> SUFFICES ASSUME RunInit PROVE RunInv
  OBVIOUS
<1>1. RunTypeOK
  <2>1. permits \in 0..MaxConcurrency
    BY RunAssumption DEF RunInit
  <2>2. task \in [Selected -> TaskState]
    BY DEF RunInit, TaskState
  <2> QED BY <2>1, <2>2 DEF RunInit, RunTypeOK, Outcomes
<1>2. Running = {}
  BY DEF RunInit, Running
<1>3. PermitsCounted
  BY <1>2, FS_EmptySet, RunAssumption DEF RunInit, PermitsCounted
<1>4. EndedIsAccounted
  BY DEF RunInit, EndedIsAccounted
<1>5. AbortsForAReason
  BY DEF RunInit, AbortsForAReason
<1>6. VerdictStands
  BY DEF RunInit, VerdictStands
<1>7. AbortReachesAll
  BY DEF RunInit, AbortReachesAll
<1> QED BY <1>1, <1>3, <1>4, <1>5, <1>6, <1>7 DEF RunInv

\* The inductive invariant holds whatever fails, is cancelled or waits, in any order.
THEOREM RunInvariance == RunSpec => []RunInv
<1>1. RunInv /\ [RunNext]_runVars => RunInv'
  BY PermitsStep, RunTypeStep, AccountStep, ReasonStep, ReachStep, VerdictStep DEF RunInv
<1> QED BY RunInitially, <1>1, PTL DEF RunSpec

\* Every variable keeps its type; the semaphore never exceeds its size.
THEOREM RunTypeCorrect == RunSpec => []RunTypeOK
<1>1. RunInv => RunTypeOK BY DEF RunInv
<1> QED BY RunInvariance, <1>1, PTL

\* At most MaxConcurrency operations are under way.
THEOREM Bounded == RunSpec => []ConcurrencyBounded
<1>1. RunInv => ConcurrencyBounded
  <2> SUFFICES ASSUME RunInv PROVE ConcurrencyBounded
    OBVIOUS
  <2>1. IsFiniteSet(Running)
    BY RunAssumption, FS_Subset DEF Running
  <2>2. Cardinality(Running) \in Nat
    BY <2>1, FS_CardinalityType
  <2> QED BY <2>2, RunAssumption DEF RunInv, RunTypeOK, PermitsCounted, ConcurrencyBounded
<1> QED BY RunInvariance, <1>1, PTL

\* A returned envelope has a result or an error of every server.
LEMMA ReturnedIsComplete == RunInv => NoSilentGap
<1> SUFFICES ASSUME RunInv, outcome = "returned" PROVE results \cup errors = Selected
  BY DEF NoSilentGap
<1>1. cancelling = {}
  BY DEF RunInv, VerdictStands, AbortsForAReason
<1>2. \A s \in Selected : task[s] = "done"
  BY DEF RunInv, VerdictStands
<1>3. \A s \in Selected : s \in results \cup errors
  BY <1>1, <1>2 DEF RunInv, EndedIsAccounted
<1> QED BY <1>3 DEF RunInv, RunTypeOK

\* No server is missing from an envelope that is returned.
THEOREM EnvelopeComplete == RunSpec => []NoSilentGap
BY RunInvariance, ReturnedIsComplete, PTL

\* A returned envelope is what its failure policy promises.
THEOREM PolicyKept == RunSpec => []PolicyHonoured
<1>1. RunInv => PolicyHonoured
  <2> SUFFICES ASSUME RunInv, outcome = "returned"
               PROVE  /\ policy \in {"fail-fast", "require-all"} => results = Selected
                      /\ policy = "require-any" => results # {}
    BY DEF PolicyHonoured
  <2>1. ~PolicyBroken
    BY DEF RunInv, VerdictStands
  <2>2. results \cup errors = Selected
    BY ReturnedIsComplete DEF NoSilentGap
  <2> QED BY <2>1, <2>2, RunAssumption DEF PolicyBroken
<1> QED BY RunInvariance, <1>1, PTL

\* Without fail-fast and without a cancellation from outside, nobody is cancelled.
THEOREM Isolated == RunSpec => []FailuresAreIsolated
<1>1. RunInv => FailuresAreIsolated
  BY DEF RunInv, AbortsForAReason, FailuresAreIsolated
<1> QED BY RunInvariance, <1>1, PTL

\* A cancelled run ends with an error or a cancellation, never with an envelope.
THEOREM CancelledNeverReturns == RunSpec => []CancelledRunNeverReturns
<1>1. RunInv => CancelledRunNeverReturns
  BY DEF RunInv, VerdictStands, CancelledRunNeverReturns
<1> QED BY RunInvariance, <1>1, PTL

\* No operation begins once the group is shutting down.
THEOREM NothingStartsLate == RunSpec => NothingStartsAfterAbort
<1> DEFINE Late == aborting => \A s \in Selected : task[s] = "created" => task'[s] # "running"
<1>1. RunInv /\ [RunNext]_runVars => [Late]_runVars
  <2> SUFFICES ASSUME RunInv, [RunNext]_runVars, aborting, NEW s \in Selected,
                      task[s] = "created", task'[s] = "running"
               PROVE  FALSE
    OBVIOUS
  <2>1. s \in cancelling
    BY DEF RunInv, AbortReachesAll, Unfinished
  <2>2. ASSUME NEW u \in Selected, TaskStep(u) PROVE FALSE
    BY <2>1, <2>2 DEF RunInv, RunTypeOK, TaskStep, Start, Succeed, Fail, GiveUp, Notice
  <2> QED BY <2>2 DEF RunNext, CancelRun, EndRun, runVars
<1>2. RunSpec => [][Late]_runVars
  BY RunInvariance, <1>1, PTL DEF RunSpec
<1> QED BY <1>2 DEF NothingStartsAfterAbort

-----------------------------------------------------------------------------
(* FederatedSearch.                                                        *)

USE DEF Repeated, LimitReached, Over

\* A new page brings as many places as it has records.
LEMMA PlacesGrow ==
    ASSUME NEW pages, IsFiniteSet(pages), pages \subseteq Page, NEW p \in Page, p \notin pages
    PROVE  /\ Cardinality(Places(pages)) \in Nat
           /\ Cardinality(Places(pages \cup {p})) = Cardinality(Places(pages)) + Len(p)
<1> DEFINE Of(q) == {q} \X DOMAIN q
<1>1. ASSUME NEW q \in Page PROVE IsFiniteSet(Of(q)) /\ Cardinality(Of(q)) = Len(q) /\ Len(q) \in Nat
  <2>1. DOMAIN q = 1..Len(q) /\ Len(q) \in Nat
    BY DEF Page
  <2>2. IsFiniteSet(1..Len(q)) /\ Cardinality(1..Len(q)) = Len(q)
    <3>1. 1 \in Int /\ Len(q) \in Int
      BY <2>1
    <3>2. /\ IsFiniteSet(1..Len(q))
          /\ Cardinality(1..Len(q)) = IF 1 > Len(q) THEN 0 ELSE Len(q) - 1 + 1
      BY <3>1, FS_Interval
    <3> QED BY <2>1, <3>2
  <2>3. IsFiniteSet({q}) /\ Cardinality({q}) = 1
    BY FS_Singleton
  <2>4. IsFiniteSet({q} \X (1..Len(q))) /\ Cardinality({q} \X (1..Len(q))) = 1 * Len(q)
    BY <2>2, <2>3, FS_Product
  <2>5. Cardinality({q} \X (1..Len(q))) = Len(q)
    <3>1. \A n \in Nat : 1 * n = n
      OBVIOUS
    <3> QED BY <2>1, <2>4, <3>1, Zenon
  <2>6. Of(q) = {q} \X (1..Len(q))
    BY <2>1
  <2> HIDE DEF Of
  <2> QED BY <2>1, <2>4, <2>5, <2>6
<1> HIDE DEF Of
<1>2. IsFiniteSet({Of(q) : q \in pages})
  <2> DEFINE f == [q \in pages |-> Of(q)]
             T == {Of(q) : q \in pages}
  <2>1. f \in Surjection(pages, T)
    BY DEF Surjection
  <2> QED BY <2>1, FS_Surjection
<1>3. IsFiniteSet(Places(pages))
  BY <1>1, <1>2, FS_UNION DEF Places, Of
<1>4. Places(pages \cup {p}) = Places(pages) \cup Of(p)
  BY DEF Places, Of
<1>5. Places(pages) \cap Of(p) = {}
  BY DEF Places, Of
<1>6. /\ Cardinality(Places(pages)) \in Nat
      /\ Cardinality(Places(pages) \cup Of(p)) =
            Cardinality(Places(pages)) + Cardinality(Of(p)) - Cardinality(Places(pages) \cap Of(p))
  BY <1>1, <1>3, FS_Union, FS_CardinalityType
<1>7. Cardinality(Places(pages) \cap Of(p)) = 0
  BY <1>5, FS_EmptySet
<1>8. Cardinality(Of(p)) = Len(p) /\ Len(p) \in Nat
  BY <1>1
<1>9. Cardinality(Places(pages) \cup Of(p)) = Cardinality(Places(pages)) + Len(p)
  <2> DEFINE c == Cardinality(Places(pages))
             n == Cardinality(Of(p))
             k == Cardinality(Places(pages) \cap Of(p))
             t == Cardinality(Places(pages) \cup Of(p))
  <2>1. c \in Nat /\ t = c + n - k /\ k = 0 /\ n = Len(p) /\ Len(p) \in Nat
    BY <1>6, <1>7, <1>8
  <2> HIDE DEF c, n, k, t
  <2>2. t = c + Len(p)
    BY <2>1
  <2> QED BY <2>2 DEF c, t
<1> QED BY <1>4, <1>6, <1>9, Zenon

LEMMA SizeType == ASSUME limit \in Limits PROVE Size \in Nat \ {0} /\ Size <= PageSize
BY SearchAssumption DEF Size

\* What a page of a dataset is.
LEMMA SliceIs ==
    ASSUME limit \in Limits, NEW d \in Seq(Records), NEW p \in Nat \ {0}
    PROVE  /\ Slice(d, p) \in Page
           /\ (p - 1) * Size \in Nat /\ p * Size \in Nat /\ p * Size = (p - 1) * Size + Size
           /\ (p - 1) * Size <= Len(d) =>
                /\ (p - 1) * Size + Len(Slice(d, p)) = IF p * Size < Len(d) THEN p * Size ELSE Len(d)
                /\ \A i \in DOMAIN Slice(d, p) : Slice(d, p)[i] = d[(p - 1) * Size + i]
<1> DEFINE from == (p - 1) * Size
           to == IF p * Size < Len(d) THEN p * Size ELSE Len(d)
<1>1. Size \in Nat \ {0} /\ Size <= PageSize /\ PageSize \in Nat
  BY SizeType, SearchAssumption
<1>2. from \in Nat /\ p * Size \in Nat /\ p * Size = from + Size
  BY <1>1
<1>3. Slice(d, p) = SubSeq(d, from + 1, to)
  BY DEF Slice
<1> HIDE DEF from
<1>4. /\ to \in Nat /\ to <= Len(d) /\ to <= from + Size
      /\ \A i \in from + 1..to : d[i] \in Records
  BY <1>2
<1> HIDE DEF to
<1>5. /\ SubSeq(d, from + 1, to) \in Seq(Records)
      /\ Len(SubSeq(d, from + 1, to)) = IF from + 1 <= to THEN to - (from + 1) + 1 ELSE 0
      /\ \A i \in 1..(to - (from + 1) + 1) : SubSeq(d, from + 1, to)[i] = d[from + 1 + i - 1]
  BY <1>2, <1>4, SubSeqProperties
<1>6. Slice(d, p) \in Page
  BY <1>1, <1>2, <1>3, <1>4, <1>5 DEF Page
<1>7. ASSUME from <= Len(d)
      PROVE  /\ from + Len(Slice(d, p)) = to
             /\ \A i \in DOMAIN Slice(d, p) : Slice(d, p)[i] = d[from + i]
  <2>1. from <= to
    BY <1>1, <1>2, <1>7 DEF to
  <2>2. Len(Slice(d, p)) = to - from /\ DOMAIN Slice(d, p) = 1..(to - from)
    BY <1>2, <1>3, <1>4, <1>5, <2>1
  <2> QED BY <1>2, <1>3, <1>4, <1>5, <2>2
<1> QED BY <1>2, <1>6, <1>7 DEF from, to

LEMMA ServedIs ==
    ASSUME SearchTypeOK, NEW s \in Queried, NEW items \in Served(s)
    PROVE  items \in Page
BY SliceIs, SearchAssumption DEF SearchTypeOK, Served

-----------------------------------------------------------------------------
(* Types.                                                                  *)

LEMMA PageIs ==
    ASSUME NEW p \in Page
    PROVE  /\ p \in Seq(Records) /\ Len(p) \in Nat /\ DOMAIN p = 1..Len(p)
           /\ p # <<>> => /\ Head(p) \in Records /\ Tail(p) \in Page
                          /\ Len(p) > 0 /\ Head(p) = p[1] /\ Len(Tail(p)) = Len(p) - 1
                          /\ \A i \in DOMAIN Tail(p) : Tail(p)[i] = p[i + 1]
<1>1. p \in Seq(Records) /\ Len(p) \in Nat /\ DOMAIN p = 1..Len(p)
  BY DEF Page
<1>2. ASSUME p # <<>>
      PROVE  /\ Head(p) \in Records /\ Tail(p) \in Seq(Records) /\ Len(Tail(p)) = Len(p) - 1
             /\ \A i \in 1..Len(Tail(p)) : Tail(p)[i] = p[i + 1]
  BY <1>1, <1>2, HeadTailProperties
<1>3. p # <<>> => Len(p) > 0
  BY <1>1
<1> QED BY <1>1, <1>2, <1>3, SearchAssumption DEF Page

\* The records delivered are finitely many.
LEMMA TotalType ==
    ASSUME SearchTypeOK, NEW S \in SUBSET Queried
    PROVE  Total(S) \in Nat
<1> DEFINE Of(s) == {s} \X DOMAIN delivered[s]
           f == [s \in S |-> Of(s)]
           T == {Of(s) : s \in S}
<1>1. ASSUME NEW s \in S PROVE IsFiniteSet(Of(s))
  <2>1. DOMAIN delivered[s] = 1..Len(delivered[s]) /\ Len(delivered[s]) \in Nat
    BY DEF SearchTypeOK
  <2>2. IsFiniteSet(DOMAIN delivered[s])
    BY <2>1, FS_Interval
  <2> QED BY <2>2, FS_Singleton, FS_Product
<1>2. IsFiniteSet(S)
  BY SearchAssumption, FS_Subset
<1> HIDE DEF Of
<1>3. f \in Surjection(S, T)
  BY DEF Surjection
<1>4. IsFiniteSet(T)
  BY <1>2, <1>3, FS_Surjection
<1>5. IsFiniteSet(UNION T)
  BY <1>1, <1>4, FS_UNION
<1> QED BY <1>5, FS_CardinalityType DEF Total, Of

LEMMA SearchTypeStep ==
    ASSUME SearchTypeOK, \A s \in Queried : Counts(s), [SearchNext]_searchVars
    PROVE  SearchTypeOK'
<1> USE DEF SearchTypeOK, pager, answer, Status
<1>1. ASSUME NEW s \in Queried, Fetch(s) PROVE SearchTypeOK'
  <2>1. PICK items \in Served(s) : StopAt(s, items) \/ TakePage(s, items)
    BY <1>1 DEF Fetch
  <2>2. items \in Page /\ Len(items) \in Nat
    BY ServedIs, PageIs
  <2>3. UNCHANGED <<mode, limit, dataset, edits, delivered, recorded, phase, quiet>>
    BY <1>1 DEF Fetch
  <2>4. counted[s] = yielded[s]
    <3>1. status[s] = "fetching" /\ buffer[s] = <<>>
      BY <1>1 DEF Fetch, Counts
    <3> QED BY <3>1 DEF Counts, Reading
  <2>5. CASE StopAt(s, items)
    BY <2>3, <2>5 DEF StopAt
  <2>6. CASE TakePage(s, items)
    <3> DEFINE more == NewRecords(s, yielded[s] + Len(items))
    <3>1. more \in Nat
      BY <2>2, <2>4 DEF NewRecords
    <3>2. metrics' = [metrics EXCEPT ![s] = [pages |-> @.pages + 1, records |-> @.records + more]]
      BY <2>6 DEF TakePage
    <3> HIDE DEF more
    <3>3. metrics' \in [Queried -> [pages : Nat, records : Nat]]
      <4>1. [pages |-> metrics[s].pages + 1, records |-> metrics[s].records + more]
              \in [pages : Nat, records : Nat]
        BY <3>1
      <4> QED BY <3>2, <4>1
    <3>4. /\ short' \in [Queried -> BOOLEAN] /\ counted' \in [Queried -> Nat]
          /\ status' \in [Queried -> Status] /\ UNCHANGED <<page, yielded>>
      BY <2>2, <2>6 DEF TakePage
    <3>5. seen' \in [Queried -> SUBSET Page] /\ buffer' \in [Queried -> Page]
      <4> HIDE DEF Page
      <4> QED BY <2>2, <2>6 DEF TakePage
    <3> QED BY <2>3, <3>3, <3>4, <3>5
  <2> QED BY <2>1, <2>5, <2>6
<1>2. ASSUME NEW s \in Queried, FailFetch(s) PROVE SearchTypeOK'
  BY <1>2 DEF FailFetch
<1>3. ASSUME NEW s \in Queried, Give(s) PROVE SearchTypeOK'
  <2>1. buffer[s] \in Page /\ Head(buffer[s]) \in Records /\ Tail(buffer[s]) \in Page
    BY <1>3, PageIs DEF Give
  <2>2. delivered' \in [Queried -> Seq(Matching)]
    <3> DEFINE kept == IF Head(buffer[s]) \in Matching THEN Append(delivered[s], Head(buffer[s]))
                       ELSE delivered[s]
    <3>1. kept \in Seq(Matching)
      BY DEF SearchTypeOK
    <3>2. delivered' = [delivered EXCEPT ![s] = kept]
      BY <1>3 DEF Give
    <3> HIDE DEF kept
    <3> QED BY <3>1, <3>2
  <2>3. /\ status' \in [Queried -> Status] /\ yielded' \in [Queried -> Nat]
        /\ UNCHANGED <<mode, limit, dataset, edits, page, seen, short, counted, metrics,
                       recorded, phase, quiet>>
    <3>1. \/ status' = [status EXCEPT ![s] = "ended"] /\ UNCHANGED yielded
          \/ yielded' = [yielded EXCEPT ![s] = @ + 1] /\ UNCHANGED status
      BY <1>3 DEF Give
    <3>2. UNCHANGED <<mode, limit, dataset, edits, page, seen, short, counted, metrics,
                      recorded, phase, quiet>>
      BY <1>3 DEF Give
    <3>3. status' \in [Queried -> Status]
      BY <3>1
    <3>4. yielded' \in [Queried -> Nat]
      <4>1. yielded \in [Queried -> Nat]
        OBVIOUS
      <4> HIDE DEF SearchTypeOK
      <4> QED BY <3>1, <4>1
    <3> QED BY <3>2, <3>3, <3>4
  <2>4. buffer' \in [Queried -> Page]
    <3> HIDE DEF Page
    <3> QED BY <1>3, <2>1 DEF Give
  <2> QED BY <2>2, <2>3, <2>4
<1>4. ASSUME NEW s \in Queried, TurnPage(s) PROVE SearchTypeOK'
  <2>1. \/ status' = [status EXCEPT ![s] = "ended"] /\ UNCHANGED page
        \/ /\ status' = [status EXCEPT ![s] = "fetching"]
           /\ page' = [page EXCEPT ![s] = @ + 1]
    BY <1>4 DEF TurnPage
  <2>2. UNCHANGED <<mode, limit, dataset, edits, seen, buffer, short, yielded, counted,
                    metrics, delivered, recorded, phase, quiet>>
    BY <1>4 DEF TurnPage
  <2>3. status' \in [Queried -> Status]
    BY <2>1
  <2>4. page' \in [Queried -> Nat \ {0}]
    <3>1. page \in [Queried -> Nat \ {0}]
      OBVIOUS
    <3> HIDE DEF SearchTypeOK
    <3> QED BY <2>1, <3>1
  <2> QED BY <2>2, <2>3, <2>4
<1>5. ASSUME NEW s \in Queried, Change(s) PROVE SearchTypeOK'
  <2>1. ASSUME NEW r \in Records PROVE <<r>> \o dataset[s] \in Seq(Records)
    OBVIOUS
  <2>2. ASSUME NEW i \in DOMAIN dataset[s] PROVE RemoveAt(dataset[s], i) \in Seq(Records)
    <3>1. dataset[s] \in Seq(Records) /\ i \in 1..Len(dataset[s]) /\ Len(dataset[s]) \in Nat
      OBVIOUS
    <3>2. /\ SubSeq(dataset[s], 1, i - 1) \in Seq(Records)
          /\ SubSeq(dataset[s], i + 1, Len(dataset[s])) \in Seq(Records)
      <4>1. \A j \in 1..i - 1 : dataset[s][j] \in Records
        BY <3>1
      <4>2. \A j \in i + 1..Len(dataset[s]) : dataset[s][j] \in Records
        BY <3>1
      <4>3. 1 \in Int /\ i - 1 \in Int /\ i + 1 \in Int /\ Len(dataset[s]) \in Int
        BY <3>1
      <4> HIDE DEF SearchTypeOK
      <4> QED BY <4>1, <4>2, <4>3, SubSeqProperties
    <3> QED BY <3>2 DEF RemoveAt
  <2>3. dataset' \in [Queried -> Seq(Records)]
    <3>1. PICK d \in Seq(Records) : dataset' = [dataset EXCEPT ![s] = d]
      BY <1>5, <2>1, <2>2 DEF Change
    <3> QED BY <3>1
  <2>4. /\ edits' \in 0..MaxEdits /\ quiet' \subseteq Queried
        /\ UNCHANGED <<mode, limit, pager, counted, metrics, answer>>
    BY <1>5, SearchAssumption DEF Change
  <2> QED BY <2>3, <2>4
<1>7. CASE EndSearch
  <2>1. RecordCount \in Nat /\ recorded \in Seq(Nat)
    BY TotalType DEF RecordCount
  <2>2. recorded' \in Seq(Nat)
    <3>1. ASSUME NEW n \in Nat PROVE Append(recorded, n) \in Seq(Nat)
      BY <2>1
    <3> QED BY <1>7, <2>1, <3>1 DEF EndSearch
  <2> QED BY <1>7, <2>2 DEF EndSearch
<1>8. CASE Abandon
  BY <1>8 DEF Abandon
<1>9. CASE UNCHANGED searchVars
  BY <1>9 DEF searchVars
<1> QED BY <1>1, <1>2, <1>3, <1>4, <1>5, <1>7, <1>8, <1>9 DEF SearchNext, Read

-----------------------------------------------------------------------------
(* A step is one server's, or nobody's.                                    *)

\* Nothing of this server changed, nor of the call.
Same(u) ==
    /\ dataset'[u] = dataset[u] /\ status'[u] = status[u] /\ page'[u] = page[u]
    /\ seen'[u] = seen[u] /\ buffer'[u] = buffer[u] /\ short'[u] = short[u]
    /\ yielded'[u] = yielded[u] /\ counted'[u] = counted[u]
    /\ metrics'[u] = metrics[u] /\ delivered'[u] = delivered[u]
    /\ limit' = limit /\ (u \in quiet' <=> u \in quiet)

Holds(s) ==
    /\ KeepsToTheLimit(s) /\ Counts(s) /\ HasRoom(s)
    /\ s \in quiet \ Wayward =>
        InPlace(s) /\ Delivers(s) /\ (status[s] = "ended" => Answered(s))

LEMMA HoldsIs ==
    SearchInv <=> SearchTypeOK /\ RecordInv /\ \A s \in Queried : Holds(s)
BY DEF SearchInv, Holds, AnswersTheQuery

LEMMA Unmoved == ASSUME NEW u, Same(u), Holds(u) PROVE Holds(u)'
<1>1. /\ KeepsToTheLimit(u)' /\ Counts(u)' /\ HasRoom(u)'
  BY DEF Same, Holds, KeepsToTheLimit, Counts, HasRoom, Reading
<1>2. /\ Wanted(u)' = Wanted(u)
      /\ \A n : WantedUpTo(u, n)' = WantedUpTo(u, n) /\ Rank(u, n)' = Rank(u, n)
  BY DEF Same, Wanted, WantedUpTo, Rank
<1>3. InPlace(u) => InPlace(u)'
  BY DEF Same, InPlace, Reading, EndOfPage, Size
<1>4. Delivers(u) => Delivers(u)'
  BY <1>2 DEF Same, Delivers, Reading
<1>5. Answered(u) => Answered(u)'
  BY <1>2 DEF Same, Answered
<1> QED BY <1>1, <1>3, <1>4, <1>5 DEF Same, Holds

LEMMA Others ==
    ASSUME SearchTypeOK, NEW s \in Queried, Read(s) \/ FailFetch(s) \/ Change(s),
           NEW u \in Queried, u # s
    PROVE  Same(u)
<1> USE DEF SearchTypeOK, pager, answer, Same
<1>1. CASE Fetch(s)
  BY <1>1 DEF Fetch, StopAt, TakePage
<1>2. CASE Give(s)
  BY <1>2 DEF Give
<1>3. CASE TurnPage(s)
  BY <1>3 DEF TurnPage
<1>4. CASE FailFetch(s)
  BY <1>4 DEF FailFetch
<1>5. CASE Change(s)
  BY <1>5 DEF Change
<1> QED BY <1>1, <1>2, <1>3, <1>4, <1>5 DEF Read

LEMMA Nobody ==
    ASSUME EndSearch \/ Abandon \/ UNCHANGED searchVars, NEW u
    PROVE  Same(u)
BY DEF EndSearch, Abandon, searchVars, pager, answer, Same

-----------------------------------------------------------------------------
(* What is wanted.                                                         *)

LEMMA WantedIs ==
    ASSUME SearchTypeOK, NEW s \in Queried
    PROVE  /\ Wanted(s) \subseteq 1..Len(dataset[s]) /\ IsFiniteSet(Wanted(s))
           /\ Len(dataset[s]) \in Nat /\ DOMAIN dataset[s] = 1..Len(dataset[s])
           /\ Cardinality(Wanted(s)) \in Nat
           /\ \A n : /\ WantedUpTo(s, n) \subseteq Wanted(s)
                     /\ IsFiniteSet(WantedUpTo(s, n)) /\ Rank(s, n) \in Nat
                     /\ Rank(s, n) <= Cardinality(Wanted(s))
<1>1. dataset[s] \in Seq(Records)
  BY DEF SearchTypeOK
<1>2. Len(dataset[s]) \in Nat /\ DOMAIN dataset[s] = 1..Len(dataset[s])
  BY <1>1
<1>3. Wanted(s) \subseteq 1..Len(dataset[s]) /\ IsFiniteSet(1..Len(dataset[s]))
  BY <1>2, FS_Interval DEF Wanted
<1>4. IsFiniteSet(Wanted(s))
  BY <1>3, FS_Subset
<1>5. ASSUME NEW n
      PROVE  /\ WantedUpTo(s, n) \subseteq Wanted(s) /\ IsFiniteSet(WantedUpTo(s, n))
             /\ Cardinality(WantedUpTo(s, n)) <= Cardinality(Wanted(s))
  <2>1. WantedUpTo(s, n) \subseteq Wanted(s)
    BY DEF WantedUpTo
  <2> QED BY <1>4, <2>1, FS_Subset
<1> QED BY <1>2, <1>3, <1>4, <1>5, FS_CardinalityType DEF Rank

\* The next record is one more, or none.
LEMMA RankStep ==
    ASSUME SearchTypeOK, NEW s \in Queried, NEW n \in Nat, n < Len(dataset[s])
    PROVE  /\ dataset[s][n + 1] \in Matching =>
                /\ n + 1 \in Wanted(s) /\ Rank(s, n + 1) = Rank(s, n) + 1
                /\ WantedUpTo(s, n + 1) = WantedUpTo(s, n) \cup {n + 1}
           /\ dataset[s][n + 1] \notin Matching => WantedUpTo(s, n + 1) = WantedUpTo(s, n)
<1>1. Wanted(s) \subseteq Nat /\ n + 1 \in DOMAIN dataset[s] /\ IsFiniteSet(WantedUpTo(s, n))
  BY WantedIs
<1>2. n + 1 \notin WantedUpTo(s, n)
  BY DEF WantedUpTo
<1>3. ASSUME dataset[s][n + 1] \in Matching
      PROVE  n + 1 \in Wanted(s) /\ WantedUpTo(s, n + 1) = WantedUpTo(s, n) \cup {n + 1}
  BY <1>1, <1>3 DEF Wanted, WantedUpTo
<1>4. dataset[s][n + 1] \notin Matching => WantedUpTo(s, n + 1) = WantedUpTo(s, n)
  BY <1>1 DEF Wanted, WantedUpTo
<1>5. Cardinality(WantedUpTo(s, n) \cup {n + 1}) = Cardinality(WantedUpTo(s, n)) + 1
  BY <1>1, <1>2, FS_AddElement
<1> QED BY <1>3, <1>4, <1>5 DEF Rank

\* Ranks grow from place to place.
LEMMA RankGrows ==
    ASSUME SearchTypeOK, NEW s \in Queried, NEW n \in Nat, NEW i \in Wanted(s)
    PROVE  i <= n <=> Rank(s, i) <= Rank(s, n)
<1>1. i \in Nat /\ Wanted(s) \subseteq Nat
  BY WantedIs
<1>2. /\ IsFiniteSet(WantedUpTo(s, n)) /\ IsFiniteSet(WantedUpTo(s, i))
      /\ Rank(s, n) \in Nat /\ Rank(s, i) \in Nat
  BY WantedIs
<1>3. ASSUME i <= n PROVE Rank(s, i) <= Rank(s, n)
  <2>1. WantedUpTo(s, i) \subseteq WantedUpTo(s, n)
    BY <1>1, <1>3 DEF WantedUpTo
  <2> QED BY <1>2, <2>1, FS_Subset DEF Rank
<1>4. ASSUME n < i PROVE Rank(s, n) < Rank(s, i)
  <2>1. WantedUpTo(s, n) \cup {i} \subseteq WantedUpTo(s, i) /\ i \notin WantedUpTo(s, n)
    BY <1>1, <1>4 DEF WantedUpTo
  <2>2. Cardinality(WantedUpTo(s, n) \cup {i}) = Cardinality(WantedUpTo(s, n)) + 1
    BY <1>2, <2>1, FS_AddElement
  <2>3. Cardinality(WantedUpTo(s, n) \cup {i}) <= Cardinality(WantedUpTo(s, i))
    BY <1>2, <2>1, FS_Subset
  <2> QED BY <1>2, <2>2, <2>3 DEF Rank
<1> QED BY <1>1, <1>2, <1>3, <1>4

-----------------------------------------------------------------------------
(* The steps of one server.                                                *)

\* A dataset that was read to its end has been delivered as the query asks.
LEMMA ReadToTheEnd ==
    ASSUME SearchTypeOK, NEW s \in Queried, Delivers(s), HasRoom(s), Reading(s),
           yielded[s] = Len(dataset[s])
    PROVE  Answered(s)
<1>1. WantedUpTo(s, yielded[s]) = Wanted(s)
  BY WantedIs DEF WantedUpTo
<1>2. /\ Len(delivered[s]) = Cardinality(Wanted(s))
      /\ \A i \in Wanted(s) : delivered[s][Rank(s, i)] = dataset[s][i]
  BY <1>1 DEF Delivers
<1>3. limit # NoLimit => Len(delivered[s]) < limit /\ limit \in Nat
  BY SearchAssumption DEF HasRoom, SearchTypeOK
<1>4. Cardinality(Wanted(s)) \in Nat
  BY WantedIs
<1> QED BY <1>2, <1>3, <1>4 DEF Answered

\* The page that a dutiful server serves next.
LEMMA NextSlice ==
    ASSUME SearchTypeOK, NEW s \in Queried \ Wayward, InPlace(s), Counts(s),
           status[s] = "fetching", NEW items \in Served(s)
    PROVE  /\ items \in Page /\ yielded[s] + Len(items) = EndOfPage(s)
           /\ \A i \in DOMAIN items : items[i] = dataset[s][yielded[s] + i]
           /\ EndOfPage(s) <= Len(dataset[s])
           /\ items = <<>> => yielded[s] = Len(dataset[s])
           /\ items # <<>> => items \notin seen[s]
           /\ Len(items) < Size <=> EndOfPage(s) < page[s] * Size
<1> DEFINE from == (page[s] - 1) * Size
<1>1. items = Slice(dataset[s], page[s])
  BY DEF Served
<1>2. /\ dataset[s] \in Seq(Records) /\ page[s] \in Nat \ {0} /\ limit \in Limits
      /\ Len(dataset[s]) \in Nat
  BY DEF SearchTypeOK
<1>3. from = yielded[s] /\ from <= Len(dataset[s]) /\ buffer[s] = <<>>
  BY DEF InPlace, Counts
<1>4. /\ items \in Page /\ from \in Nat /\ page[s] * Size = from + Size /\ page[s] * Size \in Nat
      /\ from + Len(items) = EndOfPage(s)
      /\ \A i \in DOMAIN items : items[i] = dataset[s][from + i]
  BY <1>1, <1>2, <1>3, SliceIs DEF EndOfPage
<1>5. Size \in Nat \ {0}
  BY <1>2, SizeType
<1> HIDE DEF from
<1>6. Len(items) \in Nat /\ DOMAIN items = 1..Len(items)
  BY <1>4, PageIs
<1>7. EndOfPage(s) <= Len(dataset[s])
  BY <1>2, <1>4 DEF EndOfPage
<1>8. Len(items) < Size <=> EndOfPage(s) < page[s] * Size
  BY <1>4, <1>5, <1>6
<1>9. items = <<>> => from = Len(dataset[s])
  <2>1. items = <<>> => Len(items) = 0
    OBVIOUS
  <2> QED BY <1>2, <1>4, <1>5, <2>1 DEF EndOfPage
<1>10. ASSUME items # <<>>, items \in seen[s] PROVE FALSE
  <2>1. Len(items) > 0
    BY <1>4, <1>10, PageIs
  <2>2. 1 \in DOMAIN items /\ from + 1 \in 1..Len(dataset[s])
    BY <1>2, <1>4, <1>6, <1>7, <2>1
  <2>3. items[1] = dataset[s][from + 1]
    BY <1>4, <2>2
  <2>4. PICK i \in 1..(yielded[s] + Len(buffer[s])) : items[1] = dataset[s][i]
    BY <1>10 DEF InPlace, Reading
  <2>5. i \in 1..from
    <3>1. Len(buffer[s]) = 0
      BY <1>3
    <3> QED BY <1>3, <1>4, <2>4, <3>1
  <2>6. from + 1 \in DOMAIN dataset[s] /\ i \in DOMAIN dataset[s]
    BY <1>2, <1>3, <1>4, <2>2, <2>5
  <2>7. i = from + 1
    BY <2>3, <2>4, <2>6 DEF InPlace, IsInjective
  <2> QED BY <1>4, <2>5, <2>7
<1> QED BY <1>3, <1>4, <1>7, <1>8, <1>9, <1>10

LEMMA StopHolds ==
    ASSUME SearchTypeOK, NEW s \in Queried, Holds(s), Fetch(s),
           NEW items \in Served(s), StopAt(s, items)
    PROVE  Holds(s)'
<1>1. /\ status[s] = "fetching" /\ status'[s] = "ended"
      /\ UNCHANGED <<limit, dataset, quiet, delivered, page, seen, buffer, short, yielded,
                     counted, metrics>>
  BY DEF SearchTypeOK, Fetch, StopAt, answer
<1>2. KeepsToTheLimit(s)' /\ Counts(s)' /\ HasRoom(s)'
  BY <1>1 DEF Holds, KeepsToTheLimit, Counts, HasRoom, Reading
<1>3. ASSUME s \in quiet \ Wayward PROVE InPlace(s)' /\ Delivers(s)' /\ Answered(s)'
  <2>1. InPlace(s) /\ Delivers(s) /\ Counts(s) /\ HasRoom(s)
    BY <1>3 DEF Holds
  <2>2. yielded[s] = Len(dataset[s])
    BY <1>1, <1>3, <2>1, NextSlice DEF StopAt
  <2>3. Answered(s)
    BY <1>1, <2>1, <2>2, ReadToTheEnd DEF Reading
  <2>4. Answered(s)'
    BY <1>1, <2>3 DEF Answered, Wanted, WantedUpTo, Rank
  <2>5. InPlace(s)' /\ Delivers(s)'
    BY <1>1, <2>1 DEF InPlace, Delivers, Reading
  <2> QED BY <2>4, <2>5
<1> QED BY <1>1, <1>2, <1>3 DEF Holds

LEMMA TakeHolds ==
    ASSUME SearchTypeOK, NEW s \in Queried, Holds(s), Fetch(s),
           NEW items \in Served(s), TakePage(s, items)
    PROVE  Holds(s)'
<1>1. /\ status[s] = "fetching" /\ status'[s] = "giving"
      /\ UNCHANGED <<limit, dataset, quiet, delivered, page, yielded>>
  BY DEF SearchTypeOK, Fetch, TakePage, answer
<1>2. /\ seen'[s] = seen[s] \cup {items} /\ buffer'[s] = items
      /\ counted'[s] = yielded[s] + Len(items)
      /\ items \notin seen[s] /\ items # <<>>
  BY DEF SearchTypeOK, TakePage
<1>3. short'[s] <=> Len(items) < Size
  BY DEF SearchTypeOK, TakePage
<1>4. /\ metrics'[s].pages = metrics[s].pages + 1
      /\ metrics'[s].records = metrics[s].records + NewRecords(s, yielded[s] + Len(items))
  BY DEF SearchTypeOK, TakePage
<1>5. items \in Page /\ Len(items) \in Nat /\ Len(items) > 0 /\ DOMAIN items = 1..Len(items)
  BY <1>2, ServedIs, PageIs
<1>6. KeepsToTheLimit(s)' /\ HasRoom(s)'
  BY <1>1 DEF Holds, KeepsToTheLimit, HasRoom, Reading
<1>7. Counts(s)'
  <2>1. /\ IsFiniteSet(seen[s]) /\ seen[s] \subseteq Page
        /\ metrics[s].pages = Cardinality(seen[s])
        /\ counted[s] = Cardinality(Places(seen[s])) /\ metrics[s].records = counted[s]
        /\ yielded[s] \in Nat /\ counted[s] = yielded[s]
    BY <1>1 DEF Holds, Counts, Reading, SearchTypeOK
  <2>2. IsFiniteSet(seen'[s]) /\ Cardinality(seen'[s]) = Cardinality(seen[s]) + 1
    BY <1>2, <2>1, FS_AddElement
  <2>3. Cardinality(Places(seen'[s])) = Cardinality(Places(seen[s])) + Len(items)
    <3>1. Cardinality(Places(seen[s] \cup {items})) = Cardinality(Places(seen[s])) + Len(items)
      BY <1>2, <1>5, <2>1, PlacesGrow
    <3> QED BY <1>2, <3>1
  <2>4. NewRecords(s, yielded[s] + Len(items)) = Len(items)
    BY <1>5, <2>1 DEF NewRecords
  <2> QED BY <1>1, <1>2, <1>4, <1>5, <2>1, <2>2, <2>3, <2>4 DEF Counts, Reading
<1>8. ASSUME s \in quiet \ Wayward PROVE InPlace(s)' /\ Delivers(s)'
  <2>1. InPlace(s) /\ Delivers(s) /\ Counts(s)
    BY <1>8 DEF Holds
  <2>2. /\ yielded[s] + Len(items) = EndOfPage(s)
        /\ \A i \in DOMAIN items : items[i] = dataset[s][yielded[s] + i]
        /\ Len(items) < Size <=> EndOfPage(s) < page[s] * Size
    BY <1>1, <1>8, <2>1, NextSlice
  <2>3. EndOfPage(s)' = EndOfPage(s) /\ Size' = Size
    BY <1>1 DEF EndOfPage, Size
  <2>4. yielded[s] \in Nat /\ Len(buffer[s]) = 0
    BY <1>1, <2>1 DEF SearchTypeOK, Counts
  <2>5. ASSUME NEW p \in seen'[s]
        PROVE  \E i \in 1..(yielded[s] + Len(items)) : p[1] = dataset[s][i]
    <3>1. CASE p = items
      <4>1. 1 \in DOMAIN items /\ yielded[s] + 1 \in 1..(yielded[s] + Len(items))
        BY <1>5, <2>4
      <4> QED BY <2>2, <3>1, <4>1
    <3>2. CASE p \in seen[s]
      <4>1. PICK i \in 1..(yielded[s] + Len(buffer[s])) : p[1] = dataset[s][i]
        BY <1>1, <2>1, <3>2 DEF InPlace, Reading
      <4>2. i \in 1..(yielded[s] + Len(items))
        BY <1>5, <2>4, <4>1
      <4> QED BY <4>1, <4>2
    <3> QED BY <1>2, <3>1, <3>2
  <2>6. InPlace(s)'
    BY <1>1, <1>2, <1>3, <2>1, <2>2, <2>3, <2>5 DEF InPlace
  <2>7. Delivers(s)'
    BY <1>1, <2>1 DEF Delivers, Reading, Wanted, WantedUpTo, Rank
  <2> QED BY <2>6, <2>7
<1> QED BY <1>1, <1>6, <1>7, <1>8 DEF Holds

LEMMA GiveHolds ==
    ASSUME SearchTypeOK, NEW s \in Queried, Holds(s), Give(s)
    PROVE  Holds(s)'
<1> DEFINE raw == Head(buffer[s])
           kept == IF raw \in Matching THEN Append(delivered[s], raw) ELSE delivered[s]
           n == yielded[s]
<1>1. /\ status[s] = "giving" /\ buffer[s] # <<>> /\ buffer'[s] = Tail(buffer[s])
      /\ UNCHANGED <<limit, dataset, quiet, page, seen, short, counted, metrics>>
      /\ delivered'[s] = kept
  BY DEF SearchTypeOK, Give
<1>2. \/ LimitReached(s, kept) /\ status'[s] = "ended" /\ yielded'[s] = n
      \/ ~LimitReached(s, kept) /\ status'[s] = "giving" /\ yielded'[s] = n + 1
  BY <1>1 DEF SearchTypeOK, Give
<1>3. /\ buffer[s] \in Page /\ Len(buffer[s]) \in Nat /\ Len(buffer[s]) > 0
      /\ DOMAIN buffer[s] = 1..Len(buffer[s]) /\ raw = buffer[s][1]
      /\ Len(Tail(buffer[s])) = Len(buffer[s]) - 1
      /\ \A i \in DOMAIN Tail(buffer[s]) : Tail(buffer[s])[i] = buffer[s][i + 1]
      /\ DOMAIN Tail(buffer[s]) = 1..Len(Tail(buffer[s]))
  BY <1>1, PageIs DEF SearchTypeOK
<1>4. n \in Nat /\ delivered[s] \in Seq(Matching) /\ Len(delivered[s]) \in Nat
  BY DEF SearchTypeOK
<1>b. n + 1 + Len(buffer'[s]) = n + Len(buffer[s])
  <2> DEFINE k == Len(buffer[s])
             l == Len(buffer'[s])
  <2>1. k \in Nat /\ l = k - 1 /\ n \in Nat
    BY <1>1, <1>3, <1>4
  <2> HIDE DEF k, l, n
  <2>2. n + 1 + l = n + k
    BY <2>1
  <2> QED BY <2>2 DEF k, l
<1>5. limit # NoLimit => limit \in Nat /\ Len(delivered[s]) < limit
  BY <1>1, SearchAssumption DEF SearchTypeOK, Holds, HasRoom, Reading
<1>6. /\ raw \in Matching => /\ Len(kept) = Len(delivered[s]) + 1 /\ kept[Len(kept)] = raw
                             /\ \A i \in 1..Len(delivered[s]) : kept[i] = delivered[s][i]
      /\ raw \notin Matching => kept = delivered[s]
  BY <1>4
<1> HIDE DEF raw, kept
<1>7. Len(kept) \in {Len(delivered[s]), Len(delivered[s]) + 1}
  BY <1>6
<1>8. KeepsToTheLimit(s)' /\ HasRoom(s)'
  BY <1>1, <1>2, <1>4, <1>5, <1>7 DEF KeepsToTheLimit, HasRoom, Reading, LimitReached
<1>9. Counts(s)'
  <2>1. counted[s] = n + Len(buffer[s])
    BY <1>1 DEF Holds, Counts, Reading
  <2>2. status'[s] = "giving" => counted[s] = yielded'[s] + Len(buffer'[s])
    BY <1>2, <1>b, <2>1
  <2>3. status'[s] \in {"ended", "giving"}
    BY <1>2
  <2> QED BY <1>1, <2>2, <2>3 DEF Holds, Counts, Reading
<1>10. ASSUME s \in quiet \ Wayward
       PROVE  /\ InPlace(s)' /\ Delivers(s)'
              /\ status'[s] = "ended" => Answered(s)'
  <2>1. InPlace(s) /\ Delivers(s) /\ Counts(s)
    BY <1>10 DEF Holds
  <2>2. /\ n + Len(buffer[s]) = EndOfPage(s) /\ raw = dataset[s][n + 1]
        /\ \A i \in DOMAIN buffer[s] : buffer[s][i] = dataset[s][n + i]
    BY <1>1, <1>3, <2>1 DEF InPlace
  <2>3. /\ Len(dataset[s]) \in Nat /\ EndOfPage(s) <= Len(dataset[s]) /\ n < Len(dataset[s])
    <3>1. Len(dataset[s]) \in Nat /\ EndOfPage(s) \in Nat
      BY <1>3, <1>4, <2>2 DEF SearchTypeOK
    <3>2. EndOfPage(s) <= Len(dataset[s])
      <4>1. CASE EndOfPage(s) = Len(dataset[s]) BY <3>1, <4>1
      <4>2. CASE EndOfPage(s) # Len(dataset[s]) BY <3>1, <4>2 DEF EndOfPage
      <4> QED BY <4>1, <4>2
    <3> QED BY <1>3, <1>4, <2>2, <3>1, <3>2
  <2>4. /\ Len(delivered[s]) = Rank(s, n)
        /\ \A i \in WantedUpTo(s, n) : delivered[s][Rank(s, i)] = dataset[s][i]
    BY <1>1, <2>1 DEF Delivers, Reading, Rank
  \* What is delivered now are the wanted records up to the next place.
  <2>5. /\ Len(kept) = Rank(s, n + 1)
        /\ \A i \in WantedUpTo(s, n + 1) : kept[Rank(s, i)] = dataset[s][i]
    <3>1. ASSUME NEW i \in WantedUpTo(s, n)
          PROVE  Rank(s, i) \in 1..Len(delivered[s])
      <4>1. i \in Wanted(s) /\ i <= n /\ Rank(s, i) \in Nat
        BY WantedIs DEF WantedUpTo
      <4>2. Rank(s, i) <= Rank(s, n)
        BY <1>4, <4>1, RankGrows
      <4>3. i \in WantedUpTo(s, i)
        BY <4>1, WantedIs DEF WantedUpTo
      <4>4. Rank(s, i) # 0
        BY <4>3, WantedIs, FS_EmptySet DEF Rank
      <4> QED BY <1>4, <2>4, <4>1, <4>2, <4>4
    <3>2. CASE raw \in Matching
      <4>1. /\ Rank(s, n + 1) = Rank(s, n) + 1
            /\ WantedUpTo(s, n + 1) = WantedUpTo(s, n) \cup {n + 1}
        BY <1>4, <2>2, <2>3, <3>2, RankStep
      <4>2. Len(kept) = Rank(s, n + 1) /\ kept[Rank(s, n + 1)] = dataset[s][n + 1]
        BY <1>6, <2>2, <2>4, <3>2, <4>1
      <4>3. ASSUME NEW i \in WantedUpTo(s, n) PROVE kept[Rank(s, i)] = dataset[s][i]
        BY <1>6, <2>4, <3>1, <3>2
      <4> QED BY <4>1, <4>2, <4>3
    <3>3. CASE raw \notin Matching
      <4>1. WantedUpTo(s, n + 1) = WantedUpTo(s, n)
        BY <1>4, <2>2, <2>3, <3>3, RankStep
      <4> QED BY <1>6, <2>4, <3>3, <4>1 DEF Rank
    <3> QED BY <3>2, <3>3
  <2>6. /\ Wanted(s)' = Wanted(s) /\ EndOfPage(s)' = EndOfPage(s) /\ Size' = Size
        /\ \A i : WantedUpTo(s, i)' = WantedUpTo(s, i) /\ Rank(s, i)' = Rank(s, i)
    BY <1>1 DEF Wanted, WantedUpTo, Rank, EndOfPage, Size
  <2>7. Delivers(s)'
    <3>1. status'[s] \in {"fetching", "giving"} => yielded'[s] = n + 1
      BY <1>2
    <3> QED BY <1>1, <2>5, <2>6, <3>1 DEF Delivers, Reading, Rank
  <2>8. InPlace(s)'
    <3>1. CASE status'[s] = "ended"
      BY <1>1, <2>1, <3>1 DEF InPlace, Reading
    <3>2. CASE status'[s] = "giving" /\ yielded'[s] = n + 1
      <4>1. yielded'[s] + Len(buffer'[s]) = n + Len(buffer[s])
        BY <1>b, <3>2
      <4>2. ASSUME NEW i \in DOMAIN buffer'[s] PROVE buffer'[s][i] = dataset[s][n + 1 + i]
        <5>1. i \in DOMAIN Tail(buffer[s]) /\ i \in Nat /\ i + 1 \in DOMAIN buffer[s]
          BY <1>1, <1>3, <4>2
        <5>2. buffer'[s][i] = dataset[s][n + (i + 1)]
          BY <1>1, <1>3, <2>2, <5>1
        <5>3. n + (i + 1) = n + 1 + i
          BY <1>4, <5>1
        <5> QED BY <5>2, <5>3
      <4>3. \A p \in seen[s] : \E i \in 1..(n + Len(buffer[s])) : p[1] = dataset[s][i]
        BY <1>1, <2>1 DEF InPlace, Reading
      <4>4. n + Len(buffer[s]) = EndOfPage(s) /\ (short[s] <=> EndOfPage(s) < page[s] * Size)
        BY <1>1, <2>1 DEF InPlace
      <4> QED BY <1>1, <2>1, <2>6, <3>2, <4>1, <4>2, <4>3, <4>4 DEF InPlace
    <3> QED BY <1>2, <3>1, <3>2
  <2>9. ASSUME status'[s] = "ended" PROVE Answered(s)'
    <3>1. limit # NoLimit /\ Len(kept) = limit
      BY <1>2, <1>4, <1>5, <1>7, <2>9 DEF LimitReached
    <3>2. Rank(s, n + 1) <= Cardinality(Wanted(s)) /\ Cardinality(Wanted(s)) \in Nat
      BY WantedIs
    <3>3. Len(kept) = IF limit = NoLimit \/ Cardinality(Wanted(s)) <= limit
                      THEN Cardinality(Wanted(s)) ELSE limit
      BY <1>5, <2>5, <3>1, <3>2
    <3>4. ASSUME NEW i \in Wanted(s), Rank(s, i) <= Len(kept)
          PROVE  kept[Rank(s, i)] = dataset[s][i]
      <4>1. i <= n + 1
        BY <1>4, <2>5, <3>4, RankGrows
      <4> QED BY <2>5, <4>1 DEF WantedUpTo
    <3> QED BY <1>1, <2>6, <3>3, <3>4 DEF Answered
  <2> QED BY <2>7, <2>8, <2>9
<1> QED BY <1>1, <1>8, <1>9, <1>10 DEF Holds

LEMMA TurnHolds ==
    ASSUME SearchTypeOK, NEW s \in Queried, Holds(s), TurnPage(s)
    PROVE  Holds(s)'
<1>1. /\ status[s] = "giving" /\ buffer[s] = <<>> /\ Len(buffer[s]) = 0
      /\ UNCHANGED <<limit, dataset, quiet, delivered, seen, buffer, short, yielded,
                     counted, metrics>>
  BY DEF TurnPage, answer
<1>2. \/ short[s] /\ status'[s] = "ended" /\ page' = page
      \/ ~short[s] /\ status'[s] = "fetching" /\ page'[s] = page[s] + 1
  BY DEF SearchTypeOK, TurnPage
<1>3. /\ page[s] \in Nat \ {0} /\ yielded[s] \in Nat /\ limit \in Limits
      /\ Len(dataset[s]) \in Nat
  BY DEF SearchTypeOK
<1>4. KeepsToTheLimit(s)' /\ Counts(s)' /\ HasRoom(s)'
  BY <1>1, <1>2 DEF Holds, KeepsToTheLimit, Counts, HasRoom, Reading
<1>5. ASSUME s \in quiet \ Wayward
      PROVE  /\ InPlace(s)' /\ Delivers(s)'
             /\ status'[s] = "ended" => Answered(s)'
  <2>1. InPlace(s) /\ Delivers(s) /\ HasRoom(s)
    BY <1>5 DEF Holds
  <2>2. yielded[s] = EndOfPage(s) /\ (short[s] <=> EndOfPage(s) < page[s] * Size)
    BY <1>1, <1>3, <2>1 DEF InPlace
  <2>3. page[s] * Size \in Nat
    BY <1>3, SizeType
  <2>4. CASE short[s] /\ status'[s] = "ended" /\ page' = page
    <3>1. yielded[s] = Len(dataset[s])
      BY <1>3, <2>2, <2>3, <2>4 DEF EndOfPage
    <3>2. Answered(s)
      BY <1>1, <2>1, <3>1, ReadToTheEnd DEF Reading
    <3>3. Answered(s)'
      BY <1>1, <3>2 DEF Answered, Wanted, WantedUpTo, Rank
    <3> QED BY <1>1, <2>1, <2>4, <3>3 DEF InPlace, Delivers, Reading
  <2>5. CASE ~short[s] /\ status'[s] = "fetching" /\ page'[s] = page[s] + 1
    <3>1. yielded[s] = page[s] * Size /\ yielded[s] <= Len(dataset[s])
      BY <1>3, <2>2, <2>3, <2>5 DEF EndOfPage
    <3>2. (page[s] + 1) - 1 = page[s] /\ Size' = Size
      BY <1>1, <1>3 DEF Size
    <3>3. \A p \in seen[s] : \E i \in 1..(yielded[s] + Len(buffer[s])) : p[1] = dataset[s][i]
      BY <1>1, <2>1 DEF InPlace, Reading
    <3>4. InPlace(s)'
      BY <1>1, <2>1, <2>5, <3>1, <3>2, <3>3 DEF InPlace
    <3>5. Delivers(s)'
      BY <1>1, <2>1 DEF Delivers, Reading, Wanted, WantedUpTo, Rank
    <3> QED BY <2>5, <3>4, <3>5
  <2> QED BY <1>2, <2>4, <2>5
<1> QED BY <1>1, <1>4, <1>5 DEF Holds

LEMMA FailHolds ==
    ASSUME SearchTypeOK, NEW s \in Queried, Holds(s), FailFetch(s)
    PROVE  Holds(s)'
<1>1. /\ status[s] = "fetching" /\ status'[s] = "failed"
      /\ UNCHANGED <<limit, dataset, quiet, delivered, page, seen, buffer, short, yielded,
                     counted, metrics>>
  BY DEF SearchTypeOK, FailFetch
<1>2. KeepsToTheLimit(s)' /\ Counts(s)' /\ HasRoom(s)'
  BY <1>1 DEF Holds, KeepsToTheLimit, Counts, HasRoom, Reading
<1>3. InPlace(s) => InPlace(s)' /\ Delivers(s)'
  BY <1>1 DEF InPlace, Delivers, Reading
<1> QED BY <1>1, <1>2, <1>3 DEF Holds

\* A dataset that changed is not quiet any more.
LEMMA ChangeHolds ==
    ASSUME SearchTypeOK, NEW s \in Queried, Holds(s), Change(s)
    PROVE  Holds(s)'
<1>1. /\ s \notin quiet'
      /\ UNCHANGED <<limit, delivered, status, seen, buffer, yielded, counted, metrics>>
  BY DEF Change, pager, answer
<1> QED BY <1>1 DEF Holds, KeepsToTheLimit, Counts, HasRoom, Reading

LEMMA HoldsStep ==
    ASSUME SearchTypeOK, \A u \in Queried : Holds(u), [SearchNext]_searchVars
    PROVE  \A u \in Queried : Holds(u)'
<1>1. ASSUME NEW s \in Queried, Read(s) \/ FailFetch(s) \/ Change(s) PROVE Holds(s)'
  <2>1. CASE Fetch(s)
    <3>1. PICK items \in Served(s) : StopAt(s, items) \/ TakePage(s, items)
      BY <2>1 DEF Fetch
    <3> QED BY <2>1, <3>1, StopHolds, TakeHolds
  <2> QED BY <1>1, <2>1, GiveHolds, TurnHolds, FailHolds, ChangeHolds DEF Read
<1>2. ASSUME NEW s \in Queried, Read(s) \/ FailFetch(s) \/ Change(s),
             NEW u \in Queried, u # s
      PROVE  Holds(u)'
  BY <1>2, Others, Unmoved
<1>3. ASSUME EndSearch \/ Abandon \/ UNCHANGED searchVars, NEW u \in Queried PROVE Holds(u)'
  BY <1>3, Nobody, Unmoved
<1> QED BY <1>1, <1>2, <1>3 DEF SearchNext

-----------------------------------------------------------------------------
(* The record of the query.                                                *)

LEMMA RecordStep ==
    ASSUME SearchTypeOK, RecordInv, [SearchNext]_searchVars
    PROVE  RecordInv'
<1>1. ASSUME UNCHANGED <<delivered, status>>
      PROVE  Total({s \in Queried : status[s] = "ended"})' = Total({s \in Queried : status[s] = "ended"})
  BY <1>1 DEF Total
<1>2. ASSUME NEW s \in Queried, Read(s) PROVE RecordInv'
  BY <1>2 DEF Read, Fetch, Give, TurnPage, Active, RecordInv, answer
<1>3. ASSUME NEW s \in Queried, FailFetch(s) PROVE RecordInv'
  BY <1>3 DEF FailFetch, Active, RecordInv
<1>4. ASSUME NEW s \in Queried, Change(s) PROVE RecordInv'
  BY <1>4 DEF Change, RecordInv, answer
<1>5. CASE EndSearch
  <2>1. phase = "running" /\ recorded = <<>> /\ UNCHANGED <<delivered, status>>
    BY <1>5 DEF EndSearch, RecordInv, pager
  <2>2. CASE phase' = "returned" /\ recorded' = Append(recorded, RecordCount)
    <3>1. recorded' = <<RecordCount>>
      BY <2>1, <2>2
    <3> QED BY <1>1, <2>1, <2>2, <3>1 DEF RecordInv, RecordCount
  <2>3. CASE phase' = "raised" /\ UNCHANGED recorded
    BY <2>1, <2>3 DEF RecordInv
  <2> QED BY <1>5, <2>2, <2>3 DEF EndSearch
<1>6. CASE Abandon
  BY <1>6 DEF Abandon, RecordInv
<1>7. CASE UNCHANGED searchVars
  BY <1>1, <1>7 DEF searchVars, pager, answer, RecordInv
<1> QED BY <1>2, <1>3, <1>4, <1>5, <1>6, <1>7 DEF SearchNext

-----------------------------------------------------------------------------
LEMMA SearchInitially == SearchInit => SearchInv
<1> SUFFICES ASSUME SearchInit PROVE SearchInv
  OBVIOUS
<1>1. SearchTypeOK
  <2>1. dataset \in [Queried -> Seq(Records)]
    <3>1. \A d \in Datasets : d \in Seq(Records)
      BY SearchAssumption
    <3>2. <<>> \in Seq(Records)
      OBVIOUS
    <3>3. dataset \in [Queried -> Datasets \cup {<<>>}]
      BY DEF SearchInit
    <3> HIDE DEF SearchInit
    <3> QED BY <3>1, <3>2, <3>3, Zenon
  <2>2. buffer \in [Queried -> Page] /\ delivered \in [Queried -> Seq(Matching)]
    <3>1. <<>> \in Page /\ <<>> \in Seq(Matching)
      BY SearchAssumption DEF Page
    <3> QED BY <3>1 DEF SearchInit
  <2>3. metrics \in [Queried -> [pages : Nat, records : Nat]]
    BY DEF SearchInit
  <2>4. recorded \in Seq(Nat)
    BY DEF SearchInit
  <2>5. short \in [Queried -> BOOLEAN]
    BY DEF SearchInit
  <2>6. /\ mode \in {"search", "stream"} /\ limit \in Limits /\ edits \in 0..MaxEdits
        /\ status \in [Queried -> Status] /\ page \in [Queried -> Nat \ {0}]
        /\ seen \in [Queried -> SUBSET Page]
        /\ yielded \in [Queried -> Nat] /\ counted \in [Queried -> Nat]
        /\ phase \in {"running", "returned", "raised", "abandoned"} /\ quiet \subseteq Queried
    BY SearchAssumption DEF SearchInit, Status
  <2> QED BY <2>1, <2>2, <2>3, <2>4, <2>5, <2>6 DEF SearchTypeOK
<1>2. RecordInv
  BY DEF SearchInit, RecordInv
<1>3. ASSUME NEW s \in Queried PROVE Holds(s)
  <2>1. /\ status[s] = "fetching" /\ page[s] = 1 /\ seen[s] = {} /\ buffer[s] = <<>>
        /\ yielded[s] = 0 /\ counted[s] = 0 /\ delivered[s] = <<>>
        /\ metrics[s].pages = 0 /\ metrics[s].records = 0
        /\ Len(buffer[s]) = 0 /\ Len(delivered[s]) = 0
    BY <1>3 DEF SearchInit
  <2>2. limit # NoLimit => limit \in Nat \ {0}
    BY SearchAssumption DEF SearchInit
  <2>3. KeepsToTheLimit(s) /\ HasRoom(s)
    BY <2>1, <2>2 DEF KeepsToTheLimit, HasRoom
  <2>4. Counts(s)
    <3>1. Places({}) = {}
      BY DEF Places
    <3>2. IsFiniteSet({}) /\ Cardinality({}) = 0
      BY FS_EmptySet
    <3>3. IsFiniteSet(seen[s]) /\ Cardinality(seen[s]) = 0 /\ Cardinality(Places(seen[s])) = 0
      BY <2>1, <3>1, <3>2
    <3> HIDE DEF SearchInit
    <3> QED BY <2>1, <3>3 DEF Counts
  <2>5. ASSUME s \notin Wayward PROVE InPlace(s) /\ Delivers(s)
    <3>1. dataset[s] \in Datasets
      BY <2>5 DEF SearchInit
    <3>2. IsInjective(dataset[s]) /\ Len(dataset[s]) \in Nat
      BY <3>1, SearchAssumption
    <3>3. (1 - 1) * Size = 0
      BY <1>1, SizeType DEF SearchTypeOK
    <3>4. InPlace(s)
      BY <2>1, <3>2, <3>3 DEF InPlace
    <3>5. WantedUpTo(s, 0) = {}
      BY <1>1, WantedIs DEF WantedUpTo
    <3>6. Delivers(s)
      BY <2>1, <3>5, FS_EmptySet DEF Delivers
    <3> QED BY <3>4, <3>6
  <2> QED BY <2>1, <2>3, <2>4, <2>5 DEF Holds
<1> QED BY <1>1, <1>2, <1>3, HoldsIs

\* The inductive invariant holds whatever is served, changed, failed or abandoned.
THEOREM SearchInvariance == SearchSpec => []SearchInv
<1>1. SearchInv /\ [SearchNext]_searchVars => SearchInv'
  <2> SUFFICES ASSUME SearchInv, [SearchNext]_searchVars PROVE SearchInv'
    OBVIOUS
  <2>1. SearchTypeOK /\ RecordInv /\ \A s \in Queried : Holds(s)
    BY HoldsIs
  <2>2. SearchTypeOK'
    BY <2>1, SearchTypeStep DEF Holds
  <2>3. RecordInv' /\ \A s \in Queried : Holds(s)'
    BY <2>1, HoldsStep, RecordStep
  <2> QED BY <2>2, <2>3 DEF SearchInv, Holds, AnswersTheQuery
<1> QED BY SearchInitially, <1>1, PTL DEF SearchSpec

\* Every variable keeps its type.
THEOREM SearchTypeCorrect == SearchSpec => []SearchTypeOK
<1>1. SearchInv => SearchTypeOK BY DEF SearchInv
<1> QED BY SearchInvariance, <1>1, PTL

\* A stream ends with what the query asks for, however it is paged.
THEOREM Complete == SearchSpec => []AnswersTheQuery
<1>1. SearchInv => AnswersTheQuery BY DEF SearchInv
<1> QED BY SearchInvariance, <1>1, PTL

\* Metrics and record tell what was fetched and delivered.
THEOREM BooksKept == SearchSpec => []BooksAreTrue
<1>1. SearchInv => BooksAreTrue
  <2> SUFFICES ASSUME SearchInv PROVE BooksAreTrue
    OBVIOUS
  <2>1. \A s \in Queried : /\ metrics[s].pages = Cardinality(seen[s])
                           /\ metrics[s].records = Cardinality(Places(seen[s]))
    BY DEF SearchInv, Counts
  <2>2. /\ (recorded # <<>>) <=> (phase = "returned")
        /\ recorded # <<>> => recorded = <<Total({s \in Queried : status[s] = "ended"})>>
    BY DEF SearchInv, RecordInv
  <2> QED BY <2>1, <2>2 DEF BooksAreTrue
<1> QED BY SearchInvariance, <1>1, PTL
====

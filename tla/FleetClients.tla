---------------------------- MODULE FleetClients ----------------------------
(***************************************************************************)
(* The life cycle of the per-server clients a MispFleet keeps: client(),   *)
(* the worker thread on which _fan_out builds the missing ones, and        *)
(* aclose().                                                               *)
(*                                                                         *)
(* One event loop (the thread Loop) runs every coroutine: while client()   *)
(* builds on it, no other coroutine takes a step.  Each fan-out f owns one *)
(* worker thread, named f as well, that runs client() for the missing      *)
(* servers in parallel with the loop and that a cancelled await does not   *)
(* stop.  A section under _clients_lock is one step.  Clients are numbered *)
(* in the order in which they were constructed; 0 is "no client": an empty *)
(* cache entry, or a client() that raised.                                 *)
(***************************************************************************)
EXTENDS Naturals, FiniteSets

CONSTANTS Servers,   \* the names in the registry
          Enabled,   \* those whose configuration is enabled
          FanOuts,   \* the fan-out operations of this run
          Selections, \* Selections[f]: what the selector of f may resolve to
          Callers,   \* the single-server operations: client() on the loop
          Closers,   \* the calls of aclose()
          Loop,      \* the event loop's thread
          None

ASSUME ConstantsAssumption ==
    /\ Enabled \subseteq Servers
    /\ None \notin Servers
    /\ Loop \notin FanOuts
    /\ Callers \cap FanOuts = {}
    /\ IsFiniteSet(FanOuts)
    /\ Selections \in [FanOuts -> SUBSET ((SUBSET Enabled) \ {{}})]

Threads == FanOuts \cup {Loop}

VARIABLES
    clients,    \* _clients: the cached client of each server
    discarded,  \* _discarded: the losers of a build race
    closed,     \* _closed
    building,   \* _building
    made,       \* how many clients have been constructed
    open,       \* the clients whose transport is open
    call,       \* the client() call each thread is in
    fan,        \* where each fan-out is
    pending,    \* the names its worker has still to build
    failures,   \* the names whose prebuild raised
    todo,       \* the servers whose task has not run yet
    served,     \* the callers that made their call
    closer,     \* where each aclose() is
    draining,   \* what it drained and has still to close
    abandoned   \* drained clients whose close was cancelled

fleetVars == <<clients, discarded, closed, building>>
fanVars   == <<fan, pending, failures, todo>>
closeVars == <<closer, draining, abandoned>>
vars == <<fleetVars, made, open, call, fanVars, served, closeVars>>

CallPhase == {"none", "checking", "building", "built", "returning"}
FanPhase  == {"idle", "queued", "working", "tasks", "detached", "over"}
ClosePhase == {"idle", "waiting", "closing", "done", "cancelled"}

Call == [phase : CallPhase, server : Servers \cup {None},
         client : Nat, user : Callers \cup FanOuts \cup {None}]
NoCall == [phase |-> "none", server |-> None, client |-> 0, user |-> None]
LoopFree == call[Loop].phase = "none"

TypeOK ==
    /\ clients \in [Servers -> Nat] /\ discarded \subseteq Nat
    /\ closed \in BOOLEAN /\ building \in Nat
    /\ made \in Nat /\ open \subseteq 1..made
    /\ call \in [Threads -> Call]
    /\ fan \in [FanOuts -> FanPhase]
    /\ pending \in [FanOuts -> SUBSET Servers]
    /\ failures \in [FanOuts -> SUBSET Servers]
    /\ todo \in [FanOuts -> SUBSET Servers]
    /\ served \subseteq Callers
    /\ closer \in [Closers -> ClosePhase]
    /\ draining \in [Closers -> SUBSET Nat] /\ abandoned \subseteq Nat

Init ==
    /\ clients = [s \in Servers |-> 0] /\ discarded = {}
    /\ closed = FALSE /\ building = 0
    /\ made = 0 /\ open = {}
    /\ call = [t \in Threads |-> NoCall]
    /\ fan = [f \in FanOuts |-> "idle"]
    /\ pending = [f \in FanOuts |-> {}]
    /\ failures = [f \in FanOuts |-> {}]
    /\ todo = [f \in FanOuts |-> {}]
    /\ served = {}
    /\ closer = [k \in Closers |-> "idle"]
    /\ draining = [k \in Closers |-> {}] /\ abandoned = {}

-----------------------------------------------------------------------------
(* client(name): the registry lookup, then the first section under the     *)
(* lock, the construction outside it, and the second section.              *)

Invoke(t, s, u) ==
    /\ call[t].phase = "none"
    /\ call' = [call EXCEPT ![t] =
            [phase |-> IF s \in Enabled THEN "checking" ELSE "returning",
             server |-> s, client |-> 0, user |-> u]]

Refuse(t) ==
    /\ call[t].phase = "checking" /\ closed
    /\ call' = [call EXCEPT ![t].phase = "returning"]
    /\ UNCHANGED <<fleetVars, made, open, fanVars, served, closeVars>>

\* The flag is read before the cache: _clients stays filled while aclose() waits.
CacheIgnoresGate == TRUE                              \* mutant
MayHitCache == ~closed

HitCache(t) ==
    /\ call[t].phase = "checking" /\ MayHitCache
    /\ clients[call[t].server] # 0
    /\ call' = [call EXCEPT ![t].phase = "returning",
                            ![t].client = clients[call[t].server]]
    /\ UNCHANGED <<fleetVars, made, open, fanVars, served, closeVars>>

Unannounced == building                               \* mutant
Announced   == building + 1

Announce(t) ==
    /\ call[t].phase = "checking" /\ ~closed
    /\ clients[call[t].server] = 0
    /\ call' = [call EXCEPT ![t].phase = "building"]
    /\ building' = Announced
    /\ UNCHANGED <<clients, discarded, closed, made, open, fanVars, served, closeVars>>

\* MispClient(config, ...): the credential is resolved, the transport opened.
Construct(t) ==
    /\ call[t].phase = "building"
    /\ made' = made + 1
    /\ open' = open \cup {made + 1}
    /\ call' = [call EXCEPT ![t].phase = "built", ![t].client = made + 1]
    /\ UNCHANGED <<fleetVars, fanVars, served, closeVars>>

FailureForgotten == building                          \* mutant
AfterFailure     == building - 1

FailBuild(t) ==
    /\ call[t].phase = "building"
    /\ building' = AfterFailure
    /\ call' = [call EXCEPT ![t].phase = "returning"]
    /\ UNCHANGED <<clients, discarded, closed, made, open, fanVars, served, closeVars>>

\* _clients.setdefault(s, c): the first client built for s wins.
Overwrite(s, c)  == c                                 \* mutant
SetDefault(s, c) == IF clients[s] = 0 THEN c ELSE clients[s]

Publish(t) ==
    LET s == call[t].server
        current == SetDefault(s, call[t].client)
    IN
    /\ call[t].phase = "built"
    /\ building' = building - 1
    /\ clients' = [clients EXCEPT ![s] = current]
    /\ discarded' = IF current = call[t].client THEN discarded
                    ELSE discarded \cup {call[t].client}
    /\ call' = [call EXCEPT ![t].phase = "returning",
                            ![t].client = IF closed THEN 0 ELSE current]
    /\ UNCHANGED <<closed, made, open, fanVars, served, closeVars>>

\* client() ends on the loop: the coroutine that called it goes on.
ReturnOnLoop ==
    /\ call[Loop].phase = "returning"
    /\ call' = [call EXCEPT ![Loop] = NoCall]
    /\ UNCHANGED <<fleetVars, made, open, fanVars, served, closeVars>>

\* client() ends on a worker: build() keeps what it raised, drops the client.
NothingKept(f) == {}                                  \* mutant
Kept(f) == IF call[f].client = 0 THEN {call[f].server} ELSE {}

ReturnOnWorker(f) ==
    /\ call[f].phase = "returning"
    /\ failures' = [failures EXCEPT ![f] = @ \cup Kept(f)]
    /\ call' = [call EXCEPT ![f] = NoCall]
    /\ UNCHANGED <<fleetVars, made, open, fan, pending, todo, served, closeVars>>

ClientStep(t) ==
    \/ Refuse(t) \/ HitCache(t) \/ Announce(t)
    \/ Construct(t) \/ FailBuild(t) \/ Publish(t)

-----------------------------------------------------------------------------
(* A single-server operation calls client() on the loop.                   *)

CallDirectly(c, s) ==
    /\ LoopFree /\ c \notin served
    /\ Invoke(Loop, s, c)
    /\ served' = served \cup {c}
    /\ UNCHANGED <<fleetVars, made, open, fanVars, closeVars>>

(* _fan_out: the missing clients on a worker, then one task per server.    *)

StartFanOut(f, names) ==
    LET missing == {s \in names : clients[s] = 0} IN
    /\ LoopFree /\ fan[f] = "idle"
    /\ pending' = [pending EXCEPT ![f] = missing]
    /\ todo' = [todo EXCEPT ![f] = names]
    /\ fan' = [fan EXCEPT ![f] = IF missing = {} THEN "tasks" ELSE "queued"]
    /\ UNCHANGED <<fleetVars, made, open, call, failures, served, closeVars>>

StartWorker(f) ==
    /\ fan[f] = "queued"
    /\ fan' = [fan EXCEPT ![f] = "working"]
    /\ UNCHANGED <<fleetVars, made, open, call, pending, failures, todo, served, closeVars>>

BuildNext(f, s) ==
    /\ fan[f] \in {"working", "detached"} /\ s \in pending[f]
    /\ Invoke(f, s, f)
    /\ pending' = [pending EXCEPT ![f] = @ \ {s}]
    /\ UNCHANGED <<fleetVars, made, open, fan, failures, todo, served, closeVars>>

Resume(f) ==
    /\ LoopFree /\ fan[f] = "working"
    /\ pending[f] = {} /\ call[f].phase = "none"
    /\ fan' = [fan EXCEPT ![f] = "tasks"]
    /\ UNCHANGED <<fleetVars, made, open, call, pending, failures, todo, served, closeVars>>

RunTask(f, s) ==
    /\ LoopFree /\ fan[f] = "tasks" /\ s \in todo[f]
    /\ todo' = [todo EXCEPT ![f] = @ \ {s}]
    /\ IF s \in failures[f] THEN UNCHANGED call ELSE Invoke(Loop, s, f)
    /\ UNCHANGED <<fleetVars, made, open, fan, pending, failures, served, closeVars>>

\* The fan-out is over: its locals are gone.
Leave(f) ==
    /\ fan' = [fan EXCEPT ![f] = "over"]
    /\ pending' = [pending EXCEPT ![f] = {}]
    /\ failures' = [failures EXCEPT ![f] = {}]
    /\ todo' = [todo EXCEPT ![f] = {}]

EndFanOut(f) ==
    /\ LoopFree /\ fan[f] = "tasks" /\ todo[f] = {}
    /\ Leave(f)
    /\ UNCHANGED <<fleetVars, made, open, call, served, closeVars>>

\* A worker still queued never starts.
CancelFanOut(f) ==
    /\ LoopFree /\ fan[f] \in {"queued", "tasks"}
    /\ Leave(f)
    /\ UNCHANGED <<fleetVars, made, open, call, served, closeVars>>

\* A running worker goes on without its fan-out.
DetachWorker(f) ==
    /\ LoopFree /\ fan[f] = "working"
    /\ fan' = [fan EXCEPT ![f] = "detached"]
    /\ todo' = [todo EXCEPT ![f] = {}]
    /\ UNCHANGED <<fleetVars, made, open, call, pending, failures, served, closeVars>>

EndDetached(f) ==
    /\ fan[f] = "detached" /\ pending[f] = {} /\ call[f].phase = "none"
    /\ Leave(f)
    /\ UNCHANGED <<fleetVars, made, open, call, served, closeVars>>

-----------------------------------------------------------------------------
(* aclose(): shut the gate, wait out the builds, drain, close everything.  *)
(* In the code no coroutine runs between the flag and the first look at    *)
(* _building, only worker threads do; here any may, as after a sleep.      *)

Cached == {clients[s] : s \in Servers} \ {0}

ShutGate(k) ==
    /\ LoopFree /\ closer[k] = "idle"
    /\ closed' = TRUE
    /\ closer' = [closer EXCEPT ![k] = "waiting"]
    /\ UNCHANGED <<clients, discarded, building, made, open, call, fanVars, served,
                   draining, abandoned>>

AnyTime    == TRUE                                    \* mutant
NoBuilds   == building = 0
CachedOnly == Cached                                  \* mutant
ToClose    == Cached \cup discarded

Drain(k) ==
    /\ LoopFree /\ closer[k] = "waiting" /\ NoBuilds
    /\ draining' = [draining EXCEPT ![k] = ToClose]
    /\ clients' = [s \in Servers |-> 0] /\ discarded' = {}
    /\ closer' = [closer EXCEPT ![k] = "closing"]
    /\ UNCHANGED <<closed, building, made, open, call, fanVars, served, abandoned>>

\* gather(return_exceptions=True): each close runs, whatever the others do.
CloseOne(k, c) ==
    /\ LoopFree /\ closer[k] = "closing" /\ c \in draining[k]
    /\ open' = open \ {c}
    /\ draining' = [draining EXCEPT ![k] = @ \ {c}]
    /\ UNCHANGED <<fleetVars, made, call, fanVars, served, closer, abandoned>>

EndClose(k) ==
    /\ LoopFree /\ closer[k] = "closing" /\ draining[k] = {}
    /\ closer' = [closer EXCEPT ![k] = "done"]
    /\ UNCHANGED <<fleetVars, made, open, call, fanVars, served, draining, abandoned>>

\* A cancelled aclose() closes no further client of those it drained.
CancelClose(k) ==
    /\ LoopFree /\ closer[k] \in {"waiting", "closing"}
    /\ closer' = [closer EXCEPT ![k] = "cancelled"]
    /\ abandoned' = abandoned \cup draining[k]
    /\ draining' = [draining EXCEPT ![k] = {}]
    /\ UNCHANGED <<fleetVars, made, open, call, fanVars, served>>

-----------------------------------------------------------------------------
WorkerStep(f) == StartWorker(f) \/ (\E s \in Servers : BuildNext(f, s)) \/ ReturnOnWorker(f) \/ EndDetached(f)
FanStep(f)    == Resume(f) \/ (\E s \in Servers : RunTask(f, s)) \/ EndFanOut(f)
CloseStep(k)  == Drain(k) \/ (\E c \in draining[k] : CloseOne(k, c)) \/ EndClose(k)

\* What the operations of the fleet do outside client().
UserStep ==
    \/ ReturnOnLoop
    \/ \E c \in Callers, s \in Servers : CallDirectly(c, s)
    \/ \E f \in FanOuts : \E names \in Selections[f] : StartFanOut(f, names)
    \/ \E f \in FanOuts : WorkerStep(f) \/ FanStep(f) \/ CancelFanOut(f) \/ DetachWorker(f)

Next ==
    \/ \E t \in Threads : ClientStep(t)
    \/ UserStep
    \/ \E k \in Closers : ShutGate(k) \/ CloseStep(k) \/ CancelClose(k)

\* The loop and the worker threads are scheduled, and a credential provider
\* answers or fails.  Nobody is obliged to call, to cancel or to close.
Fairness ==
    /\ \A t \in Threads : WF_vars(ClientStep(t))
    /\ WF_vars(ReturnOnLoop)
    /\ \A f \in FanOuts : WF_vars(WorkerStep(f)) /\ WF_vars(FanStep(f))
    /\ \A k \in Closers : WF_vars(CloseStep(k))

Spec == Init /\ [][Next]_vars
FairSpec == Spec /\ Fairness

-----------------------------------------------------------------------------
(* Properties.                                                             *)

Builders == {t \in Threads : call[t].phase \in {"building", "built"}}
InFlight == {call[t].client : t \in {u \in Threads : call[u].phase = "built"}}

Drained == UNION {draining[k] : k \in Closers}

\* Every client with an open transport is where a later aclose() finds it: in
\* the cache, among the losers, on a thread aclose() waits for, or in the hands
\* of an aclose() that is closing it (or was cancelled while it was).
OpenClientsAreOwned ==
    open \subseteq Cached \cup discarded \cup InFlight \cup Drained \cup abandoned

\* Once an aclose() has returned and none is at work, no transport is open, and
\* none will be: fleet.py's "draining ahead of one left its transport open with
\* nothing remaining to close it" does not happen.
NoClientLeaked ==
    (/\ \E k \in Closers : closer[k] = "done"
     /\ \A k \in Closers : closer[k] # "closing")
    => open \subseteq abandoned

\* What client() gives a coroutine is an open client of a fleet nobody has begun
\* to close, whatever the workers and the closers did meanwhile.
HandedOutAlive ==
    (call[Loop].phase = "returning" /\ call[Loop].client # 0)
    => ~closed /\ call[Loop].client \in open

\* The task of a fan-out never resolves a credential on the event loop: its
\* client is in the cache, its prebuild failed, or the fleet is closed.
FanOutNeverBlocksLoop ==
    call[Loop].phase \in {"building", "built"} => call[Loop].user \notin FanOuts

\* The two callers of one server share one client: a cached client stays the
\* cached one until an aclose() drains it.
CachedClientIsStable ==
    [][\A s \in Servers : clients[s] # 0 =>
            \/ clients'[s] = clients[s]
            \/ closed /\ clients'[s] = 0]_clients

\* aclose() ends: the builds it waits for finish, and a shut gate admits no other.
AcloseTerminates ==
    \A k \in Closers : closer[k] = "waiting" ~> closer[k] \in {"done", "cancelled"}

-----------------------------------------------------------------------------
(* The inductive invariant behind them, in parts.                          *)

\* _building counts the threads between the two locked sections of client().
BuildsCounted == building = Cardinality(Builders)

\* The gate is shut before anything is drained, a drain leaves nothing behind,
\* and only an aclose() that is closing holds drained clients.
GateBeforeDrain ==
    \A k \in Closers :
        /\ closer[k] # "idle" => closed
        /\ closer[k] \in {"closing", "done"} =>
                building = 0 /\ Cached = {} /\ discarded = {}
        /\ closer[k] # "closing" => draining[k] = {}

\* What a later caller can still be given is open.
KeptClientsAreOpen == Cached \cup discarded \cup InFlight \subseteq open

\* A thread past the registry is working for an enabled server; on the way out
\* with a client, that server has one in the cache, or the gate is shut.
CallsAreCoherent ==
    \A t \in Threads :
        /\ call[t].phase \in {"checking", "building", "built"} => call[t].server \in Servers
        /\ call[t].phase \in {"checking", "building"} => call[t].client = 0
        /\ call[t].phase = "built" => call[t].client # 0
        /\ call[t].phase = "returning" =>
                /\ call[t].server \in Servers
                /\ \/ call[t].client = 0
                   \/ clients[call[t].server] # 0
                   \/ closed

\* A fan-out's server is out of reach, was built, failed, waits for the worker
\* or is in its hands.
Covered(f, s) ==
    \/ closed \/ clients[s] # 0 \/ s \in failures[f]
    \/ fan[f] \in {"queued", "working"} /\ s \in pending[f]
    \/ fan[f] = "working" /\ call[f].phase # "none" /\ call[f].server = s

PrebuildCovers == \A f \in FanOuts : \A s \in todo[f] : Covered(f, s)

\* So the task's own client() finds the cache filled or the gate shut.
TasksFindTheirClient ==
    call[Loop].phase = "checking" /\ call[Loop].user \in FanOuts =>
        closed \/ clients[call[Loop].server] # 0

IndInv ==
    /\ TypeOK
    /\ BuildsCounted /\ OpenClientsAreOwned
    /\ GateBeforeDrain /\ KeptClientsAreOpen /\ HandedOutAlive
    /\ CallsAreCoherent /\ PrebuildCovers
    /\ TasksFindTheirClient /\ FanOutNeverBlocksLoop
=============================================================================

---------------------------- MODULE FleetExecutor ----------------------------
(***************************************************************************)
(* FleetExecutor.run: one task per server in an asyncio.TaskGroup, at most *)
(* MaxConcurrency of them past the semaphore, and the failure policy that  *)
(* turns what they recorded into an envelope or an error.                  *)
(*                                                                         *)
(* Everything runs on the event loop, so a step is what a coroutine does   *)
(* between two awaits.  A task that ends is noticed by the group one step  *)
(* later, in its done callback: a waiter the semaphore woke may start in   *)
(* between.  The group cancels its tasks once, when it notices the first   *)
(* exception or when run() itself is cancelled.                            *)
(***************************************************************************)
EXTENDS Naturals, FiniteSets

CONSTANTS Selected,         \* the servers of this call of run()
          MaxConcurrency   \* ExecutionOptions.max_concurrency

ASSUME RunAssumption ==
    /\ IsFiniteSet(Selected) /\ Selected # {}
    /\ MaxConcurrency \in Nat \ {0}

VARIABLES
    policy,      \* ExecutionOptions.failure_policy
    task,        \* where the task of each server is
    permits,     \* the semaphore's value
    results,     \* the keys of results
    errors,      \* the keys of errors
    raised,      \* the tasks that ended with an exception
    cancelling,  \* the tasks the group has cancelled
    aborting,    \* the group is shutting down
    cancelled,   \* run() was cancelled from outside
    outcome      \* how run() ended

runVars == <<policy, task, permits, results, errors, raised, cancelling, aborting,
          cancelled, outcome>>

Policies  == {"continue", "fail-fast", "require-all", "require-any"}
Kinds     == {"MispFleetError", "unexpected"}
TaskState == {"created", "running", "ended", "done"}
Outcomes  == {"none", "returned", "partial", "cancelled"}

RunTypeOK ==
    /\ policy \in Policies
    /\ task \in [Selected -> TaskState]
    /\ permits \in 0..MaxConcurrency
    /\ results \subseteq Selected /\ errors \subseteq Selected
    /\ raised \subseteq Selected /\ cancelling \subseteq Selected
    /\ aborting \in BOOLEAN /\ cancelled \in BOOLEAN
    /\ outcome \in Outcomes

RunInit ==
    /\ policy \in Policies
    /\ task = [s \in Selected |-> "created"]
    /\ permits = MaxConcurrency
    /\ results = {} /\ errors = {} /\ raised = {} /\ cancelling = {}
    /\ aborting = FALSE /\ cancelled = FALSE
    /\ outcome = "none"

-----------------------------------------------------------------------------
(* run_one(name)                                                           *)

Unbounded == TRUE                                     \* mutant
HasPermit == permits > 0

StartsRegardless(s) == TRUE                           \* mutant
NotCancelled(s) == s \notin cancelling

Start(s) ==
    /\ task[s] = "created" /\ NotCancelled(s) /\ HasPermit
    /\ task' = [task EXCEPT ![s] = "running"]
    /\ permits' = permits - 1
    /\ UNCHANGED <<policy, results, errors, raised, cancelling, aborting, cancelled, outcome>>

\* `async with semaphore` releases the permit on every way out.
Succeed(s) ==
    /\ task[s] = "running" /\ s \notin cancelling
    /\ results' = results \cup {s}
    /\ task' = [task EXCEPT ![s] = "ended"]
    /\ permits' = permits + 1
    /\ UNCHANGED <<policy, errors, raised, cancelling, aborting, cancelled, outcome>>

\* Both handlers record the failure and re-raise under fail-fast alone.
OnlyTypedIsCaught(kind) == policy = "fail-fast" \/ kind = "unexpected"   \* mutant
Reraises(kind) == policy = "fail-fast"

KeepsPermit   == permits                              \* mutant
ReleasedTwice == permits + 2                          \* mutant
Released      == permits + 1

\* The operation raises; it may do so while it is being cancelled.
Fail(s, kind) ==
    /\ task[s] = "running"
    /\ errors' = errors \cup {s}
    /\ raised' = IF Reraises(kind) THEN raised \cup {s} ELSE raised
    /\ task' = [task EXCEPT ![s] = "ended"]
    /\ permits' = Released
    /\ UNCHANGED <<policy, results, cancelling, aborting, cancelled, outcome>>

\* CancelledError: waiting for a permit or in the operation, nothing is recorded.
GiveUp(s) ==
    /\ task[s] \in {"created", "running"} /\ s \in cancelling
    /\ permits' = IF task[s] = "running" THEN permits + 1 ELSE permits
    /\ task' = [task EXCEPT ![s] = "ended"]
    /\ UNCHANGED <<policy, results, errors, raised, cancelling, aborting, cancelled, outcome>>

-----------------------------------------------------------------------------
(* The task group and the end of run().                                    *)

Unfinished == {s \in Selected : task[s] \in {"created", "running"}}

Notice(s) ==
    /\ task[s] = "ended"
    /\ task' = [task EXCEPT ![s] = "done"]
    /\ IF s \in raised /\ ~aborting
       THEN aborting' = TRUE /\ cancelling' = Unfinished
       ELSE UNCHANGED <<aborting, cancelling>>
    /\ UNCHANGED <<policy, permits, results, errors, raised, cancelled, outcome>>

CancelRun ==
    /\ outcome = "none" /\ ~cancelled
    /\ cancelled' = TRUE
    /\ aborting' = TRUE
    /\ cancelling' = IF aborting THEN cancelling ELSE Unfinished
    /\ UNCHANGED <<policy, task, permits, results, errors, raised, outcome>>

\* _enforce_failure_policy
AnySuccessWillDo ==                                   \* mutant
    /\ errors # {}
    /\ policy \in {"require-all", "require-any"}
    /\ results = {}
PolicyBroken ==
    /\ errors # {}
    /\ \/ policy \in {"fail-fast", "require-all"}
       \/ policy = "require-any" /\ results = {}

\* A group that ends with exceptions raises those rather than the cancellation,
\* and `except* Exception` swallows them; a bare CancelledError passes through.
SwallowsAll == IF PolicyBroken THEN "partial" ELSE "returned"           \* mutant
Verdict == IF cancelled /\ raised = {} THEN "cancelled"
           ELSE IF PolicyBroken THEN "partial" ELSE "returned"

EndRun ==
    /\ outcome = "none" /\ \A s \in Selected : task[s] = "done"
    /\ outcome' = Verdict
    /\ UNCHANGED <<policy, task, permits, results, errors, raised, cancelling, aborting,
                   cancelled>>

TaskStep(s) ==
    \/ Start(s) \/ Succeed(s) \/ (\E kind \in Kinds : Fail(s, kind))
    \/ GiveUp(s) \/ Notice(s)

RunNext == (\E s \in Selected : TaskStep(s)) \/ CancelRun \/ EndRun

\* The loop runs what is ready, and an operation ends: the transport bounds
\* every request with its timeouts.
RunFairness == (\A s \in Selected : WF_runVars(TaskStep(s))) /\ WF_runVars(EndRun)

RunSpec == RunInit /\ [][RunNext]_runVars
FairRun == RunSpec /\ RunFairness

-----------------------------------------------------------------------------
(* Properties.                                                             *)

Running == {s \in Selected : task[s] = "running"}

\* At most MaxConcurrency servers are being talked to.
ConcurrencyBounded == Cardinality(Running) <= MaxConcurrency

\* An envelope that is returned accounts for every requested server, as a
\* result or as an error: no server is dropped by a cancellation of its siblings.
NoSilentGap == outcome = "returned" => results \cup errors = Selected

\* A returned envelope is what its policy promises (docs/api.md, failure
\* policies): every server succeeded, or at least one did.
PolicyHonoured ==
    outcome = "returned" =>
        /\ policy \in {"fail-fast", "require-all"} => results = Selected
        /\ policy = "require-any" => results # {}

\* Whatever one server's operation raises, no other server's task is cancelled,
\* unless the policy says so or the caller cancels the whole run.
FailuresAreIsolated == policy # "fail-fast" /\ ~cancelled => cancelling = {}

\* A cancelled run never hands its caller an envelope.
CancelledRunNeverReturns == cancelled => outcome # "returned"

\* Once the group is shutting down, no further operation begins.
NothingStartsAfterAbort ==
    [][aborting => \A s \in Selected : task[s] = "created" => task'[s] # "running"]_runVars

\* run() ends.
RunEnds == <>(outcome # "none")

-----------------------------------------------------------------------------
(* The inductive invariant behind them, in parts.                          *)

\* No permit is lost or made up.
PermitsCounted == permits + Cardinality(Running) = MaxConcurrency

\* A task that is over left a result or an error, unless the group cancelled it.
EndedIsAccounted ==
    \A s \in Selected : task[s] \in {"ended", "done"} =>
            s \in results \cup errors \cup cancelling

\* The group cancels when it shuts down, and it shuts down for the caller or for
\* a failure that fail-fast let through.
AbortsForAReason ==
    /\ cancelling # {} => aborting
    /\ aborting => cancelled \/ raised # {}
    /\ raised \subseteq errors
    /\ raised # {} => policy = "fail-fast"

\* Nobody who has still to end is missed when the group shuts down.
AbortReachesAll == aborting => Unfinished \subseteq cancelling

\* The verdict comes last, and an envelope is returned with nothing held back.
VerdictStands ==
    /\ outcome # "none" => \A s \in Selected : task[s] = "done"
    /\ outcome = "returned" => ~cancelled /\ raised = {} /\ ~PolicyBroken

RunInv ==
    /\ RunTypeOK /\ PermitsCounted /\ EndedIsAccounted
    /\ AbortsForAReason /\ AbortReachesAll /\ VerdictStands
=============================================================================

---------------------------- MODULE MariaDBState ----------------------------
(***************************************************************************)
(* The MariaDB state backend, which hosts share: on each of them _run()    *)
(* under the asyncio lock, the one connection, the thread that a call runs *)
(* its statements on, and the server all of them are connected to.         *)
(*                                                                         *)
(* A coroutine that is cancelled waits for its thread; cancelled again, it *)
(* stops waiting and gives the lock up, and two threads may then use one   *)
(* connection.  A statement can be refused, and a connection can be lost,  *)
(* with its process or without: what was sent may then still be executed,  *)
(* and nobody is told.                                                     *)
(***************************************************************************)
EXTENDS Naturals, Sequences

CONSTANTS Hosts, Calls,
          Requests,    \* what they may ask for: [method, key, time]
          Collated,    \* the collation: keys it maps to one value are equal
          None,
          MaxCancels   \* bound: how often a call is cancelled

Methods == {"save_checkpoint", "delete_checkpoint", "save_operation", "save_capabilities",
            "invalidate_capabilities", "save_plan", "save_query", "save_plugin", "prune", "read"}
Keys == DOMAIN Collated

ASSUME ConstantsAssumption ==
    /\ None \notin Calls /\ MaxCancels \in Nat
    /\ Requests \subseteq [method : Methods, key : DOMAIN Collated, time : Nat]

VARIABLES
    rows,        \* what is committed on the server
    begun,       \* the prunes with a transaction open on the server
    deletes,     \* what each of them has deleted in it
    late,        \* the calls whose last command the server may still execute
    connection,  \* each host's _connection
    shared,      \* the hosts where two threads have used it at once (history)
    lock,        \* who holds each host's _lock
    pc,          \* where each call is
    cancels,     \* how often it was cancelled
    thread,      \* where its thread is
    step,        \* which statement of a prune that is
    reply,       \* the answer to the thread's last command
    home,        \* the host each call is made on
    request,     \* what it asks for
    landed,      \* the calls that took effect (history)
    seen         \* what each read was given

inputs == <<home, request>>
callVars == <<pc, cancels, lock>>
threadVars == <<thread, step, reply>>
serverVars == <<rows, begun, deletes, late, landed, seen>>
hostVars == <<connection, shared>>
vars == <<callVars, threadVars, serverVars, hostVars, inputs>>

Pending == {"waiting", "running", "draining"}
Ended == {"answered", "refused", "cancelled", "dead"}
Busy  == {"beginning", "executing", "deleting", "committing", "undoing"}
Over  == {"done", "failed"}

Row == [table : {"checkpoints", "operations", "capabilities", "plans", "queries", "plugins"},
        key : Keys, time : Nat]

TypeOK ==
    /\ rows \subseteq Row /\ begun \subseteq Calls /\ late \subseteq Calls
    /\ deletes \in [Calls -> SUBSET Row]
    /\ connection \in [Hosts -> {"none", "open", "lost"}] /\ shared \subseteq Hosts
    /\ lock \in [Hosts -> Calls \cup {None}]
    /\ pc \in [Calls -> {"idle"} \cup Pending \cup Ended]
    /\ cancels \in [Calls -> 0..MaxCancels]
    /\ thread \in [Calls -> {"none"} \cup Busy \cup Over]
    /\ step \in [Calls -> 1..4]
    /\ reply \in [Calls -> {"awaited", "executed", "refused", "lost"}]
    /\ home \in [Calls -> Hosts] /\ request \in [Calls -> Requests]
    /\ landed \subseteq Calls /\ seen \in [Calls -> SUBSET Row]

Init ==
    /\ rows = {} /\ begun = {} /\ late = {}
    /\ deletes = [c \in Calls |-> {}]
    /\ connection = [h \in Hosts |-> "none"] /\ shared = {} /\ lock = [h \in Hosts |-> None]
    /\ pc = [c \in Calls |-> "idle"] /\ cancels = [c \in Calls |-> 0]
    /\ thread = [c \in Calls |-> "none"] /\ step = [c \in Calls |-> 1]
    /\ reply = [c \in Calls |-> "awaited"]
    /\ home \in [Calls -> Hosts] /\ request \in [Calls -> Requests]
    /\ landed = {} /\ seen = [c \in Calls |-> {}]

-----------------------------------------------------------------------------
(* The statements, and what the server makes of them.                      *)

Upserts == [save_checkpoint |-> "checkpoints", save_capabilities |-> "capabilities",
            save_plan |-> "plans", save_plugin |-> "plugins"]
Deletes == [delete_checkpoint |-> "checkpoints", invalidate_capabilities |-> "capabilities"]
Inserts == [save_operation |-> "operations", save_query |-> "queries"]

PruneStatements == <<"checkpoints", "operations", "plans", "queries">>

Equal(k, l) == Collated[k] = Collated[l]
At(table, key) == {r \in rows : r.table = table /\ Equal(r.key, key)}
New(table, q) == [table |-> table, key |-> q.key, time |-> q.time]

\* ON DUPLICATE KEY UPDATE leaves the key of the row that is there.
Upserted(table, q) ==
    IF At(table, q.key) = {} THEN rows \cup {New(table, q)}
    ELSE (rows \ At(table, q.key)) \cup {[r EXCEPT !.time = q.time] : r \in At(table, q.key)}

Executed(q) ==
    CASE q.method \in DOMAIN Upserts -> Upserted(Upserts[q.method], q)
      [] q.method \in DOMAIN Deletes -> rows \ At(Deletes[q.method], q.key)
      [] q.method \in DOMAIN Inserts -> rows \cup {New(Inserts[q.method], q)}
      [] q.method = "read" -> rows

\* The rows of queries are numbered; an operation has its identifier as key.
PrimaryKeyFails(q) == q.method = "save_operation" /\ At("operations", q.key) # {}

Aged(table, time) == {r \in rows : r.table = table /\ r.time < time}

-----------------------------------------------------------------------------
(* _run(), from one await to the next.                                     *)

Move(c, p) == pc' = [pc EXCEPT ![c] = p]
Unlock(c) == lock' = [lock EXCEPT ![home[c]] = None]

Ask(c) ==
    /\ pc[c] = "idle" /\ Move(c, "waiting")
    /\ UNCHANGED <<cancels, lock, threadVars, serverVars, hostVars, inputs>>

RefuseClosed(c) ==
    /\ pc[c] = "waiting" /\ connection[home[c]] = "none" /\ Move(c, "refused")
    /\ UNCHANGED <<cancels, lock, threadVars, serverVars, hostVars, inputs>>

FirstCommand(q) == IF q.method = "prune" THEN "beginning" ELSE "executing"

On(h) == {c \in Calls : home[c] = h}
Share(h) == shared' = IF \E c \in On(h) : thread[c] \in Busy THEN shared \cup {h} ELSE shared

\* A connection that is lost refuses every command; nothing opens it again.
StartThread(c) ==
    /\ pc[c] = "waiting" /\ lock[home[c]] = None
    /\ lock' = [lock EXCEPT ![home[c]] = c] /\ Move(c, "running")
    /\ thread' = [thread EXCEPT ![c] = IF connection[home[c]] = "open"
                                       THEN FirstCommand(request[c]) ELSE "failed"]
    /\ Share(home[c])
    /\ UNCHANGED <<cancels, step, reply, serverVars, connection, inputs>>

\* The thread is over, and the coroutine learns of it.
Return(c) ==
    /\ pc[c] \in {"running", "draining"} /\ thread[c] \in Over
    /\ Move(c, CASE pc[c] = "draining" -> "cancelled"
                 [] pc[c] = "running" /\ thread[c] = "done" -> "answered"
                 [] pc[c] = "running" /\ thread[c] = "failed" -> "refused")
    /\ Unlock(c)
    /\ UNCHANGED <<cancels, threadVars, serverVars, hostVars, inputs>>

LetsGo == "cancelled"                                 \* mutant
WaitsItOut == "draining"

\* The thread cannot be cancelled: shield() keeps it.  The wait for it can.
Cancel(c) ==
    /\ pc[c] \in Pending
    /\ cancels[c] < MaxCancels /\ cancels' = [cancels EXCEPT ![c] = @ + 1]
    /\ Move(c, IF pc[c] = "running" THEN WaitsItOut ELSE "cancelled")
    /\ IF pc'[c] = "cancelled" /\ pc[c] # "waiting" THEN Unlock(c) ELSE UNCHANGED lock
    /\ UNCHANGED <<threadVars, serverVars, hostVars, inputs>>

-----------------------------------------------------------------------------
(* The thread of a call: operation() of _execute, _fetch_column and prune. *)

Sends(c, t) ==
    /\ thread' = [thread EXCEPT ![c] = t]
    /\ reply' = [reply EXCEPT ![c] = IF connection[home[c]] = "open" THEN "awaited" ELSE "lost"]
Ends(c, t) ==
    thread' = [thread EXCEPT ![c] = t] /\ reply' = [reply EXCEPT ![c] = "awaited"]

\* The last command was executed.
NextCommand(c) ==
    /\ thread[c] \in Busy /\ reply[c] = "executed"
    /\ step' = IF thread[c] = "deleting" /\ step[c] < 4 THEN [step EXCEPT ![c] = @ + 1] ELSE step
    /\ CASE thread[c] \in {"executing", "committing"} -> Ends(c, "done")
         [] thread[c] = "beginning" -> Sends(c, "deleting")
         [] thread[c] = "deleting" -> Sends(c, IF step[c] < 4 THEN "deleting" ELSE "committing")
         [] thread[c] = "undoing" -> Ends(c, "failed")
    /\ UNCHANGED <<callVars, serverVars, hostVars, inputs>>

NoRollback(c) == Ends(c, "failed")                    \* mutant
Rollback(c) == Sends(c, "undoing")

\* MySQLError.  Without a connection there is nothing to roll back on.
CommandFailed(c) ==
    /\ thread[c] \in Busy /\ reply[c] \in {"refused", "lost"}
    /\ IF thread[c] \in {"deleting", "committing"} /\ reply[c] = "refused"
       THEN Rollback(c) ELSE Ends(c, "failed")
    /\ UNCHANGED <<callVars, step, serverVars, hostVars, inputs>>

-----------------------------------------------------------------------------
(* The server.                                                             *)

Sent(c) == thread[c] \in Busy /\ reply[c] = "awaited"
Reply(c, answer) == reply' = [reply EXCEPT ![c] = answer]

\* A transaction locks the rows it scans: what would change them waits.
Unlocked(c) == request[c].method = "read" \/ begun \subseteq {c}

Land(c) == landed' = landed \cup {c}

\* A statement of its own, under autocommit.
Execute(c) ==
    /\ Unlocked(c) /\ ~PrimaryKeyFails(request[c])
    /\ rows' = Executed(request[c]) /\ Land(c)
    /\ seen' = IF request[c].method = "read" THEN [seen EXCEPT ![c] = rows] ELSE seen
    /\ UNCHANGED <<begun, deletes>>

Autocommits(c) == begun                               \* mutant
Begun(c) == begun \cup {c}

BeginTransaction(c) ==
    /\ Unlocked(c) /\ begun' = Begun(c)
    /\ UNCHANGED <<rows, deletes, landed, seen>>

Delete(c) ==
    LET aged == Aged(PruneStatements[step[c]], request[c].time) IN
    /\ IF c \in begun THEN deletes' = [deletes EXCEPT ![c] = @ \cup aged] /\ UNCHANGED rows
       ELSE rows' = rows \ aged /\ UNCHANGED deletes
    /\ UNCHANGED <<begun, landed, seen>>

Commit(c) ==
    /\ rows' = rows \ deletes[c] /\ Land(c)
    /\ begun' = begun \ {c} /\ deletes' = [deletes EXCEPT ![c] = {}]
    /\ UNCHANGED seen

UndoTransaction(c) ==
    /\ begun' = begun \ {c} /\ deletes' = [deletes EXCEPT ![c] = {}]
    /\ UNCHANGED <<rows, landed, seen>>

Serve(c) ==
    /\ Sent(c) /\ Reply(c, "executed")
    /\ CASE thread[c] = "executing" -> Execute(c)
         [] thread[c] = "beginning" -> BeginTransaction(c)
         [] thread[c] = "deleting" -> Delete(c)
         [] thread[c] = "committing" -> Commit(c)
         [] thread[c] = "undoing" -> UndoTransaction(c)
    /\ UNCHANGED <<late, callVars, thread, step, hostVars, inputs>>

\* A constraint, a lock that is waited for too long, a full disk.
Decline(c) ==
    /\ Sent(c) /\ thread[c] # "undoing" /\ Reply(c, "refused")
    /\ UNCHANGED <<serverVars, callVars, thread, step, hostVars, inputs>>

\* What was sent on a connection that is gone.
ServeLate(c) ==
    /\ c \in late /\ late' = late \ {c}
    /\ IF request[c].method = "prune" THEN Commit(c) ELSE Execute(c)
    /\ UNCHANGED <<callVars, threadVars, hostVars, inputs>>

DropLate(c) ==
    /\ c \in late /\ late' = late \ {c} /\ UndoTransaction(c)
    /\ UNCHANGED <<callVars, threadVars, hostVars, inputs>>

\* On a connection that two threads have used, a thread may read what was meant for the other,
\* and what it sent may be executed later or not at all.  What else their mixed packets can do
\* is not modelled: no property says anything of what a host does from there on.
Garble(c) ==
    /\ Sent(c) /\ home[c] \in shared
    /\ \E answer \in {"executed", "refused"} : Reply(c, answer)
    /\ late' \in {late, late \cup {d \in {c} : thread[d] \in {"executing", "committing"}}}
    /\ UNCHANGED <<rows, begun, deletes, landed, seen, callVars, thread, step, hostVars, inputs>>

-----------------------------------------------------------------------------
(* The life of a connection.                                               *)

\* A host whose connection was shared is followed until that connection is gone.
Connect(h) ==
    /\ connection[h] = "none" /\ h \notin shared
    /\ connection' = [connection EXCEPT ![h] = "open"]
    /\ UNCHANGED <<shared, callVars, threadVars, serverVars, inputs>>

\* The server rolls back, unless it has a commit to execute.
Disconnect(h) ==
    LET unserved == {c \in On(h) : Sent(c) /\ thread[c] \in {"executing", "committing"}} IN
    /\ late' = late \cup unserved
    /\ begun' = begun \ (On(h) \ late')
    /\ deletes' = [c \in Calls |-> IF c \in begun' THEN deletes[c] ELSE {}]
    /\ UNCHANGED <<rows, landed, seen>>

Break(h) ==
    /\ Disconnect(h)
    /\ reply' = [c \in Calls |-> IF c \in On(h) /\ Sent(c) THEN "lost" ELSE reply[c]]
    /\ UNCHANGED <<callVars, thread, step, inputs>>

Lose(h) ==
    /\ connection[h] = "open" /\ connection' = [connection EXCEPT ![h] = "lost"]
    /\ Break(h) /\ UNCHANGED shared

\* The backend is closed by those who opened it, when their calls are over, on a thread of
\* its own and without the lock; a thread that was let go loses its connection.
Close(h) ==
    /\ connection[h] # "none" /\ connection' = [connection EXCEPT ![h] = "none"]
    /\ \A c \in On(h) : pc[c] \notin Pending
    /\ Break(h) /\ Share(h)

Crash(h) ==
    /\ connection' = [connection EXCEPT ![h] = "none"] /\ connection[h] # "none"
    /\ Disconnect(h)
    /\ lock' = [lock EXCEPT ![h] = None]
    /\ pc' = [c \in Calls |-> IF c \in On(h) /\ pc[c] \in Pending THEN "dead" ELSE pc[c]]
    /\ thread' = [c \in Calls |-> IF c \in On(h) THEN "none" ELSE thread[c]]
    /\ reply' = [c \in Calls |-> IF c \in On(h) THEN "awaited" ELSE reply[c]]
    /\ UNCHANGED <<cancels, step, shared, inputs>>

CallStep(c) == Ask(c) \/ RefuseClosed(c) \/ StartThread(c) \/ Return(c) \/ Cancel(c)
ThreadStep(c) == NextCommand(c) \/ CommandFailed(c)
ServerStep(c) == Serve(c) \/ Decline(c) \/ ServeLate(c) \/ DropLate(c) \/ Garble(c)

Next ==
    \/ \E c \in Calls : CallStep(c) \/ ThreadStep(c) \/ ServerStep(c)
    \/ \E h \in Hosts : Connect(h) \/ Lose(h) \/ Close(h) \/ Crash(h)

Spec == Init /\ [][Next]_vars

-----------------------------------------------------------------------------
(* Properties.                                                             *)

\* The backend is a StateStore that hosts share: a call has the effect of the in-memory
\* backend at one moment or not at all, a prune included, whoever is cancelled, whose
\* connection is lost and which host ends, for as long as no two threads have used one
\* connection.  A refusal does not exclude the effect.  Its keys are the names as the
\* collation tells them apart.
Fold(record) == [record EXCEPT !.key = Collated[@]]
Folded(records) == {Fold(r) : r \in records}
Store == INSTANCE StateStore WITH
    Certain <- FALSE,
    Requests <- Folded(Requests),
    rows <- Folded(rows),
    status <- [c \in Calls |-> IF pc[c] \in Pending THEN "asked" ELSE pc[c]],
    request <- [c \in Calls |-> Fold(request[c])],
    seen <- [c \in Calls |-> Folded(seen[c])]
ImplementsStateStore ==
    Store!Init /\ [][shared' = {} => Store!Next]_(Store!storeVars)

\* A PyMySQL connection is not thread-safe: a call that was cancelled once keeps the lock for
\* as long as its thread uses the connection.  A call that is cancelled again does not.
SharesOnlyAfterSecondCancel ==
    \A c, d \in Calls :
        home[c] = home[d] /\ c # d /\ thread[c] \in Busy /\ thread[d] \in Busy =>
            cancels[c] >= 2 \/ cancels[d] >= 2

\* What the comment in _run() says of a call that was cancelled, however often.
OneThreadOnConnection ==
    \A c, d \in Calls : home[c] = home[d] /\ thread[c] \in Busy /\ thread[d] \in Busy => c = d

\* A call never works in the transaction that another left open on the connection, unless the
\* two have shared it.
NoTransactionInherited ==
    \A c, d \in Calls :
        home[c] = home[d] /\ home[c] \notin shared /\ thread[c] \in Busy /\ d \in begun \ late =>
            c = d

\* The capabilities saved for a server are kept beside those of every other server, until
\* somebody drops them.
KeepsEveryName ==
    \A c \in Calls :
        /\ pc[c] = "answered" /\ request[c].method = "save_capabilities"
        /\ \A d \in landed : request[d].method = "invalidate_capabilities" =>
                request[d].key # request[c].key
        => \E r \in rows : r.table = "capabilities" /\ r.key = request[c].key

-----------------------------------------------------------------------------
(* Why a connection is shared only if a call is cancelled a second time,   *)
(* and has no transaction open otherwise.                                  *)

\* A thread that is not over has a coroutine that holds the lock for it, unless the second
\* cancellation let it go.
ThreadIsWaitedFor ==
    \A c \in Calls :
        /\ thread[c] \in Busy =>
            pc[c] \in {"running", "draining"} \/ (pc[c] = "cancelled" /\ cancels[c] >= 2)
        /\ pc[c] \in {"running", "draining"} => lock[home[c]] = c
        /\ pc[c] = "draining" => cancels[c] >= 1

\* No two threads use a connection that is not known to be shared.
SharedIsTold ==
    \A c, d \in Calls :
        home[c] = home[d] /\ c # d /\ thread[c] \in Busy /\ thread[d] \in Busy => home[c] \in shared

\* What is sent and not answered was sent on an open connection.
SentOnOpenConnection ==
    \A c \in Calls :
        /\ Sent(c) => connection[home[c]] = "open"
        /\ pc[c] \in {"idle", "waiting"} => reply[c] = "awaited"

\* A prune, and nothing else, has a transaction.
Prunes ==
    \A c \in Calls :
        /\ thread[c] \in Busy => (thread[c] = "executing" <=> request[c].method # "prune")
        /\ c \in begun => request[c].method = "prune"

\* A transaction belongs to the thread that will end it.
TransactionHasThread ==
    \A c \in begun \ late : home[c] \notin shared =>
        /\ connection[home[c]] = "open"
        /\ \/ thread[c] = "beginning" /\ reply[c] = "executed"
           \/ thread[c] = "deleting" /\ reply[c] # "lost"
           \/ thread[c] = "committing" /\ reply[c] \in {"awaited", "refused"}
           \/ thread[c] = "undoing" /\ reply[c] = "awaited"

IndInv ==
    /\ TypeOK /\ ThreadIsWaitedFor /\ SharedIsTold /\ SentOnOpenConnection /\ Prunes
    /\ TransactionHasThread

-----------------------------------------------------------------------------
(* Why ImplementsStateStore holds, while no connection is shared.          *)

\* Who has a transaction keeps everybody else from writing.
OneTransaction == \A c, d \in begun : c = d

\* A prune is at work in its transaction, also if its commit is executed late.
WorksInTransaction ==
    \A c \in Calls :
        /\ thread[c] \in Busy => connection[home[c]] # "none"
        /\ /\ connection[home[c]] = "open"
           /\ \/ thread[c] = "beginning" /\ reply[c] = "executed"
              \/ thread[c] = "deleting" /\ reply[c] \in {"awaited", "executed"}
              \/ thread[c] = "committing" /\ reply[c] = "awaited"
           => c \in begun
        /\ c \in late /\ request[c].method = "prune" => c \in begun

\* The rows that c's first n statements delete.
Pruned(c, n) ==
    {r \in rows : r.time < request[c].time /\ \E i \in 1..n : r.table = PruneStatements[i]}

\* What a transaction has deleted is what the rows of now say it should have.
DeletesInOrder ==
    \A c \in Calls :
        /\ pc[c] \in {"idle", "waiting"} \/ thread[c] = "beginning" => step[c] = 1
        /\ c \notin begun \/ thread[c] = "beginning" => deletes[c] = {}
        /\ c \in begun =>
            /\ thread[c] = "deleting" /\ reply[c] = "awaited" => deletes[c] = Pruned(c, step[c] - 1)
            /\ thread[c] = "deleting" /\ reply[c] = "executed" => deletes[c] = Pruned(c, step[c])
            /\ (thread[c] = "committing" /\ reply[c] = "awaited") \/ c \in late =>
                    deletes[c] = Pruned(c, 4)

\* A call takes effect once, and is not answered before.
LandsOnce ==
    \A c \in Calls :
        /\ pc[c] \in {"idle", "waiting"} \/ thread[c] \in {"beginning", "deleting"} => c \notin landed
        /\ thread[c] \in {"executing", "committing"} =>
            /\ reply[c] = "awaited" => c \notin landed
            /\ reply[c] = "executed" => c \in landed
        /\ thread[c] = "done" \/ pc[c] = "answered" => c \in landed
        /\ c \in late =>
            /\ c \notin landed /\ pc[c] \notin {"idle", "waiting"}
            /\ thread[c] \in Busy => thread[c] \in {"executing", "committing"} /\ reply[c] = "lost"

StoreInv == OneTransaction /\ WorksInTransaction /\ DeletesInOrder /\ LandsOnce
StoreInvUnshared == shared = {} => StoreInv
=============================================================================

---------------------------- MODULE SqliteState ----------------------------
(***************************************************************************)
(* The SQLite state backend: _write and _read under the asyncio lock, the  *)
(* one connection they share, and the thread of aiosqlite that executes    *)
(* what is sent to the connection in the order it was sent.                *)
(*                                                                         *)
(* A coroutine that awaits a command can be cancelled; the command stays   *)
(* in the queue all the same.  Cancelled once, _write rolls back; cancelled *)
(* again while it waits for that, it gives up the lock with its commands   *)
(* still queued.  A statement or a commit can fail (a full disk, a file    *)
(* another process has locked).  The process can crash, and starts again.  *)
(***************************************************************************)
EXTENDS Naturals, Sequences

CONSTANTS Calls,       \* the calls of the backend's methods
          Requests,    \* what they may ask for: [method, key, time]
          None,
          MaxCrashes   \* bound: how often the process ends

Methods == {"save_checkpoint", "delete_checkpoint", "save_operation", "save_capabilities",
            "invalidate_capabilities", "save_plan", "save_query", "save_plugin", "prune", "read"}
Keys == {q.key : q \in Requests}

ASSUME ConstantsAssumption ==
    /\ None \notin Calls /\ MaxCrashes \in Nat
    /\ Requests \subseteq [method : Methods, key : Keys, time : Nat]

VARIABLES
    rows,        \* what is committed
    work,        \* what the connection sees: rows, or its open transaction
    connection,  \* _connection, and whether its close is queued or executed
    queue,       \* the commands the worker thread has still to execute
    lock,        \* who holds _lock
    pc,          \* where each call is
    request,     \* what it asked for
    step,        \* the statement it is at
    reply,       \* how the last executed command of each call ended
    landed,      \* the calls that were committed, or read (history)
    seen,        \* what each read was given
    crashes

callVars == <<pc, step, lock>>
dbVars == <<rows, work, reply, landed, seen>>
vars == <<dbVars, callVars, connection, queue, request, crashes>>

Active == {"executing", "committing", "reading", "undoing", "unwinding"}
Ended  == {"answered", "refused", "cancelled", "dead"}

Row == [table : {"checkpoints", "operations", "capabilities", "plans", "queries", "plugins"},
        key : Keys, time : Nat]
Commands == [call : Calls \cup {None}, step : Nat,
             command : {"execute", "commit", "select", "rollback", "close"}]

TypeOK ==
    /\ rows \subseteq Row /\ work \subseteq Row
    /\ connection \in {"none", "open", "closing", "closed"}
    /\ queue \in Seq(Commands) /\ lock \in Calls \cup {None}
    /\ pc \in [Calls -> {"idle", "waiting"} \cup Active \cup Ended]
    /\ request \in [Calls -> Requests]
    /\ step \in [Calls -> Nat]
    /\ reply \in [Calls -> {"done", "failed"}]
    /\ landed \subseteq Calls
    /\ seen \in [Calls -> SUBSET Row]
    /\ crashes \in 0..MaxCrashes

Init ==
    /\ rows = {} /\ work = {}
    /\ connection = "none" /\ queue = <<>> /\ lock = None
    /\ pc = [c \in Calls |-> "idle"]
    /\ request \in [Calls -> Requests]
    /\ step = [c \in Calls |-> 1]
    /\ reply = [c \in Calls |-> "done"]
    /\ landed = {} /\ seen = [c \in Calls |-> {}]
    /\ crashes = 0

-----------------------------------------------------------------------------
(* The statements of each method, and what SQLite makes of them.           *)

Upsert(table, q) == <<[op |-> "upsert", table |-> table, key |-> q.key, time |-> q.time]>>
Insert(table, q) == <<[op |-> "insert", table |-> table, key |-> q.key, time |-> q.time]>>
Delete(table, q) == <<[op |-> "delete", table |-> table, key |-> q.key, time |-> q.time]>>

PruneTables == <<"checkpoints", "operations", "plans", "queries">>
Prune(q) == [i \in 1..4 |-> [op |-> "age", table |-> PruneTables[i], key |-> q.key,
                             time |-> q.time]]

Statements(q) ==
    CASE q.method = "save_checkpoint" -> Upsert("checkpoints", q)
      [] q.method = "delete_checkpoint" -> Delete("checkpoints", q)
      [] q.method = "save_operation" -> Insert("operations", q)
      [] q.method = "save_capabilities" -> Upsert("capabilities", q)
      [] q.method = "invalidate_capabilities" -> Delete("capabilities", q)
      [] q.method = "save_plan" -> Upsert("plans", q)
      [] q.method = "save_query" -> Insert("queries", q)
      [] q.method = "save_plugin" -> Upsert("plugins", q)
      [] q.method = "prune" -> Prune(q)

Matches(r, st) ==
    /\ r.table = st.table
    /\ IF st.op = "age" THEN r.time < st.time ELSE r.key = st.key

\* INSERT keeps what is there; ON CONFLICT DO UPDATE replaces it.
Executed(db, st) ==
    (IF st.op = "insert" THEN db ELSE {r \in db : ~Matches(r, st)})
    \cup (IF st.op \in {"insert", "upsert"}
          THEN {[table |-> st.table, key |-> st.key, time |-> st.time]} ELSE {})

\* queries has no primary key.
PrimaryKeyFails(db, st) ==
    st.op = "insert" /\ st.table # "queries" /\ \E r \in db : Matches(r, st)

-----------------------------------------------------------------------------
(* _write() and _read(): from one await to the next.                       *)

Move(c, p) == pc' = [pc EXCEPT ![c] = p]

Command(c, name, n) == [call |-> c, command |-> name, step |-> n]
Send(c, name) == queue' = Append(queue, Command(c, name, step[c]))

\* The future of the last command c sent is resolved.
Settled(c) == \A i \in DOMAIN queue : queue[i].call # c

Ask(c) ==
    /\ pc[c] = "idle" /\ Move(c, "waiting")
    /\ UNCHANGED <<dbVars, step, lock, connection, queue, request, crashes>>

Unlocked == TRUE                                      \* mutant
LockFree == lock = None

\* Without a connection: a StateError, and the lock is free again.
RefuseClosed(c) ==
    /\ pc[c] = "waiting" /\ LockFree /\ connection = "none"
    /\ Move(c, "refused")
    /\ UNCHANGED <<dbVars, step, lock, connection, queue, request, crashes>>

Begin(c) ==
    /\ pc[c] = "waiting" /\ LockFree /\ connection # "none"
    /\ lock' = c
    /\ IF request[c].method = "read"
       THEN Move(c, "reading") /\ Send(c, "select")
       ELSE Move(c, "executing") /\ Send(c, "execute")
    /\ UNCHANGED <<dbVars, step, connection, request, crashes>>

Proceed(c) ==
    /\ pc[c] = "executing" /\ Settled(c) /\ reply[c] = "done"
    /\ IF step[c] < Len(Statements(request[c]))
       THEN /\ step' = [step EXCEPT ![c] = @ + 1]
            /\ queue' = Append(queue, Command(c, "execute", step[c] + 1))
            /\ UNCHANGED pc
       ELSE /\ Move(c, "committing") /\ Send(c, "commit")
            /\ UNCHANGED step
    /\ UNCHANGED <<dbVars, lock, connection, request, crashes>>

KeepsLock == lock                                     \* mutant
Released  == None

Answer(c) ==
    /\ pc[c] \in {"committing", "reading"} /\ Settled(c) /\ reply[c] = "done"
    /\ lock' = Released /\ Move(c, "answered")
    /\ UNCHANGED <<dbVars, step, connection, queue, request, crashes>>

NoRollback(c) == queue                                \* mutant
Rollback(c)   == Append(queue, Command(c, "rollback", step[c]))

\* sqlite3.Error.  A read has nothing to roll back.
Fail(c) ==
    /\ pc[c] \in {"executing", "committing", "reading"}
    /\ Settled(c) /\ reply[c] = "failed"
    /\ IF pc[c] = "reading"
       THEN lock' = Released /\ Move(c, "refused") /\ UNCHANGED queue
       ELSE queue' = Rollback(c) /\ Move(c, "undoing") /\ UNCHANGED lock
    /\ UNCHANGED <<dbVars, step, connection, request, crashes>>

\* The rollback is over, or cannot be done: the error is raised again.
Undone(c) ==
    /\ pc[c] \in {"undoing", "unwinding"} /\ Settled(c)
    /\ lock' = Released
    /\ Move(c, IF pc[c] = "undoing" THEN "refused" ELSE "cancelled")
    /\ UNCHANGED <<dbVars, step, connection, queue, request, crashes>>

\* At any await; the command that was awaited stays in the queue.
Cancel(c) ==
    \/ /\ pc[c] = "waiting" /\ Move(c, "cancelled")
       /\ UNCHANGED <<dbVars, step, lock, connection, queue, request, crashes>>
    \/ /\ pc[c] \in {"executing", "committing"}
       /\ queue' = Rollback(c) /\ Move(c, "unwinding")
       /\ UNCHANGED <<dbVars, step, lock, connection, request, crashes>>
    \/ /\ pc[c] \in {"reading", "undoing", "unwinding"}
       /\ lock' = Released /\ Move(c, "cancelled")
       /\ UNCHANGED <<dbVars, step, connection, queue, request, crashes>>

-----------------------------------------------------------------------------
(* The worker thread of the connection.                                    *)

Usable == connection \in {"open", "closing"}

Take(command) ==
    /\ queue # <<>> /\ Head(queue).command = command
    /\ queue' = Tail(queue)

Reply(answer) == reply' = [reply EXCEPT ![Head(queue).call] = answer]

Execute ==
    LET head == Head(queue)
        st == Statements(request[head.call])[head.step]
    IN
    /\ Take("execute") /\ Usable /\ ~PrimaryKeyFails(work, st)
    /\ work' = Executed(work, st) /\ Reply("done")
    /\ UNCHANGED <<rows, landed, seen, callVars, connection, request, crashes>>

Commit ==
    /\ Take("commit") /\ Usable
    /\ rows' = work /\ landed' = landed \cup {Head(queue).call} /\ Reply("done")
    /\ UNCHANGED <<work, seen, callVars, connection, request, crashes>>

Select ==
    /\ Take("select") /\ Usable
    /\ seen' = [seen EXCEPT ![Head(queue).call] = work]
    /\ landed' = landed \cup {Head(queue).call} /\ Reply("done")
    /\ UNCHANGED <<rows, work, callVars, connection, request, crashes>>

\* A constraint, a full disk, a locked file, a closed connection.
CommandFails ==
    /\ \E command \in {"execute", "commit", "select"} : Take(command)
    /\ Reply("failed")
    /\ UNCHANGED <<rows, work, landed, seen, callVars, connection, request, crashes>>

UndoWork ==
    /\ Take("rollback")
    /\ work' = rows /\ Reply("done")
    /\ UNCHANGED <<rows, landed, seen, callVars, connection, request, crashes>>

\* Closing rolls an open transaction back.
CloseConnection ==
    /\ Take("close")
    /\ work' = rows /\ connection' = "closed"
    /\ UNCHANGED <<rows, reply, landed, seen, callVars, request, crashes>>

-----------------------------------------------------------------------------
(* The life of the connection and of the process.                          *)

\* Nobody is left who uses the connection of before.
Initialize ==
    /\ connection = "none" /\ queue = <<>> /\ lock = None
    /\ connection' = "open"
    /\ UNCHANGED <<dbVars, callVars, queue, request, crashes>>

\* close() takes no lock.
Close ==
    /\ connection = "open" /\ connection' = "closing"
    /\ queue' = Append(queue, [call |-> None, command |-> "close", step |-> 1])
    /\ UNCHANGED <<dbVars, callVars, request, crashes>>

EndClose ==
    /\ connection = "closed" /\ connection' = "none"
    /\ UNCHANGED <<dbVars, callVars, queue, request, crashes>>

\* SQLite's journal keeps what was committed and nothing else.
Crash ==
    /\ crashes < MaxCrashes /\ crashes' = crashes + 1
    /\ work' = rows /\ queue' = <<>> /\ connection' = "none" /\ lock' = None
    /\ pc' = [c \in Calls |-> IF pc[c] \in {"waiting", "cancelled"} \cup Active THEN "dead"
                              ELSE pc[c]]
    /\ UNCHANGED <<rows, reply, landed, seen, step, request>>

CallStep(c) ==
    RefuseClosed(c) \/ Begin(c) \/ Proceed(c) \/ Answer(c) \/ Fail(c) \/ Undone(c)

Worker == Execute \/ Commit \/ Select \/ CommandFails \/ UndoWork \/ CloseConnection

Next ==
    \/ \E c \in Calls : Ask(c) \/ CallStep(c) \/ Cancel(c)
    \/ Worker \/ Initialize \/ Close \/ EndClose \/ Crash

\* The loop runs what is ready and the worker thread executes what it is sent.
Fairness == (\A c \in Calls : WF_vars(CallStep(c))) /\ WF_vars(Worker) /\ WF_vars(EndClose)

Spec == Init /\ [][Next]_vars
FairSpec == Spec /\ Fairness

-----------------------------------------------------------------------------
(* Properties.                                                             *)

\* The backend is a StateStore: a call's effect is that of the in-memory backend
\* and comes at one moment, entirely or not at all, however its statements, its
\* cancellations, the failures of the database and the close interleave with others'.
Store == INSTANCE StateStore WITH
    Certain <- TRUE,
    status <- [c \in Calls |-> IF pc[c] \in {"waiting"} \cup Active THEN "asked" ELSE pc[c]]
ImplementsStateStore == Store!Spec

\* What a call that failed or was cancelled executed is in no transaction that
\* another could commit: when nobody is at work, none is open.
NothingIsLeftOpen == lock = None /\ queue = <<>> => work = rows

\* No call waits for ever, for the lock or for the worker.
CallsEnd == \A c \in Calls : pc[c] = "waiting" ~> pc[c] \in Ended

-----------------------------------------------------------------------------
(* Why NothingIsLeftOpen holds.                                            *)

\* The holder of the lock is the one call that is at work.
HolderAtWork == \A c \in Calls : pc[c] \in Active <=> lock = c

\* A call sends a command when the one before is executed, and none before it works.
OneAtATime ==
    \A c \in Calls :
        /\ pc[c] \in {"idle", "waiting"} => Settled(c)
        /\ pc[c] \in {"executing", "committing"} =>
                \A i, j \in DOMAIN queue : queue[i].call = c /\ queue[j].call = c => i = j

\* What is executed is a statement of the call that sent it.
StepsExist ==
    /\ \A c \in Calls : request[c].method # "read" =>
            step[c] \in 1..Len(Statements(request[c]))
    /\ \A c \in Calls : pc[c] \in {"executing", "committing"} => request[c].method # "read"
    /\ \A i \in DOMAIN queue :
            /\ queue[i].command # "close" => queue[i].call \in Calls
            /\ queue[i].command = "execute" =>
                    /\ request[queue[i].call].method # "read"
                    /\ queue[i].step \in 1..Len(Statements(request[queue[i].call]))

\* A rollback ends the transaction; so does the commit its call still waits for.
Resolves(i) ==
    \/ queue[i].command = "rollback"
    \/ /\ queue[i].command = "commit" /\ queue[i].call = lock
       /\ pc[queue[i].call] = "committing"

\* Whatever was executed, or will be, has its end in the queue behind it.
Covered ==
    /\ \A i \in DOMAIN queue : queue[i].command = "execute" =>
            \E j \in DOMAIN queue : j > i /\ Resolves(j)
    /\ work # rows => \E j \in DOMAIN queue : Resolves(j)

Writing == lock # None /\ pc[lock] = "executing"
CommitFailed == lock # None /\ pc[lock] = "committing" /\ Settled(lock) /\ reply[lock] = "failed"
Accounted == Covered \/ Writing \/ CommitFailed

IndInv == TypeOK /\ HolderAtWork /\ OneAtATime /\ StepsExist /\ Accounted

-----------------------------------------------------------------------------
(* Why ImplementsStateStore holds.                                         *)

\* What the first n statements of a request make of db.
After(db, q, n) ==
    IF n = 0 THEN db
    ELSE IF q.method = "prune" THEN {r \in db : \A i \in 1..n : ~Matches(r, Prune(q)[i])}
    ELSE Executed(db, Statements(q)[1])

\* The open transaction is c's, up to its n-th statement and nothing else.
Ran(c, n) ==
    /\ work = After(rows, request[c], n)
    /\ n > 0 => ~PrimaryKeyFails(rows, Statements(request[c])[1])

OnlyCloses(from) == \A k \in DOMAIN queue : k >= from => queue[k].command = "close"

\* A command at this place will find no transaction open: none is, and none is begun
\* before it, or a rollback is the last thing to happen to one.
Harmless(from, to) ==
    \A k \in DOMAIN queue : from < k /\ k < to => queue[k].command \in {"select", "close"}
Clean(place) ==
    \/ work = rows /\ Harmless(0, place)
    \/ \E j \in DOMAIN queue : /\ j < place /\ queue[j].command = "rollback"
                               /\ Harmless(j, place)

\* Whoever may begin next finds no transaction open.
NextIsClean ==
    lock = None \/ pc[lock] \in {"reading", "undoing", "unwinding"} => Clean(Len(queue) + 1)

\* The holder's statements are executed one after the other and nothing between them.
InTurn(c, i) ==
    /\ queue[i].command = "execute" /\ queue[i].step = step[c] /\ OnlyCloses(i + 1)
    /\ step[c] = 1 => Clean(i)
    /\ step[c] > 1 => Harmless(0, i) /\ (Usable => Ran(c, step[c] - 1))
ExecutesInTurn ==
    \A c \in Calls :
        /\ pc[c] \in {"idle", "waiting"} => step[c] = 1
        /\ pc[c] = "executing" =>
            /\ \A i \in DOMAIN queue : queue[i].call = c => InTurn(c, i)
            /\ Settled(c) /\ reply[c] = "done" =>
                    OnlyCloses(1) /\ (Usable => Ran(c, step[c]))

\* A commit, also of a call that was cancelled, is of all its statements.
Whole(i) ==
    LET c == queue[i].call
    IN  /\ pc[c] \in {"committing", "unwinding", "cancelled"} /\ c \notin landed
        /\ request[c].method # "read"
        /\ \A k \in DOMAIN queue : k < i => queue[k].command = "close"
        /\ Usable => Ran(c, Len(Statements(request[c])))
CommitsWhole == \A i \in DOMAIN queue : queue[i].command = "commit" => Whole(i)

\* A read sees what is committed, once.
Fresh(i) ==
    LET c == queue[i].call
    IN  /\ pc[c] \in {"reading", "cancelled"} /\ c \notin landed
        /\ request[c].method = "read" /\ Clean(i)
        /\ \A j \in DOMAIN queue : queue[j].call = c => j = i
ReadsCommitted == \A i \in DOMAIN queue : queue[i].command = "select" => Fresh(i)

\* What a call is told is what happened.
Told(c) ==
    /\ pc[c] \in {"idle", "waiting", "executing", "undoing"} => c \notin landed
    /\ pc[c] = "committing" =>
        /\ \A i \in DOMAIN queue : queue[i].call = c =>
                queue[i].command = "commit" /\ OnlyCloses(i + 1)
        /\ Settled(c) /\ reply[c] = "done" => OnlyCloses(1) /\ work = rows
    /\ pc[c] = "reading" =>
            \A i \in DOMAIN queue : queue[i].call = c => queue[i].command = "select"
    /\ pc[c] = "undoing" =>
            \A i \in DOMAIN queue : queue[i].call = c => queue[i].command = "rollback"
    /\ pc[c] \in {"committing", "reading"} /\ Settled(c) => (c \in landed <=> reply[c] = "done")
ToldTruly == \A c \in Calls : Told(c)

StoreInv ==
    NextIsClean /\ ExecutesInTurn /\ CommitsWhole /\ ReadsCommitted /\ ToldTruly
=============================================================================

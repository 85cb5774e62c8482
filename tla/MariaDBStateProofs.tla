------------------------- MODULE MariaDBStateProofs -------------------------
(***************************************************************************)
(* For any hosts, calls, requests, collation and number of cancellations:  *)
(* two threads use a host's connection only after a second cancellation,   *)
(* no call works in another's transaction unless they did, and until they  *)
(* do, the hosts together are a StateStore.                                *)
(***************************************************************************)
EXTENDS MariaDBState, TLAPS

USE DEF WaitsItOut, Rollback, Begun, hostVars

\* The methods that write one row, and their tables.
LEMMA TablesOfMethods ==
    /\ DOMAIN Upserts = {"save_checkpoint", "save_capabilities", "save_plan", "save_plugin"}
    /\ DOMAIN Deletes = {"delete_checkpoint", "invalidate_capabilities"}
    /\ DOMAIN Inserts = {"save_operation", "save_query"}
    /\ \A m \in DOMAIN Upserts : Upserts[m] \in {"checkpoints", "capabilities", "plans", "plugins"}
    /\ \A m \in DOMAIN Inserts : Inserts[m] \in {"operations", "queries"}
  BY DEF Upserts, Deletes, Inserts

\* What a statement of its own leaves in the database.
LEMMA ExecutedRows ==
    ASSUME NEW q \in Requests, q.method # "prune", rows \subseteq Row
    PROVE  Executed(q) \subseteq Row
<1> DEFINE Tables == {"checkpoints", "operations", "capabilities", "plans", "queries", "plugins"}
<1>1. q.method \in Methods /\ q.key \in Keys /\ q.time \in Nat
  BY ConstantsAssumption DEF Keys
<1>2. \A table \in Tables : New(table, q) \in Row
  BY <1>1 DEF New, Row
<1>3. ASSUME NEW table \in Tables
      PROVE  Upserted(table, q) \subseteq Row
  <2>1. \A r \in At(table, q.key) : r \in Row /\ [r EXCEPT !.time = q.time] \in Row
    BY <1>1 DEF At, Row
  <2>2. {[r EXCEPT !.time = q.time] : r \in At(table, q.key)} \subseteq Row
    BY <2>1
  <2>3. rows \cup {New(table, q)} \subseteq Row /\ rows \ At(table, q.key) \subseteq Row
    BY <1>2
  <2> QED BY <2>2, <2>3 DEF Upserted
<1>4. CASE q.method \in DOMAIN Upserts
  <2>1. Executed(q) = Upserted(Upserts[q.method], q) /\ Upserts[q.method] \in Tables
    BY <1>4, TablesOfMethods DEF Executed
  <2> QED BY <1>3, <2>1
<1>5. CASE q.method \in DOMAIN Deletes
  <2>1. Executed(q) = rows \ At(Deletes[q.method], q.key)
    BY <1>5, TablesOfMethods DEF Executed
  <2> QED BY <2>1
<1>6. CASE q.method \in DOMAIN Inserts
  <2>1. Executed(q) = rows \cup {New(Inserts[q.method], q)} /\ Inserts[q.method] \in Tables
    BY <1>6, TablesOfMethods DEF Executed
  <2> QED BY <1>2, <2>1
<1>7. CASE q.method = "read"
  <2>1. Executed(q) = rows
    BY <1>7, TablesOfMethods DEF Executed
  <2> QED BY <2>1
<1> QED BY <1>1, <1>4, <1>5, <1>6, <1>7, TablesOfMethods DEF Methods

-----------------------------------------------------------------------------
(* The parts of the invariant, one lemma each.                             *)

\* A thread that was answered ends, or sends its next command, which is of a prune.
LEMMA ThreadMoves ==
    ASSUME NEW c \in Calls, NextCommand(c) \/ CommandFailed(c)
    PROVE  \/ \E t \in Over : Ends(c, t)
           \/ thread[c] # "executing" /\ \E t \in Busy \ {"executing"} : Sends(c, t)
<1>1. CASE NextCommand(c)
  BY <1>1 DEF NextCommand, Busy, Over
<1>2. CASE CommandFailed(c)
  BY <1>2 DEF CommandFailed, Busy, Over
<1> QED BY <1>1, <1>2

\* A step keeps every variable in its type.
LEMMA TypeStep ==
    ASSUME TypeOK, Prunes, [Next]_vars
    PROVE  TypeOK'
<1> USE ConstantsAssumption DEF TypeOK, Pending, Busy, Over, Ended, Move, Unlock, inputs,
                                callVars, threadVars, serverVars
<1>1. ASSUME NEW c \in Calls, Ask(c) \/ RefuseClosed(c) \/ StartThread(c) \/ Return(c)
      PROVE  TypeOK'
  <2>1. CASE Ask(c) \/ RefuseClosed(c)
    BY <2>1 DEF Ask, RefuseClosed
  <2>2. CASE StartThread(c)
    BY <2>2 DEF StartThread, FirstCommand, Share
  <2>3. CASE Return(c)
    <3>1. \E p \in Ended : pc' = [pc EXCEPT ![c] = p]
      BY <2>3 DEF Return
    <3> QED BY <2>3, <3>1 DEF Return
  <2> QED BY <1>1, <2>1, <2>2, <2>3
<1>2. ASSUME NEW c \in Calls, Cancel(c)
      PROVE  TypeOK'
  <2>1. cancels' \in [Calls -> 0..MaxCancels]
    BY <1>2 DEF Cancel
  <2>2. pc' \in [Calls -> {"idle"} \cup Pending \cup Ended]
        /\ lock' \in [Hosts -> Calls \cup {None}]
    BY <1>2 DEF Cancel
  <2> QED BY <1>2, <2>1, <2>2 DEF Cancel
<1>3. ASSUME NEW c \in Calls, NextCommand(c)
      PROVE  TypeOK'
  <2>1. step' \in [Calls -> 1..4]
    BY <1>3 DEF NextCommand
  <2>2. thread' \in [Calls -> {"none"} \cup Busy \cup Over]
        /\ reply' \in [Calls -> {"awaited", "executed", "refused", "lost"}]
    BY <1>3 DEF NextCommand, Sends, Ends
  <2> QED BY <1>3, <2>1, <2>2 DEF NextCommand
<1>4. ASSUME NEW c \in Calls, CommandFailed(c) \/ Decline(c) \/ Garble(c)
      PROVE  TypeOK'
  BY <1>4 DEF CommandFailed, Sends, Ends, Decline, Garble, Reply
<1>5. ASSUME NEW c \in Calls, Execute(c), request[c].method # "prune"
      PROVE  rows' \subseteq Row /\ begun' \subseteq Calls /\ deletes' \in [Calls -> SUBSET Row]
             /\ landed' \subseteq Calls /\ seen' \in [Calls -> SUBSET Row]
  BY <1>5, ExecutedRows DEF Execute, Land
<1>6. ASSUME NEW c \in Calls, Commit(c) \/ UndoTransaction(c) \/ BeginTransaction(c) \/ Delete(c)
      PROVE  rows' \subseteq Row /\ begun' \subseteq Calls /\ deletes' \in [Calls -> SUBSET Row]
             /\ landed' \subseteq Calls /\ seen' \in [Calls -> SUBSET Row]
  <2>1. CASE Commit(c)
    BY <2>1 DEF Commit, Land
  <2>2. CASE UndoTransaction(c) \/ BeginTransaction(c)
    BY <2>2 DEF UndoTransaction, BeginTransaction
  <2>3. CASE Delete(c)
    <3> DEFINE aged == Aged(PruneStatements[step[c]], request[c].time)
    <3>1. aged \subseteq rows
      BY DEF Aged
    <3>2. \/ deletes' = [deletes EXCEPT ![c] = @ \cup aged] /\ UNCHANGED rows
          \/ rows' = rows \ aged /\ UNCHANGED deletes
      BY <2>3 DEF Delete
    <3>3. UNCHANGED <<begun, landed, seen>>
      BY <2>3 DEF Delete
    <3> HIDE DEF aged
    <3> QED BY <3>1, <3>2, <3>3
  <2> QED BY <1>6, <2>1, <2>2, <2>3
<1>7. ASSUME NEW c \in Calls, Serve(c)
      PROVE  TypeOK'
  <2>1. thread[c] = "executing" => request[c].method # "prune"
    BY DEF Prunes
  <2> QED BY <1>5, <1>6, <1>7, <2>1 DEF Serve, Sent, Reply
<1>8. ASSUME NEW c \in Calls, ServeLate(c) \/ DropLate(c)
      PROVE  TypeOK'
  BY <1>5, <1>6, <1>8 DEF ServeLate, DropLate
<1>9. ASSUME NEW h \in Hosts, Connect(h)
      PROVE  TypeOK'
  BY <1>9 DEF Connect
<1>10. ASSUME NEW h \in Hosts, Lose(h) \/ Close(h) \/ Crash(h)
       PROVE  TypeOK'
  <2>1. late' \subseteq Calls /\ begun' \subseteq Calls /\ deletes' \in [Calls -> SUBSET Row]
        /\ UNCHANGED <<rows, landed, seen>>
    BY <1>10 DEF Lose, Close, Break, Crash, Disconnect, On
  <2>2. CASE Lose(h) \/ Close(h)
    BY <2>1, <2>2 DEF Lose, Close, Break, Share
  <2>3. CASE Crash(h)
    <3>1. pc' \in [Calls -> {"idle"} \cup Pending \cup Ended]
      BY <2>3 DEF Crash
    <3>2. thread' \in [Calls -> {"none"} \cup Busy \cup Over]
          /\ reply' \in [Calls -> {"awaited", "executed", "refused", "lost"}]
      BY <2>3 DEF Crash
    <3> QED BY <2>1, <2>3, <3>1, <3>2 DEF Crash
  <2> QED BY <1>10, <2>2, <2>3
<1>11. CASE UNCHANGED vars
  BY <1>11 DEF vars
<1> QED BY <1>1, <1>2, <1>3, <1>4, <1>7, <1>8, <1>9, <1>10, <1>11
        DEF Next, CallStep, ThreadStep, ServerStep

\* The lock goes with the coroutine, and the coroutine stays with its thread until it is
\* cancelled again.
LEMMA WaitedForStep ==
    ASSUME TypeOK, ThreadIsWaitedFor, [Next]_vars
    PROVE  ThreadIsWaitedFor'
<1> USE ConstantsAssumption DEF TypeOK, ThreadIsWaitedFor, Pending, Busy, Over, Ended, Move, Unlock,
                                inputs, callVars, threadVars
<1>1. ASSUME NEW c \in Calls, Ask(c) \/ RefuseClosed(c)
      PROVE  ThreadIsWaitedFor'
  BY <1>1 DEF Ask, RefuseClosed
<1>2. ASSUME NEW c \in Calls, StartThread(c)
      PROVE  ThreadIsWaitedFor'
  BY <1>2 DEF StartThread, FirstCommand
<1>3. ASSUME NEW c \in Calls, Return(c)
      PROVE  ThreadIsWaitedFor'
  <2>1. \E p \in Ended : pc' = [pc EXCEPT ![c] = p]
    BY <1>3 DEF Return
  <2> QED BY <1>3, <2>1 DEF Return
<1>4. ASSUME NEW c \in Calls, Cancel(c)
      PROVE  ThreadIsWaitedFor'
  <2>1. cancels' = [cancels EXCEPT ![c] = cancels[c] + 1] /\ cancels[c] + 1 >= 1
        /\ \A d \in Calls : cancels'[d] >= cancels[d]
    BY <1>4 DEF Cancel
  <2>2. CASE pc[c] = "waiting"
    BY <1>4, <2>1, <2>2 DEF Cancel
  <2>3. CASE pc[c] = "running"
    BY <1>4, <2>1, <2>3 DEF Cancel
  <2>4. CASE pc[c] = "draining"
    <3>1. cancels[c] + 1 >= 2
      BY <2>4
    <3> QED BY <1>4, <2>1, <2>4, <3>1 DEF Cancel
  <2> QED BY <1>4, <2>1, <2>2, <2>3, <2>4 DEF Cancel
<1>5. ASSUME NEW c \in Calls, NextCommand(c) \/ CommandFailed(c)
      PROVE  ThreadIsWaitedFor'
  <2>1. thread[c] \in Busy /\ UNCHANGED <<pc, lock, cancels, home>>
    BY <1>5 DEF NextCommand, CommandFailed
  <2>2. \E t : thread' = [thread EXCEPT ![c] = t]
    BY <1>5, ThreadMoves DEF Sends, Ends
  <2>3. \A d \in Calls : thread'[d] \in Busy => thread[d] \in Busy
    BY <2>1, <2>2
  <2> QED BY <2>1, <2>3
<1>6. ASSUME NEW c \in Calls, ServerStep(c)
      PROVE  ThreadIsWaitedFor'
  BY <1>6 DEF ServerStep, Serve, Decline, ServeLate, DropLate, Garble, serverVars
<1>7. ASSUME NEW h \in Hosts, Connect(h) \/ Close(h) \/ Lose(h)
      PROVE  ThreadIsWaitedFor'
  BY <1>7 DEF Connect, Close, Lose, Break
<1>8. ASSUME NEW h \in Hosts, Crash(h)
      PROVE  ThreadIsWaitedFor'
  BY <1>8 DEF Crash, On
<1>9. CASE UNCHANGED vars
  BY <1>9 DEF vars
<1> QED BY <1>1, <1>2, <1>3, <1>4, <1>5, <1>6, <1>7, <1>8, <1>9
        DEF Next, CallStep, ThreadStep

\* A host that is noted stays so.
LEMMA Notes ==
    ASSUME [Next]_vars
    PROVE  shared \subseteq shared'
<1>1. \A h : Share(h) => shared \subseteq shared'
  BY DEF Share
<1>2. ASSUME NEW c \in Calls, CallStep(c) \/ ThreadStep(c)
      PROVE  shared \subseteq shared'
  BY <1>1, <1>2 DEF CallStep, Ask, RefuseClosed, StartThread, Return, Cancel, ThreadStep, NextCommand,
                    CommandFailed
<1>3. ASSUME NEW c \in Calls, ServerStep(c)
      PROVE  shared \subseteq shared'
  BY <1>3 DEF ServerStep, Serve, Decline, ServeLate, DropLate, Garble
<1>4. ASSUME NEW h \in Hosts, Connect(h) \/ Lose(h) \/ Close(h) \/ Crash(h)
      PROVE  shared \subseteq shared'
  BY <1>1, <1>4 DEF Connect, Lose, Close, Crash
<1> QED BY <1>2, <1>3, <1>4 DEF Next, vars

\* Two threads on one host are noted as the second of them starts.
LEMMA SharedStep ==
    ASSUME TypeOK, ThreadIsWaitedFor, SharedIsTold, [Next]_vars
    PROVE  SharedIsTold'
<1> USE DEF TypeOK, SharedIsTold, inputs
<1>1. ASSUME \A d \in Calls : thread'[d] \in Busy => thread[d] \in Busy, UNCHANGED home
      PROVE  SharedIsTold'
  BY <1>1, Notes
<1>2. ASSUME NEW c \in Calls, StartThread(c)
      PROVE  SharedIsTold'
  <2>1. UNCHANGED home /\ \A d \in Calls : d # c => thread'[d] = thread[d]
    BY <1>2 DEF StartThread
  <2>2. ASSUME NEW d \in Calls, d # c, home[d] = home[c], thread[d] \in Busy
        PROVE  home[c] \in shared'
    BY <1>2, <2>2 DEF StartThread, Share, On
  <2> QED BY <2>1, <2>2, Notes
<1>3. ASSUME NEW c \in Calls, CallStep(c)
      PROVE  SharedIsTold'
  BY <1>1, <1>2, <1>3 DEF CallStep, Ask, RefuseClosed, Return, Cancel, threadVars
<1>4. ASSUME NEW c \in Calls, ThreadStep(c)
      PROVE  SharedIsTold'
  <2>1. thread[c] \in Busy /\ UNCHANGED home
    BY <1>4 DEF ThreadStep, NextCommand, CommandFailed
  <2>2. \E t : thread' = [thread EXCEPT ![c] = t]
    BY <1>4, ThreadMoves DEF ThreadStep, Sends, Ends
  <2> QED BY <1>1, <2>1, <2>2
<1>5. ASSUME NEW c \in Calls, ServerStep(c)
      PROVE  SharedIsTold'
  BY <1>1, <1>5 DEF ServerStep, Serve, Decline, ServeLate, DropLate, Garble, threadVars
<1>6. ASSUME NEW h \in Hosts, Connect(h) \/ Lose(h) \/ Close(h) \/ Crash(h)
      PROVE  SharedIsTold'
  BY <1>1, <1>6 DEF Connect, Lose, Close, Break, Crash, threadVars, Busy
<1>7. CASE UNCHANGED vars
  BY <1>1, <1>7 DEF vars, threadVars
<1> QED BY <1>3, <1>4, <1>5, <1>6, <1>7 DEF Next

\* A command that cannot be sent is not waited for.
LEMMA SentStep ==
    ASSUME TypeOK, SentOnOpenConnection, ThreadIsWaitedFor, [Next]_vars
    PROVE  SentOnOpenConnection'
<1> USE ConstantsAssumption DEF TypeOK, SentOnOpenConnection, Sent, Pending, Busy, Over, Ended,
                                Move, inputs, callVars, threadVars
<1>1. ASSUME NEW c \in Calls, Ask(c) \/ RefuseClosed(c)
      PROVE  SentOnOpenConnection'
  BY <1>1 DEF Ask, RefuseClosed
<1>2. ASSUME NEW c \in Calls, StartThread(c)
      PROVE  SentOnOpenConnection'
  BY <1>2 DEF StartThread, FirstCommand
<1>3. ASSUME NEW c \in Calls, Return(c) \/ Cancel(c)
      PROVE  SentOnOpenConnection'
  <2>1. \E p \in Ended \cup {"draining"} : pc' = [pc EXCEPT ![c] = p]
    BY <1>3 DEF Return, Cancel
  <2> QED BY <1>3, <2>1 DEF Return, Cancel
<1>4. ASSUME NEW c \in Calls, NextCommand(c) \/ CommandFailed(c)
      PROVE  SentOnOpenConnection'
  <2>1. pc[c] \notin {"idle", "waiting"}
    BY <1>4 DEF NextCommand, CommandFailed, ThreadIsWaitedFor
  <2>2. UNCHANGED <<pc, connection, home>>
    BY <1>4 DEF NextCommand, CommandFailed
  <2>3. CASE \E t \in Over : Ends(c, t)
    BY <2>1, <2>2, <2>3 DEF Ends
  <2>4. CASE \E t \in Busy : Sends(c, t)
    BY <2>1, <2>2, <2>4 DEF Sends
  <2> QED BY <1>4, <2>3, <2>4, ThreadMoves
<1>5. ASSUME NEW c \in Calls, Serve(c) \/ Decline(c) \/ Garble(c)
      PROVE  SentOnOpenConnection'
  <2>1. UNCHANGED <<pc, thread, connection, home>> /\ pc[c] \notin {"idle", "waiting"}
    BY <1>5 DEF Serve, Decline, Garble, ThreadIsWaitedFor
  <2>2. \E answer \in {"executed", "refused"} : reply' = [reply EXCEPT ![c] = answer]
    BY <1>5 DEF Serve, Decline, Garble, Reply
  <2> QED BY <2>1, <2>2
<1>6. ASSUME NEW c \in Calls, ServeLate(c) \/ DropLate(c)
      PROVE  SentOnOpenConnection'
  BY <1>6 DEF ServeLate, DropLate
<1>7. ASSUME NEW h \in Hosts, Connect(h)
      PROVE  SentOnOpenConnection'
  BY <1>7 DEF Connect
<1>8. ASSUME NEW h \in Hosts, Lose(h) \/ Close(h)
      PROVE  SentOnOpenConnection'
  BY <1>8 DEF Lose, Close, Break, On, ThreadIsWaitedFor
<1>9. ASSUME NEW h \in Hosts, Crash(h)
      PROVE  SentOnOpenConnection'
  BY <1>9 DEF Crash, On
<1>10. CASE UNCHANGED vars
  BY <1>10 DEF vars
<1> QED BY <1>1, <1>2, <1>3, <1>4, <1>5, <1>6, <1>7, <1>8, <1>9, <1>10
        DEF Next, CallStep, ThreadStep, ServerStep

\* The phases of a prune's thread are its own, and only a prune opens a transaction.
LEMMA PrunesStep ==
    ASSUME TypeOK, Prunes, [Next]_vars
    PROVE  Prunes'
<1> USE DEF TypeOK, Prunes, Busy, Over, inputs, threadVars
<1>1. ASSUME NEW c \in Calls, CallStep(c)
      PROVE  Prunes'
  <2>1. UNCHANGED <<begun, request>>
    BY <1>1 DEF CallStep, Ask, RefuseClosed, StartThread, Return, Cancel, serverVars
  <2>2. CASE UNCHANGED thread
    BY <2>1, <2>2
  <2>3. CASE StartThread(c)
    BY <2>1, <2>3 DEF StartThread, FirstCommand
  <2> QED BY <1>1, <2>2, <2>3 DEF CallStep, Ask, RefuseClosed, Return, Cancel
<1>2. ASSUME NEW c \in Calls, ThreadStep(c)
      PROVE  Prunes'
  <2>1. UNCHANGED <<begun, request>> /\ thread[c] \in Busy
    BY <1>2 DEF ThreadStep, NextCommand, CommandFailed, serverVars
  <2>2. CASE \E t \in Over : Ends(c, t)
    BY <2>1, <2>2 DEF Ends
  <2>3. CASE thread[c] # "executing" /\ \E t \in Busy \ {"executing"} : Sends(c, t)
    BY <2>1, <2>3 DEF Sends
  <2> QED BY <1>2, <2>2, <2>3, ThreadMoves DEF ThreadStep
<1>3. ASSUME NEW c \in Calls, ServerStep(c)
      PROVE  Prunes'
  <2>1. UNCHANGED <<thread, request>>
    BY <1>3 DEF ServerStep, Serve, Decline, ServeLate, DropLate, Garble
  <2>2. begun' \subseteq begun \/ (begun' = begun \cup {c} /\ thread[c] = "beginning")
    <3>1. CASE Serve(c)
      <4>1. CASE thread[c] = "executing"
        BY <3>1, <4>1 DEF Serve, Execute
      <4>2. CASE thread[c] = "beginning"
        BY <3>1, <4>2 DEF Serve, BeginTransaction
      <4>3. CASE thread[c] = "deleting"
        BY <3>1, <4>3 DEF Serve, Delete
      <4>4. CASE thread[c] \in {"committing", "undoing"}
        BY <3>1, <4>4 DEF Serve, Commit, UndoTransaction
      <4> QED BY <3>1, <4>1, <4>2, <4>3, <4>4 DEF Serve, Sent
    <3>2. CASE Decline(c) \/ ServeLate(c) \/ DropLate(c) \/ Garble(c)
      BY <3>2 DEF Decline, ServeLate, DropLate, Garble, serverVars, Execute, Commit, UndoTransaction
    <3> QED BY <1>3, <3>1, <3>2 DEF ServerStep
  <2> QED BY <2>1, <2>2
<1>4. ASSUME NEW h \in Hosts, Connect(h) \/ Lose(h) \/ Close(h) \/ Crash(h)
      PROVE  Prunes'
  <2>1. begun' \subseteq begun /\ UNCHANGED request
    BY <1>4 DEF Connect, Lose, Close, Break, Crash, Disconnect, serverVars
  <2>2. \A c \in Calls : thread'[c] \in {thread[c], "none"}
    BY <1>4 DEF Connect, Lose, Close, Break, Crash
  <2> QED BY <2>1, <2>2
<1>5. CASE UNCHANGED vars
  BY <1>5 DEF vars, serverVars
<1> QED BY <1>1, <1>2, <1>3, <1>4, <1>5 DEF Next

\* A transaction ends before its thread, or with its connection.
LEMMA TransactionStep ==
    ASSUME TypeOK, ThreadIsWaitedFor, SentOnOpenConnection, Prunes, TransactionHasThread,
           [Next]_vars
    PROVE  TransactionHasThread'
<1> USE Notes DEF TypeOK, TransactionHasThread, Busy, Over, Sent, inputs, threadVars
<1>1. ASSUME NEW c \in Calls, Ask(c) \/ RefuseClosed(c) \/ Return(c) \/ Cancel(c)
      PROVE  TransactionHasThread'
  BY <1>1 DEF Ask, RefuseClosed, Return, Cancel, serverVars
<1>2. ASSUME NEW c \in Calls, StartThread(c)
      PROVE  TransactionHasThread'
  <2>1. c \notin begun \ late \/ home[c] \in shared
    BY <1>2 DEF StartThread, ThreadIsWaitedFor
  <2>2. UNCHANGED <<begun, late, connection, home, reply>>
    BY <1>2 DEF StartThread, serverVars
  <2>3. \A d \in Calls \ {c} : thread'[d] = thread[d]
    BY <1>2 DEF StartThread
  <2> QED BY <2>1, <2>2, <2>3
<1>3. ASSUME NEW c \in Calls, NextCommand(c)
      PROVE  TransactionHasThread'
  <2>1. UNCHANGED <<begun, late, connection, home>>
    BY <1>3 DEF NextCommand, serverVars
  <2>2. \A d \in Calls \ {c} : thread'[d] = thread[d] /\ reply'[d] = reply[d]
    BY <1>3, ThreadMoves DEF Sends, Ends
  <2>3. ASSUME c \in begun \ late, home[c] \notin shared
        PROVE  thread'[c] \in {"deleting", "committing"} /\ reply'[c] = "awaited"
    <3>1. thread[c] \in {"beginning", "deleting"} /\ connection[home[c]] = "open"
      BY <1>3, <2>3 DEF NextCommand
    <3> QED BY <1>3, <3>1 DEF NextCommand, Sends
  <2> QED BY <2>1, <2>2, <2>3
<1>4. ASSUME NEW c \in Calls, CommandFailed(c)
      PROVE  TransactionHasThread'
  <2>1. UNCHANGED <<begun, late, connection, home>>
    BY <1>4 DEF CommandFailed, serverVars
  <2>2. \A d \in Calls \ {c} : thread'[d] = thread[d] /\ reply'[d] = reply[d]
    BY <1>4, ThreadMoves DEF Sends, Ends
  <2>3. ASSUME c \in begun \ late, home[c] \notin shared
        PROVE  thread'[c] = "undoing" /\ reply'[c] = "awaited"
    BY <1>4, <2>3 DEF CommandFailed, Sends
  <2> QED BY <2>1, <2>2, <2>3
<1>5. ASSUME NEW c \in Calls, Serve(c)
      PROVE  TransactionHasThread'
  <2>1. UNCHANGED <<late, connection, home, thread>> /\ reply' = [reply EXCEPT ![c] = "executed"]
    BY <1>5 DEF Serve, Reply
  <2>2. connection[home[c]] = "open" /\ reply[c] = "awaited"
    BY <1>5 DEF Serve, SentOnOpenConnection
  <2>3. begun' \ {c} = begun \ {c}
    BY <1>5 DEF Serve, Execute, BeginTransaction, Delete, Commit, UndoTransaction
  <2>4. c \in begun' \ late' => home[c] \in shared \/ thread[c] \in {"beginning", "deleting"}
    <3>1. CASE thread[c] \in {"committing", "undoing"}
      BY <1>5, <3>1 DEF Serve, Commit, UndoTransaction
    <3>2. CASE thread[c] = "executing"
      BY <1>5, <2>1, <3>2 DEF Serve, Execute
    <3> QED BY <1>5, <3>1, <3>2 DEF Serve
  <2> QED BY <2>1, <2>2, <2>3, <2>4
<1>6. ASSUME NEW c \in Calls, Decline(c)
      PROVE  TransactionHasThread'
  <2>1. UNCHANGED <<begun, late, connection, home, thread>>
        /\ reply' = [reply EXCEPT ![c] = "refused"]
    BY <1>6 DEF Decline, Reply, serverVars
  <2>2. c \in begun \ late => home[c] \in shared \/ thread[c] \in {"deleting", "committing"}
    BY <1>6 DEF Decline
  <2> QED BY <2>1, <2>2
<1>7. ASSUME NEW c \in Calls, ServeLate(c) \/ DropLate(c)
      PROVE  TransactionHasThread'
  <2>1. UNCHANGED <<connection, home, thread, reply>> /\ late' = late \ {c}
    BY <1>7 DEF ServeLate, DropLate
  <2>2. begun' \subseteq begun /\ c \notin begun'
    BY <1>7 DEF ServeLate, DropLate, Execute, Commit, UndoTransaction, Prunes
  <2> QED BY <2>1, <2>2
<1>8. ASSUME NEW h \in Hosts, Connect(h)
      PROVE  TransactionHasThread'
  BY <1>8 DEF Connect, serverVars
<1>11. ASSUME NEW c \in Calls, Garble(c)
       PROVE  TransactionHasThread'
  <2>1. UNCHANGED <<begun, connection, home, thread>> /\ late \subseteq late'
        /\ home[c] \in shared /\ \A d \in Calls \ {c} : reply'[d] = reply[d]
    BY <1>11 DEF Garble, Reply
  <2> QED BY <2>1
<1>9. ASSUME NEW h \in Hosts, Lose(h) \/ Close(h) \/ Crash(h)
      PROVE  TransactionHasThread'
  <2>1. \A d \in begun' \ late' : d \in begun \ late /\ home[d] # h
    BY <1>9 DEF Lose, Close, Break, Crash, Disconnect, On
  <2>2. \A d \in Calls : home[d] # h =>
            thread'[d] = thread[d] /\ reply'[d] = reply[d]
            /\ connection'[home[d]] = connection[home[d]] /\ home'[d] = home[d]
    BY <1>9 DEF Lose, Close, Break, Crash, On
  <2> QED BY <2>1, <2>2
<1>10. CASE UNCHANGED vars
  BY <1>10 DEF vars, serverVars
<1> QED BY <1>1, <1>2, <1>3, <1>4, <1>5, <1>6, <1>7, <1>8, <1>9, <1>10, <1>11
        DEF Next, CallStep, ThreadStep, ServerStep

-----------------------------------------------------------------------------
(* The theorems.                                                           *)

\* It holds at the start.
LEMMA Initially ==
    Init => IndInv
  BY ConstantsAssumption DEF Init, IndInv, TypeOK, ThreadIsWaitedFor, SharedIsTold,
        SentOnOpenConnection, Prunes, TransactionHasThread, Busy, Over, Sent

\* The invariant holds whatever is called, cancelled, refused, lost and crashes.
THEOREM Invariance ==
    Spec => []IndInv
<1>1. IndInv /\ [Next]_vars => IndInv'
  BY TypeStep, WaitedForStep, SharedStep, SentStep, PrunesStep, TransactionStep DEF IndInv
<1> QED BY Initially, <1>1, PTL DEF Spec

\* Every variable keeps its type, and only a prune has a transaction, however often a call
\* is cancelled.
THEOREM TypeCorrect ==
    Spec => [](TypeOK /\ Prunes)
<1>1. Init => TypeOK /\ Prunes
  BY Initially DEF IndInv
<1>2. TypeOK /\ Prunes /\ [Next]_vars => (TypeOK /\ Prunes)'
  BY TypeStep, PrunesStep
<1> QED BY <1>1, <1>2, PTL DEF Spec

\* Two threads are on one connection only if one of their calls was cancelled twice: else both
\* would hold their host's lock.
THEOREM OneThread ==
    Spec => []SharesOnlyAfterSecondCancel
<1>1. IndInv => SharesOnlyAfterSecondCancel
  BY DEF IndInv, ThreadIsWaitedFor, SharesOnlyAfterSecondCancel
<1> QED BY Invariance, <1>1, PTL

\* A transaction that is open has its own thread, and there is one thread where none shared
\* the connection.
THEOREM NothingInherited ==
    Spec => []NoTransactionInherited
<1>1. IndInv => NoTransactionInherited
  <2>1. IndInv => \A d \in begun \ late : d \in Calls /\ (home[d] \notin shared => thread[d] \in Busy)
    BY DEF IndInv, TypeOK, TransactionHasThread, Busy
  <2> QED BY <2>1 DEF IndInv, SharedIsTold, NoTransactionInherited
<1> QED BY Invariance, <1>1, PTL

-----------------------------------------------------------------------------
(* What the steps do to the transactions on the server.                    *)

\* A prune deletes table by table.
LEMMA PrunedNext ==
    ASSUME NEW c \in Calls, NEW n \in 1..4
    PROVE  Pruned(c, n - 1) \cup Aged(PruneStatements[n], request[c].time) = Pruned(c, n)
<1>1. 1..n = 1..(n - 1) \cup {n}
  OBVIOUS
<1> QED BY <1>1 DEF Pruned, Aged

\* What is left out while nobody shares a connection.
LEMMA NobodyShares ==
    ASSUME [Next]_vars, shared' = {}
    PROVE  /\ shared = {} /\ \A c \in Calls : ~Garble(c)
           /\ \A h \in Hosts : Close(h) => \A c \in On(h) : thread[c] \notin Busy
  BY Notes DEF Garble, Close, Share

\* What the server does to the transactions, as it executes a command.
LEMMA ServerTransactions ==
    ASSUME NEW c \in Calls, ServerStep(c), ~Garble(c), Prunes, TypeOK
    PROVE  \/ begun' = begun
           \/ Serve(c) /\ thread[c] = "beginning" /\ begun \subseteq {c} /\ begun' = begun \cup {c}
           \/ begun' = begun \ {c}
<1> USE DEF Prunes, Sent, Busy
<1>1. CASE Serve(c)
  <2>1. CASE thread[c] = "executing"
    BY <1>1, <2>1 DEF Serve, Execute
  <2>2. CASE thread[c] = "beginning"
    BY <1>1, <2>2 DEF Serve, BeginTransaction, Unlocked
  <2>3. CASE thread[c] = "deleting"
    BY <1>1, <2>3 DEF Serve, Delete
  <2>4. CASE thread[c] \in {"committing", "undoing"}
    BY <1>1, <2>4 DEF Serve, Commit, UndoTransaction
  <2> QED BY <1>1, <2>1, <2>2, <2>3, <2>4 DEF Serve
<1>2. CASE Decline(c) \/ ServeLate(c) \/ DropLate(c)
  BY <1>2 DEF Decline, ServeLate, DropLate, serverVars, Execute, Commit, UndoTransaction
<1> QED BY <1>1, <1>2 DEF ServerStep

\* What the loss of a connection does to the transactions, and to the calls.
LEMMA LostTransactions ==
    ASSUME NEW h \in Hosts, Lose(h) \/ Close(h) \/ Crash(h)
    PROVE  /\ UNCHANGED <<rows, landed, seen, step, home, request>>
           /\ \A c \in Calls :
                /\ c \in late => c \in late'
                /\ c \in late' => \/ c \in late
                                  \/ /\ home[c] = h /\ Sent(c)
                                     /\ thread[c] \in {"executing", "committing"}
                /\ c \in begun' <=> c \in begun /\ (home[c] = h => c \in late')
                /\ deletes'[c] = IF c \in begun' THEN deletes[c] ELSE {}
<1>1. /\ late' = late \cup {c \in On(h) : Sent(c) /\ thread[c] \in {"executing", "committing"}}
      /\ begun' = begun \ (On(h) \ late')
      /\ deletes' = [c \in Calls |-> IF c \in begun' THEN deletes[c] ELSE {}]
      /\ UNCHANGED <<rows, landed, seen>>
  BY DEF Lose, Close, Break, Crash, Disconnect
<1>2. UNCHANGED <<step, home, request>>
  BY DEF Lose, Close, Break, Crash, inputs
<1>3. \A c \in Calls : c \in On(h) <=> home[c] = h
  BY DEF On
<1> QED BY <1>1, <1>2, <1>3

\* What it does to the calls and their threads.
LEMMA LostCalls ==
    ASSUME NEW h \in Hosts, Lose(h) \/ Close(h) \/ Crash(h), TypeOK, ThreadIsWaitedFor,
           [Next]_vars, shared' = {}, NEW c \in Calls
    PROVE  /\ home[c] # h => /\ connection'[home[c]] = connection[home[c]]
                             /\ thread'[c] = thread[c] /\ reply'[c] = reply[c] /\ pc'[c] = pc[c]
           /\ home[c] = h /\ thread'[c] \in Busy =>
                /\ connection'[h] = "lost" /\ thread'[c] = thread[c]
                /\ reply'[c] = IF Sent(c) THEN "lost" ELSE reply[c]
           /\ pc'[c] # pc[c] => pc'[c] = "dead"
           /\ thread'[c] \in {thread[c], "none"}
<1> USE DEF TypeOK, Busy, On
<1>1. CASE Lose(h)
  BY <1>1 DEF Lose, Break, callVars, inputs
<1>2. CASE Close(h)
  BY <1>2, NobodyShares DEF Close, Break, callVars, inputs
<1>3. CASE Crash(h)
  BY <1>3 DEF Crash, inputs
<1> QED BY <1>1, <1>2, <1>3

\* A transaction begins when no other is open.
LEMMA OneTransactionStep ==
    ASSUME TypeOK, Prunes, OneTransaction, [Next]_vars, shared' = {}
    PROVE  OneTransaction'
<1>1. ASSUME NEW c \in Calls, ServerStep(c)
      PROVE  OneTransaction'
  BY <1>1, ServerTransactions, NobodyShares DEF OneTransaction
<1>2. ASSUME NEW c \in Calls, CallStep(c) \/ ThreadStep(c)
      PROVE  UNCHANGED serverVars
  BY <1>2 DEF CallStep, Ask, RefuseClosed, StartThread, Return, Cancel, ThreadStep, NextCommand,
              CommandFailed, serverVars
<1>3. ASSUME NEW h \in Hosts, Connect(h) \/ Lose(h) \/ Close(h) \/ Crash(h)
      PROVE  begun' \subseteq begun
  BY <1>3 DEF Connect, Lose, Close, Crash, Break, Disconnect, serverVars
<1>4. CASE UNCHANGED vars
  BY <1>4 DEF vars, serverVars, OneTransaction
<1> QED BY <1>1, <1>2, <1>3, <1>4 DEF Next, OneTransaction, serverVars

\* While a transaction is open, its rows stay what they are.
LEMMA RowsStay ==
    ASSUME TypeOK, Prunes, SentOnOpenConnection, OneTransaction, WorksInTransaction, [Next]_vars,
           shared' = {}, NEW d \in begun, d \in begun'
    PROVE  UNCHANGED rows
<1> USE DEF TypeOK, Sent, Prunes, SentOnOpenConnection, OneTransaction, WorksInTransaction
<1>1. ASSUME NEW c \in Calls, Execute(c), request[c].method # "prune"
      PROVE  UNCHANGED rows
  <2>1. request[c].method = "read"
    BY <1>1 DEF Execute, Unlocked
  <2> QED BY <1>1, <2>1, TablesOfMethods DEF Execute, Executed
<1>2. ASSUME NEW c \in Calls, Serve(c)
      PROVE  UNCHANGED rows
  <2>1. CASE thread[c] = "executing"
    BY <1>1, <1>2, <2>1 DEF Serve, Execute, Busy
  <2>2. CASE thread[c] = "beginning"
    BY <1>2, <2>2 DEF Serve, BeginTransaction
  <2>3. CASE thread[c] = "deleting"
    <3>1. c \in begun
      BY <1>2, <2>3 DEF Serve
    <3> QED BY <1>2, <2>3, <3>1 DEF Serve, Delete
  <2>4. CASE thread[c] = "committing"
    <3>1. c \in begun
      BY <1>2, <2>4 DEF Serve
    <3> QED BY <1>2, <2>4, <3>1 DEF Serve, Commit
  <2>5. CASE thread[c] = "undoing"
    BY <1>2, <2>5 DEF Serve, UndoTransaction
  <2> QED BY <1>2, <2>1, <2>2, <2>3, <2>4, <2>5 DEF Serve, Busy
<1>3. ASSUME NEW c \in Calls, Decline(c) \/ ServeLate(c) \/ DropLate(c)
      PROVE  UNCHANGED rows
  <2>1. CASE Decline(c) \/ DropLate(c)
    BY <2>1 DEF Decline, DropLate, UndoTransaction, serverVars
  <2>2. CASE ServeLate(c) /\ request[c].method # "prune"
    BY <1>1, <2>2 DEF ServeLate
  <2>3. CASE ServeLate(c) /\ request[c].method = "prune"
    <3>1. c = d
      BY <2>3 DEF ServeLate
    <3> QED BY <2>3, <3>1 DEF ServeLate, Commit
  <2> QED BY <1>3, <2>1, <2>2, <2>3
<1>4. ASSUME NEW c \in Calls, CallStep(c) \/ ThreadStep(c)
      PROVE  UNCHANGED serverVars
  BY <1>4 DEF CallStep, Ask, RefuseClosed, StartThread, Return, Cancel, ThreadStep, NextCommand,
              CommandFailed, serverVars
<1>5. ASSUME NEW h \in Hosts, Connect(h) \/ Lose(h) \/ Close(h) \/ Crash(h)
      PROVE  UNCHANGED rows
  BY <1>5 DEF Connect, Lose, Close, Crash, Break, Disconnect, serverVars
<1>6. CASE UNCHANGED vars
  BY <1>6 DEF vars, serverVars
<1> QED BY <1>2, <1>3, <1>4, <1>5, <1>6, NobodyShares DEF Next, ServerStep, serverVars

-----------------------------------------------------------------------------
(* Transactions and those who work in them.                                *)

\* What a thread does that got its answer.
LEMMA ThreadDoes ==
    ASSUME TypeOK, SentOnOpenConnection, NEW c \in Calls, ThreadStep(c)
    PROVE  /\ thread[c] \in Busy /\ UNCHANGED <<callVars, serverVars, connection, inputs>>
           /\ \A d \in Calls : d # c => thread'[d] = thread[d] /\ reply'[d] = reply[d]
                                        /\ step'[d] = step[d]
           /\ \/ thread'[c] \in {"undoing", "failed"} /\ reply[c] # "awaited"
              \/ /\ thread'[c] = "done" /\ reply[c] = "executed"
                 /\ thread[c] \in {"executing", "committing"}
              \/ /\ reply[c] = "executed"
                 /\ reply'[c] = IF connection[home[c]] = "open" THEN "awaited" ELSE "lost"
                 /\ \/ thread[c] = "beginning" /\ thread'[c] = "deleting" /\ step'[c] = step[c]
                    \/ /\ thread[c] = "deleting" /\ thread'[c] = "deleting"
                       /\ step'[c] = step[c] + 1
                    \/ /\ thread[c] = "deleting" /\ thread'[c] = "committing" /\ step[c] = 4
                       /\ step'[c] = 4
<1> USE DEF TypeOK, Busy
<1>1. UNCHANGED <<callVars, serverVars, connection, inputs>> /\ thread[c] \in Busy
  BY DEF ThreadStep, NextCommand, CommandFailed
<1>2. CASE NextCommand(c)
  <2>1. CASE thread[c] \in {"executing", "committing"}
    BY <1>1, <1>2, <2>1 DEF NextCommand, Ends
  <2>2. CASE thread[c] = "beginning"
    BY <1>1, <1>2, <2>2 DEF NextCommand, Sends
  <2>3. CASE thread[c] = "deleting" /\ step[c] < 4
    BY <1>1, <1>2, <2>3 DEF NextCommand, Sends
  <2>4. CASE thread[c] = "deleting" /\ ~(step[c] < 4)
    BY <1>1, <1>2, <2>4 DEF NextCommand, Sends
  <2>5. CASE thread[c] = "undoing"
    BY <1>1, <1>2, <2>5 DEF NextCommand, Ends
  <2> QED BY <1>1, <2>1, <2>2, <2>3, <2>4, <2>5
<1>3. CASE CommandFailed(c)
  BY <1>1, <1>3 DEF CommandFailed, Sends, Ends
<1> QED BY <1>2, <1>3 DEF ThreadStep

\* What a call does that is asked, refused, started, over or cancelled.
LEMMA CallDoes ==
    ASSUME TypeOK, ThreadIsWaitedFor, SentOnOpenConnection, NEW c \in Calls, CallStep(c)
    PROVE  /\ UNCHANGED <<serverVars, connection, inputs, step, reply>>
           /\ \A d \in Calls : d # c => thread'[d] = thread[d] /\ pc'[d] = pc[d]
           /\ \/ /\ pc[c] = "waiting" /\ pc'[c] = "running" /\ reply[c] = "awaited"
                 /\ \/ thread'[c] = "failed"
                    \/ /\ thread'[c] \in {"beginning", "executing"} /\ thread[c] \notin Busy
                       /\ connection[home[c]] = "open"
              \/ /\ UNCHANGED thread
                 /\ \/ pc[c] = "idle" /\ pc'[c] = "waiting"
                    \/ pc'[c] = "answered" /\ thread[c] = "done"
                    \/ pc'[c] \in {"refused", "cancelled", "draining"}
<1> USE DEF TypeOK, ThreadIsWaitedFor, SentOnOpenConnection, serverVars, inputs, callVars, threadVars, Move, Pending,
            Over, Busy
<1>1. CASE Ask(c) \/ RefuseClosed(c)
  BY <1>1 DEF Ask, RefuseClosed
<1>2. CASE StartThread(c)
  BY <1>2 DEF StartThread, FirstCommand
<1>3. CASE Return(c)
  <2>1. /\ UNCHANGED <<thread, serverVars, connection, inputs, step, reply>>
        /\ \E p : pc' = [pc EXCEPT ![c] = p]
        /\ \/ pc'[c] = "answered" /\ thread[c] = "done"
           \/ pc'[c] \in {"refused", "cancelled"}
    BY <1>3 DEF Return
  <2> QED BY <2>1
<1>4. CASE Cancel(c)
  BY <1>4 DEF Cancel
<1> QED BY <1>1, <1>2, <1>3, <1>4 DEF CallStep

\* A prune keeps its transaction until its thread learns that it is lost.
LEMMA WorksInTransactionStep ==
    ASSUME IndInv, StoreInv, [Next]_vars, shared' = {}
    PROVE  WorksInTransaction'
<1> USE DEF IndInv, StoreInv, WorksInTransaction
<1> USE DEF TypeOK, inputs, serverVars, Busy
<1>1. ASSUME NEW c \in Calls, CallStep(c)
      PROVE  WorksInTransaction'
  BY <1>1, CallDoes
<1>2. ASSUME NEW c \in Calls, ThreadStep(c)
      PROVE  WorksInTransaction'
  BY <1>2, ThreadDoes DEF callVars
<1>3. ASSUME NEW c \in Calls, Serve(c) \/ Decline(c)
      PROVE  WorksInTransaction'
  <2>1. /\ UNCHANGED <<thread, connection, home, request, late>> /\ c \notin late
        /\ \/ Serve(c) /\ reply' = [reply EXCEPT ![c] = "executed"]
           \/ begun' = begun /\ reply' = [reply EXCEPT ![c] = "refused"]
    BY <1>3 DEF Serve, Decline, Reply, LandsOnce, Sent
  <2>2. CASE Serve(c)
    <3>1. thread[c] = "deleting" => begun' = begun /\ c \in begun
      BY <2>2 DEF Serve, Sent, Delete, SentOnOpenConnection
    <3>2. thread[c] = "beginning" => c \in begun'
      BY <2>2 DEF Serve, BeginTransaction
    <3>3. \A e \in Calls : e # c => (e \in begun' <=> e \in begun)
      BY <2>2, ServerTransactions, NobodyShares DEF ServerStep
    <3> QED BY <2>1, <2>2, <3>1, <3>2, <3>3
  <2> QED BY <2>1, <2>2
<1>4. ASSUME NEW c \in Calls, ServeLate(c) \/ DropLate(c)
      PROVE  WorksInTransaction'
  <2>1. UNCHANGED <<thread, reply, connection, home, request>> /\ late' = late \ {c}
        /\ (thread[c] \in Busy => reply[c] = "lost") /\ c \in late
    BY <1>4 DEF ServeLate, DropLate, LandsOnce, threadVars
  <2>2. \A e \in Calls : e # c => (e \in begun' <=> e \in begun)
    BY <1>4, ServerTransactions, NobodyShares DEF ServerStep
  <2> QED BY <2>1, <2>2
<1>5. ASSUME NEW h \in Hosts, Connect(h)
      PROVE  WorksInTransaction'
  BY <1>5 DEF Connect, threadVars
<1>6. ASSUME NEW h \in Hosts, Lose(h) \/ Close(h) \/ Crash(h)
      PROVE  WorksInTransaction'
  <2> SUFFICES ASSUME NEW d \in Calls
               PROVE  /\ thread'[d] \in Busy => connection'[home'[d]] # "none"
                      /\ /\ connection'[home'[d]] = "open"
                         /\ \/ thread'[d] = "beginning" /\ reply'[d] = "executed"
                            \/ thread'[d] = "deleting" /\ reply'[d] \in {"awaited", "executed"}
                            \/ thread'[d] = "committing" /\ reply'[d] = "awaited"
                         => d \in begun'
                      /\ d \in late' /\ request'[d].method = "prune" => d \in begun'
    OBVIOUS
  <2>1. d \in late' /\ request'[d].method = "prune" => d \in begun'
    <3>1. UNCHANGED request /\ (d \in begun' <=> d \in begun /\ (home[d] = h => d \in late'))
      BY <1>6, LostTransactions
    <3>2. ASSUME d \in late', request[d].method = "prune"
          PROVE  d \in begun
      <4>1. CASE d \in late
        BY <3>2, <4>1
      <4>2. CASE Sent(d) /\ thread[d] \in {"executing", "committing"}
        BY <3>2, <4>2 DEF Sent, SentOnOpenConnection, Prunes
      <4> QED BY <1>6, <3>2, <4>1, <4>2, LostTransactions
    <3> QED BY <3>1, <3>2
  <2>2. CASE home[d] # h
    BY <1>6, <2>1, <2>2, LostTransactions, LostCalls
  <2>3. CASE home[d] = h
    <3>1. thread'[d] \in Busy => connection'[h] = "lost"
      BY <1>6, <2>3, LostCalls
    <3> QED BY <1>6, <2>1, <2>3, <3>1, LostTransactions
  <2> QED BY <2>2, <2>3
<1>7. CASE UNCHANGED vars
  BY <1>7 DEF vars, threadVars
<1> QED BY <1>1, <1>2, <1>3, <1>4, <1>5, <1>6, <1>7, NobodyShares DEF Next, ServerStep

-----------------------------------------------------------------------------
(* What the transactions have deleted.                                     *)

\* What was deleted stays what should be, while its transaction is open.
LEMMA DeletesInOrderStep ==
    ASSUME IndInv, StoreInv, [Next]_vars, shared' = {}
    PROVE  DeletesInOrder'
<1> USE DEF IndInv, StoreInv
<1> DEFINE First(d) == pc[d] \in {"idle", "waiting"} \/ thread[d] = "beginning" => step[d] = 1
           Empty(d) == d \notin begun \/ thread[d] = "beginning" => deletes[d] = {}
           Doing(d) == /\ thread[d] = "deleting" /\ reply[d] = "awaited" =>
                            deletes[d] = Pruned(d, step[d] - 1)
                       /\ thread[d] = "deleting" /\ reply[d] = "executed" =>
                            deletes[d] = Pruned(d, step[d])
                       /\ (thread[d] = "committing" /\ reply[d] = "awaited") \/ d \in late =>
                            deletes[d] = Pruned(d, 4)
<1>1. \A d \in Calls : First(d) /\ Empty(d) /\ (d \in begun => Doing(d))
  BY DEF DeletesInOrder
<1>2. (\A d \in Calls : First(d)' /\ Empty(d)' /\ ((d \in begun)' => Doing(d)')) => DeletesInOrder'
  BY DEF DeletesInOrder
<1>3. \A d \in begun \cap begun' : \A n : UNCHANGED request => Pruned(d, n)' = Pruned(d, n)
  BY RowsStay DEF Pruned
<1>4. ASSUME NEW d \in Calls, UNCHANGED <<request, step>>, pc'[d] = pc[d], thread'[d] = thread[d],
             reply'[d] = reply[d], deletes'[d] = deletes[d], d \in begun' <=> d \in begun,
             d \in late' => d \in late
      PROVE  First(d)' /\ Empty(d)' /\ ((d \in begun)' => Doing(d)')
  BY <1>1, <1>3, <1>4
<1> HIDE DEF First, Empty, Doing
<1> USE DEF TypeOK, inputs, serverVars, Busy
<1>5. ASSUME NEW c \in Calls, CallStep(c)
      PROVE  DeletesInOrder'
  <2>1. UNCHANGED <<serverVars, connection, inputs, step, reply>>
        /\ \A d \in Calls : d # c => thread'[d] = thread[d] /\ pc'[d] = pc[d]
    BY <1>5, CallDoes
  <2>2. First(c)' /\ Empty(c)' /\ ((c \in begun)' => Doing(c)')
    <3>1. CASE UNCHANGED thread
      <4>1. pc'[c] \in {"idle", "waiting"} => pc[c] \in {"idle", "waiting"}
        BY <1>5, CallDoes
      <4> QED BY <1>1, <1>3, <2>1, <3>1, <4>1 DEF First, Empty, Doing
    <3>2. CASE pc[c] = "waiting" /\ thread'[c] \in {"failed", "beginning", "executing"}
      <4>1. c \notin begun
        BY <3>2, NobodyShares DEF TransactionHasThread, LandsOnce, ThreadIsWaitedFor
      <4> QED BY <1>1, <2>1, <3>2, <4>1 DEF First, Empty, Doing
    <3> QED BY <1>5, <3>1, <3>2, CallDoes
  <2> QED BY <1>2, <1>4, <2>1, <2>2
<1>6. ASSUME NEW c \in Calls, ThreadStep(c)
      PROVE  DeletesInOrder'
  <2>1. /\ thread[c] \in Busy /\ UNCHANGED <<callVars, serverVars, connection, inputs>>
        /\ \A d \in Calls : d # c => thread'[d] = thread[d] /\ reply'[d] = reply[d]
                                     /\ step'[d] = step[d]
        /\ pc[c] \notin {"idle", "waiting"}
    BY <1>6, ThreadDoes DEF ThreadIsWaitedFor
  <2>2. thread'[c] # "beginning"
    BY <1>6, ThreadDoes
  <2>3. First(c)' /\ Empty(c)'
    BY <1>1, <2>1, <2>2 DEF First, Empty, callVars
  <2>4. ASSUME c \in begun
        PROVE  Doing(c)'
    <3>1. \A n : Pruned(c, n)' = Pruned(c, n)
      BY <1>3, <2>1, <2>4
    <3>2. Doing(c) /\ UNCHANGED <<deletes, late>> /\ Empty(c) /\ First(c)
      BY <1>1, <2>1, <2>4
    <3>3. CASE thread'[c] \in {"undoing", "failed", "done"}
      BY <3>1, <3>2, <3>3 DEF Doing
    <3>4. CASE thread[c] = "beginning" /\ thread'[c] = "deleting" /\ step'[c] = step[c]
               /\ reply'[c] \in {"awaited", "lost"}
      <4>1. step'[c] = 1 /\ Pruned(c, 0) = {} /\ step'[c] - 1 = 0
        BY <3>2, <3>4 DEF First, Pruned
      <4>2. deletes'[c] = {} /\ c \notin late'
        BY <1>6, <3>2, <3>4, ThreadDoes DEF Empty, LandsOnce
      <4> QED BY <3>1, <3>4, <4>1, <4>2 DEF Doing
    <3>5. CASE thread[c] = "deleting" /\ thread'[c] = "deleting" /\ step'[c] = step[c] + 1
               /\ reply[c] = "executed" /\ reply'[c] \in {"awaited", "lost"}
      <4>1. step'[c] - 1 = step[c]
        BY <3>5
      <4> QED BY <3>1, <3>2, <3>5, <4>1 DEF Doing
    <3>6. CASE thread[c] = "deleting" /\ thread'[c] = "committing" /\ step[c] = 4
               /\ reply[c] = "executed" /\ reply'[c] \in {"awaited", "lost"}
      BY <3>1, <3>2, <3>6 DEF Doing
    <3> QED BY <1>6, <3>3, <3>4, <3>5, <3>6, ThreadDoes
  <2>5. ASSUME NEW d \in Calls, d # c
        PROVE  First(d)' /\ Empty(d)' /\ ((d \in begun)' => Doing(d)')
    BY <1>1, <1>3, <2>1, <2>5 DEF First, Empty, Doing, callVars
  <2> QED BY <1>2, <2>1, <2>3, <2>4, <2>5
<1>7. ASSUME NEW c \in Calls, Serve(c) \/ Decline(c)
      PROVE  DeletesInOrder'
  <2>1. /\ UNCHANGED <<thread, request, late, pc, step>> /\ Sent(c)
        /\ \E answer \in {"executed", "refused"} : reply' = [reply EXCEPT ![c] = answer]
    BY <1>7 DEF Serve, Decline, Reply, Sent, callVars
  <2>2. c \notin late
    BY <2>1 DEF LandsOnce, Sent
  <2>3. \A d \in Calls : d # c => (d \in begun' <=> d \in begun) /\ deletes'[d] = deletes[d]
    <3>1. CASE Decline(c)
      BY <3>1 DEF Decline
    <3>2. CASE Serve(c)
      <4>1. \A d \in Calls : d # c => (d \in begun' <=> d \in begun)
        BY <3>2, ServerTransactions, NobodyShares DEF ServerStep
      <4>2. UNCHANGED deletes \/ \E D : deletes' = [deletes EXCEPT ![c] = D]
        <5>1. CASE thread[c] \in {"executing", "beginning"}
          BY <3>2, <5>1 DEF Serve, Execute, BeginTransaction
        <5>2. CASE thread[c] = "deleting"
          BY <3>2, <5>2 DEF Serve, Delete
        <5>3. CASE thread[c] \in {"committing", "undoing"}
          BY <3>2, <5>3 DEF Serve, Commit, UndoTransaction
        <5> QED BY <2>1, <5>1, <5>2, <5>3 DEF Sent
      <4> QED BY <4>1, <4>2
    <3> QED BY <1>7, <3>1, <3>2
  <2>4. First(c)'
    BY <1>1, <2>1 DEF First
  <2>5. CASE Decline(c)
    <3>1. UNCHANGED <<begun, deletes>> /\ reply'[c] = "refused"
      BY <2>5 DEF Decline, Reply
    <3> QED BY <1>1, <1>2, <1>4, <2>1, <2>2, <2>4, <3>1 DEF Empty, Doing
  <2>6. CASE Serve(c)
    <3>1. reply'[c] = "executed"
      BY <2>6 DEF Serve, Reply
    <3>2. CASE thread[c] \in {"executing", "beginning"}
      <4>1. UNCHANGED deletes /\ c \in begun' => c \in begun \/ thread[c] = "beginning"
        BY <2>6, <3>2 DEF Serve, Execute, BeginTransaction
      <4>2. UNCHANGED deletes /\ (thread[c] = "executing" => begun' = begun)
        BY <2>6, <3>2 DEF Serve, Execute, BeginTransaction
      <4>3. Empty(c)' /\ ((c \in begun)' => Doing(c)')
        BY <1>1, <2>1, <2>2, <3>2, <4>2 DEF Empty, Doing
      <4> QED BY <1>2, <1>4, <2>1, <2>3, <2>4, <4>3
    <3>3. CASE thread[c] = "deleting"
      <4>1. c \in begun
        BY <2>1, <3>3 DEF Sent, SentOnOpenConnection, WorksInTransaction
      <4>2. /\ UNCHANGED <<begun, rows>>
            /\ deletes'[c] = deletes[c] \cup Aged(PruneStatements[step[c]], request[c].time)
        BY <2>6, <3>3, <4>1 DEF Serve, Delete
      <4>3. deletes[c] = Pruned(c, step[c] - 1) /\ step[c] \in 1..4
        BY <1>1, <2>1, <3>3, <4>1 DEF Doing, Sent
      <4>4. deletes'[c] = Pruned(c, step[c])
        BY <4>2, <4>3, PrunedNext
      <4>5. Pruned(c, step[c])' = Pruned(c, step[c])
        BY <1>3, <2>1, <4>1, <4>2 DEF Pruned
      <4>6. Empty(c)' /\ ((c \in begun)' => Doing(c)')
        BY <2>1, <2>2, <3>1, <3>3, <4>1, <4>2, <4>4, <4>5 DEF Empty, Doing
      <4> QED BY <1>2, <1>4, <2>1, <2>3, <2>4, <4>6
    <3>4. CASE thread[c] \in {"committing", "undoing"}
      <4>1. c \notin begun' /\ deletes'[c] = {}
        BY <2>6, <3>4 DEF Serve, Commit, UndoTransaction
      <4>2. Empty(c)' /\ ((c \in begun)' => Doing(c)')
        BY <4>1 DEF Empty
      <4> QED BY <1>2, <1>4, <2>1, <2>3, <2>4, <4>2
    <3> QED BY <2>1, <3>2, <3>3, <3>4 DEF Sent
  <2> QED BY <1>7, <2>5, <2>6
<1>8. ASSUME NEW c \in Calls, ServeLate(c) \/ DropLate(c)
      PROVE  DeletesInOrder'
  <2>1. UNCHANGED <<thread, reply, step, pc, request>> /\ late' = late \ {c}
        /\ thread[c] # "beginning" /\ c \in late
    BY <1>8 DEF ServeLate, DropLate, LandsOnce, threadVars, callVars
  <2>2. \A d \in Calls : d # c => (d \in begun' <=> d \in begun) /\ deletes'[d] = deletes[d]
    BY <1>8 DEF ServeLate, DropLate, Execute, Commit, UndoTransaction
  <2>3. c \notin begun' /\ deletes'[c] = {}
    <3>1. CASE ServeLate(c) /\ request[c].method # "prune"
      <4>1. c \notin begun
        BY <3>1 DEF Prunes
      <4> QED BY <1>1, <3>1, <4>1 DEF ServeLate, Execute, Empty
    <3>2. CASE (ServeLate(c) /\ request[c].method = "prune") \/ DropLate(c)
      BY <3>2 DEF ServeLate, DropLate, Commit, UndoTransaction
    <3> QED BY <1>8, <3>1, <3>2
  <2>4. First(c)' /\ Empty(c)' /\ ((c \in begun)' => Doing(c)')
    BY <1>1, <2>1, <2>3 DEF First, Empty
  <2> QED BY <1>2, <1>4, <2>1, <2>2, <2>4
<1>9. ASSUME NEW h \in Hosts, Connect(h)
      PROVE  DeletesInOrder'
  BY <1>2, <1>4, <1>9 DEF Connect, threadVars, callVars
<1>10. ASSUME NEW h \in Hosts, Lose(h) \/ Close(h) \/ Crash(h)
       PROVE  DeletesInOrder'
  <2>1. /\ UNCHANGED <<rows, landed, seen, step, home, request>>
        /\ \A d \in Calls :
                /\ d \in late' => \/ d \in late
                                  \/ /\ home[d] = h /\ Sent(d)
                                     /\ thread[d] \in {"executing", "committing"}
                /\ d \in begun' <=> d \in begun /\ (home[d] = h => d \in late')
                /\ deletes'[d] = IF d \in begun' THEN deletes[d] ELSE {}
    BY <1>10, LostTransactions
  <2>2. ASSUME NEW d \in Calls
        PROVE  First(d)' /\ Empty(d)' /\ ((d \in begun)' => Doing(d)')
    <3>1. thread'[d] \in {thread[d], "none"} /\ (pc'[d] # pc[d] => pc'[d] = "dead")
      BY <1>10, LostCalls
    <3>2. First(d)' /\ Empty(d)'
      BY <1>1, <2>1, <3>1 DEF First, Empty
    <3>3. ASSUME d \in begun'
          PROVE  Doing(d)'
      <4>1. Doing(d) /\ d \in begun /\ deletes'[d] = deletes[d] /\ \A n : Pruned(d, n)' = Pruned(d, n)
        BY <1>1, <1>3, <2>1, <3>3
      <4>2. d \in late' => deletes[d] = Pruned(d, 4)
        BY <2>1, <4>1 DEF Doing, Sent, Prunes
      <4>3. thread'[d] \in Busy => thread'[d] = thread[d] /\ reply'[d] \in {reply[d], "lost"}
        BY <1>10, LostCalls
      <4> QED BY <2>1, <4>1, <4>2, <4>3 DEF Doing
    <3> QED BY <3>2, <3>3
  <2> QED BY <1>2, <2>2
<1>11. CASE UNCHANGED vars
  BY <1>2, <1>4, <1>11 DEF vars, threadVars, callVars
<1> QED BY <1>5, <1>6, <1>7, <1>8, <1>9, <1>10, <1>11, NobodyShares DEF Next, ServerStep

-----------------------------------------------------------------------------
(* What took effect.                                                       *)

\* What a call that is executed records of itself.
LEMMA ServerLands ==
    ASSUME TypeOK, NEW c \in Calls, ServerStep(c), ~Garble(c)
    PROVE  /\ UNCHANGED <<thread, pc, step, home, request>>
           /\ \A d \in Calls : d # c => reply'[d] = reply[d]
           /\ landed' \subseteq landed \cup {c} /\ landed \subseteq landed'
           /\ late' \subseteq late
           /\ Serve(c) \/ Decline(c) => Sent(c)
           /\ Serve(c) => /\ reply'[c] = "executed"
                          /\ thread[c] \in {"executing", "committing"} => c \in landed'
                          /\ thread[c] \notin {"executing", "committing"} => landed' = landed
           /\ Decline(c) => reply'[c] = "refused" /\ landed' = landed
           /\ ~Serve(c) /\ ~Decline(c) => c \in late /\ c \notin late' /\ UNCHANGED reply
<1> USE DEF TypeOK, Busy, callVars, threadVars, serverVars, inputs
<1>1. CASE Serve(c)
  <2>1. /\ UNCHANGED <<thread, pc, step, home, request, late>> /\ Sent(c)
        /\ reply' = [reply EXCEPT ![c] = "executed"]
    BY <1>1 DEF Serve, Reply
  <2>2. CASE thread[c] = "executing"
    BY <1>1, <2>1, <2>2 DEF Serve, Execute, Land, Decline, Reply
  <2>3. CASE thread[c] \in {"beginning", "deleting", "undoing"}
    BY <1>1, <2>1, <2>3 DEF Serve, BeginTransaction, Delete, UndoTransaction, Decline, Reply
  <2>4. CASE thread[c] = "committing"
    BY <1>1, <2>1, <2>4 DEF Serve, Commit, Land, Decline, Reply
  <2> QED BY <2>1, <2>2, <2>3, <2>4 DEF Sent
<1>2. CASE Decline(c)
  BY <1>2 DEF Decline, Reply, Serve
<1>3. CASE (ServeLate(c) \/ DropLate(c)) /\ ~Serve(c) /\ ~Decline(c)
  BY <1>3 DEF ServeLate, DropLate, Execute, Commit, UndoTransaction, Land
<1> QED BY <1>1, <1>2, <1>3 DEF ServerStep

\* A call takes effect once, and is answered after that.
LEMMA LandsOnceStep ==
    ASSUME IndInv, StoreInv, [Next]_vars, shared' = {}
    PROVE  LandsOnce'
<1> USE DEF IndInv, StoreInv, TypeOK, inputs, serverVars, Busy
<1> DEFINE Once(d) ==
        /\ pc[d] \in {"idle", "waiting"} \/ thread[d] \in {"beginning", "deleting"} => d \notin landed
        /\ thread[d] \in {"executing", "committing"} =>
            /\ reply[d] = "awaited" => d \notin landed
            /\ reply[d] = "executed" => d \in landed
        /\ thread[d] = "done" \/ pc[d] = "answered" => d \in landed
        /\ d \in late =>
            /\ d \notin landed /\ pc[d] \notin {"idle", "waiting"}
            /\ thread[d] \in Busy => thread[d] \in {"executing", "committing"} /\ reply[d] = "lost"
<1>1. \A d \in Calls : Once(d)
  BY DEF LandsOnce
<1>2. (\A d \in Calls : Once(d)') => LandsOnce'
  BY DEF LandsOnce
<1>3. ASSUME NEW d \in Calls, pc'[d] = pc[d], thread'[d] = thread[d], reply'[d] = reply[d],
             d \in landed' <=> d \in landed, d \in late' => d \in late
      PROVE  Once(d)'
  BY <1>1, <1>3
<1>4. ASSUME NEW c \in Calls, CallStep(c)
      PROVE  LandsOnce'
  <2>1. /\ UNCHANGED <<landed, late, reply>>
        /\ \A d \in Calls : d # c => thread'[d] = thread[d] /\ pc'[d] = pc[d]
    BY <1>4, CallDoes
  <2>2. Once(c)'
    <3>1. CASE UNCHANGED thread
      BY <1>1, <1>4, <2>1, <3>1, CallDoes
    <3>2. CASE pc[c] = "waiting" /\ pc'[c] = "running" /\ reply[c] = "awaited"
               /\ thread'[c] \in {"failed", "beginning", "executing"}
      BY <1>1, <2>1, <3>2
    <3> QED BY <1>4, <3>1, <3>2, CallDoes
  <2> HIDE DEF Once
  <2> QED BY <1>2, <1>3, <2>1, <2>2
<1>5. ASSUME NEW c \in Calls, ThreadStep(c)
      PROVE  LandsOnce'
  <2>1. /\ thread[c] \in Busy /\ UNCHANGED <<pc, landed, late>>
        /\ \A d \in Calls : d # c => thread'[d] = thread[d] /\ reply'[d] = reply[d]
        /\ pc[c] \notin {"idle", "waiting"}
    BY <1>5, ThreadDoes DEF ThreadIsWaitedFor, callVars
  <2>2. Once(c)'
    <3>1. CASE thread'[c] = "failed" \/ (thread'[c] = "undoing" /\ c \notin late)
      BY <1>1, <2>1, <3>1
    <3>2. CASE /\ thread'[c] = "done" /\ reply[c] = "executed"
               /\ thread[c] \in {"executing", "committing"}
      BY <1>1, <2>1, <3>2
    <3>3. CASE /\ reply[c] = "executed" /\ reply'[c] \in {"awaited", "lost"}
               /\ thread[c] \in {"beginning", "deleting"}
               /\ thread'[c] \in {"deleting", "committing"}
      BY <1>1, <2>1, <3>3
    <3>4. CASE thread'[c] = "undoing" /\ c \in late
      <4>1. reply[c] = "lost"
        BY <1>1, <2>1, <3>4
      <4>2. CommandFailed(c)
        BY <1>5, <4>1 DEF ThreadStep, NextCommand
      <4>3. thread' = [thread EXCEPT ![c] = "failed"]
        BY <4>1, <4>2 DEF CommandFailed, Ends
      <4> QED BY <3>4, <4>3
    <3> HIDE DEF Once
    <3> QED BY <1>5, <3>1, <3>2, <3>3, <3>4, ThreadDoes
  <2> HIDE DEF Once
  <2> QED BY <1>2, <1>3, <2>1, <2>2
<1>6. ASSUME NEW c \in Calls, ServerStep(c)
      PROVE  LandsOnce'
  <2>1. /\ UNCHANGED <<thread, pc>> /\ \A d \in Calls : d # c => reply'[d] = reply[d]
        /\ landed' \subseteq landed \cup {c} /\ landed \subseteq landed' /\ late' \subseteq late
    BY <1>6, ServerLands, NobodyShares
  <2>2. Once(c)'
    <3>1. CASE Serve(c)
      <4>1. /\ Sent(c) /\ reply'[c] = "executed"
            /\ thread[c] \in {"executing", "committing"} => c \in landed'
            /\ thread[c] \notin {"executing", "committing"} => landed' = landed
        BY <1>6, <3>1, ServerLands, NobodyShares
      <4> QED BY <1>1, <2>1, <4>1 DEF Sent, ThreadIsWaitedFor
    <3>2. CASE Decline(c)
      <4>1. Sent(c) /\ reply'[c] = "refused" /\ landed' = landed
        BY <1>6, <3>2, ServerLands, NobodyShares
      <4> QED BY <1>1, <2>1, <4>1 DEF Sent
    <3>3. CASE ~Serve(c) /\ ~Decline(c)
      <4>1. c \in late /\ c \notin late' /\ reply'[c] = reply[c]
        BY <1>6, <3>3, ServerLands, NobodyShares
      <4> QED BY <1>1, <2>1, <4>1
    <3> QED BY <3>1, <3>2, <3>3
  <2> HIDE DEF Once
  <2> QED BY <1>2, <1>3, <2>1, <2>2
<1>7. ASSUME NEW h \in Hosts, Connect(h)
      PROVE  LandsOnce'
  BY <1>2, <1>3, <1>7 DEF Connect, threadVars, callVars
<1>8. ASSUME NEW h \in Hosts, Lose(h) \/ Close(h) \/ Crash(h)
      PROVE  LandsOnce'
  <2>1. /\ UNCHANGED landed
        /\ \A d \in Calls : d \in late' => \/ d \in late
                                           \/ /\ home[d] = h /\ Sent(d)
                                              /\ thread[d] \in {"executing", "committing"}
    BY <1>8, LostTransactions
  <2>2. ASSUME NEW d \in Calls
        PROVE  Once(d)'
    <3>1. /\ home[d] = h /\ thread'[d] \in Busy =>
                thread'[d] = thread[d] /\ reply'[d] = IF Sent(d) THEN "lost" ELSE reply[d]
          /\ pc'[d] # pc[d] => pc'[d] = "dead"
          /\ thread'[d] \in {thread[d], "none"}
      BY <1>8, LostCalls
    <3>2. CASE home[d] = h
      BY <1>1, <2>1, <3>1, <3>2 DEF Sent, ThreadIsWaitedFor
    <3>3. CASE home[d] # h
      BY <1>3, <1>8, <2>1, <3>3, LostCalls
    <3> QED BY <3>2, <3>3
  <2> HIDE DEF Once
  <2> QED BY <1>2, <2>2
<1>9. CASE UNCHANGED vars
  BY <1>2, <1>3, <1>9 DEF vars, threadVars, callVars
<1> QED BY <1>4, <1>5, <1>6, <1>7, <1>8, <1>9 DEF Next

-----------------------------------------------------------------------------
(* The hosts and the server implement the store.                           *)

\* A record under the name that the collation takes its key for.
LEMMA FoldedRecords ==
    /\ \A r \in Row : Fold(r) = [table |-> r.table, key |-> Collated[r.key], time |-> r.time]
    /\ \A q \in Requests : Fold(q) = [method |-> q.method, key |-> Collated[q.key], time |-> q.time]
  BY ConstantsAssumption DEF Fold, Row

\* A statement of its own has the effect that the store promises.
LEMMA StatementEffect ==
    ASSUME NEW q \in Requests, q.method # "prune", rows \subseteq Row
    PROVE  /\ Folded(Executed(q)) = Store!Effect(Folded(rows), Fold(q))
           /\ PrimaryKeyFails(q) <=> Store!Duplicate(Folded(rows), Fold(q))
<1> DEFINE f == Fold(q)
           Under(table) == Store!Under(Folded(rows), table, f.key)
<1>1. q.method \in Methods /\ q.key \in Keys /\ q.time \in Nat
  BY ConstantsAssumption DEF Keys
<1>2. f.method = q.method /\ f.key = Collated[q.key] /\ f.time = q.time
  BY FoldedRecords
<1> HIDE DEF f
<1>3. \A table : \A r \in rows : r \in At(table, q.key) <=> Fold(r) \in Under(table)
  BY <1>2, FoldedRecords DEF At, Equal, Store!Under, Folded
<1>4. ASSUME NEW table
      PROVE  /\ Folded(rows \ At(table, q.key)) = Folded(rows) \ Under(table)
             /\ At(table, q.key) = {} <=> Under(table) = {}
  <2>1. Under(table) \subseteq Folded(rows) /\ At(table, q.key) \subseteq rows
    BY DEF Store!Under, At
  <2> HIDE DEF Under
  <2> QED BY <1>3, <2>1 DEF Folded
<1>5. \A table \in {"checkpoints", "operations", "capabilities", "plans", "queries", "plugins"} :
            New(table, q) \in Row /\ Fold(New(table, q)) = Store!Row(table, f)
  <2>1. \A table \in {"checkpoints", "operations", "capabilities", "plans", "queries", "plugins"} :
              New(table, q) \in Row
    BY <1>1 DEF New, Row
  <2> QED BY <1>2, <2>1, FoldedRecords DEF New, Store!Row
<1>6. /\ Upserts = Store!Upserts /\ Deletes = Store!Deletes /\ Inserts = Store!Inserts
  BY DEF Upserts, Store!Upserts, Deletes, Store!Deletes, Inserts, Store!Inserts
<1>7. ASSUME NEW A, NEW B
      PROVE  Folded(A \cup B) = Folded(A) \cup Folded(B)
  BY DEF Folded
<1>8. ASSUME NEW r
      PROVE  Folded(rows \cup {r}) = Folded(rows) \cup {Fold(r)}
  BY DEF Folded
<1>9. ASSUME NEW table \in {"checkpoints", "capabilities", "plans", "plugins"}
      PROVE  Folded(Upserted(table, q)) = (Folded(rows) \ Under(table)) \cup {Store!Row(table, f)}
  <2> DEFINE Updated == {[r EXCEPT !.time = q.time] : r \in At(table, q.key)}
  <2>1. CASE At(table, q.key) = {}
    <3>1. Upserted(table, q) = rows \cup {New(table, q)} /\ Under(table) = {}
      BY <1>4, <2>1 DEF Upserted
    <3>2. Folded(Upserted(table, q)) = Folded(rows) \cup {Fold(New(table, q))}
      BY <1>8, <3>1
    <3> QED BY <1>5, <3>1, <3>2
  <2>2. CASE At(table, q.key) # {}
    <3>1. \A r \in At(table, q.key) : Fold([r EXCEPT !.time = q.time]) = Store!Row(table, f)
      <4> TAKE r \in At(table, q.key)
      <4> DEFINE u == [r EXCEPT !.time = q.time]
      <4>1. r \in Row /\ r.table = table /\ Collated[r.key] = Collated[q.key]
        BY DEF At, Equal
      <4>2. u \in Row /\ u.table = table /\ u.key = r.key /\ u.time = q.time
        BY <1>1, <4>1 DEF Row
      <4> HIDE DEF u
      <4>3. Fold(u) = [table |-> u.table, key |-> Collated[u.key], time |-> u.time]
        BY <4>2, FoldedRecords
      <4>4. Fold(u) = Store!Row(table, f)
        BY <1>2, <4>1, <4>2, <4>3 DEF Store!Row
      <4> QED BY <4>4 DEF u
    <3>2. Folded(Updated) = {Store!Row(table, f)}
      BY <2>2, <3>1 DEF Folded
    <3>3. Upserted(table, q) = (rows \ At(table, q.key)) \cup Updated
      BY <2>2 DEF Upserted
    <3> HIDE DEF Updated
    <3>4. Folded(Upserted(table, q)) = Folded(rows \ At(table, q.key)) \cup Folded(Updated)
      BY <1>7, <3>3
    <3> QED BY <1>4, <3>2, <3>4
  <2> QED BY <2>1, <2>2
<1>10. Folded(Executed(q)) = Store!Effect(Folded(rows), f)
  <2>1. CASE q.method \in DOMAIN Upserts
    <3>1. Executed(q) = Upserted(Upserts[q.method], q)
      BY <2>1, TablesOfMethods DEF Executed
    <3>2. Store!Effect(Folded(rows), f) = (Folded(rows) \ Under(Upserts[q.method]))
                                          \cup {Store!Row(Upserts[q.method], f)}
      BY <1>2, <1>6, <2>1, TablesOfMethods DEF Store!Effect
    <3> HIDE DEF Under
    <3> QED BY <1>9, <2>1, <3>1, <3>2, TablesOfMethods
  <2>2. CASE q.method \in DOMAIN Deletes
    <3>1. Executed(q) = rows \ At(Deletes[q.method], q.key)
      BY <2>2, TablesOfMethods DEF Executed
    <3>2. Store!Effect(Folded(rows), f) = Folded(rows) \ Under(Deletes[q.method])
      BY <1>2, <1>6, <2>2, TablesOfMethods DEF Store!Effect
    <3> HIDE DEF Under
    <3> QED BY <1>4, <3>1, <3>2
  <2>3. CASE q.method \in DOMAIN Inserts
    <3>1. Executed(q) = rows \cup {New(Inserts[q.method], q)}
      BY <2>3, TablesOfMethods DEF Executed
    <3>2. Store!Effect(Folded(rows), f) = Folded(rows) \cup {Store!Row(Inserts[q.method], f)}
      BY <1>2, <1>6, <2>3, TablesOfMethods DEF Store!Effect
    <3> QED BY <1>5, <1>8, <2>3, <3>1, <3>2, TablesOfMethods
  <2>4. CASE q.method = "read"
    BY <1>2, <1>6, <2>4, TablesOfMethods DEF Executed, Store!Effect
  <2> QED BY <1>1, <2>1, <2>2, <2>3, <2>4, TablesOfMethods DEF Methods
<1> QED BY <1>2, <1>4, <1>10 DEF PrimaryKeyFails, Store!Duplicate, f

\* So have the statements of a prune together.
LEMMA PruneEffect ==
    ASSUME NEW c \in Calls, request[c] \in Requests, request[c].method = "prune", rows \subseteq Row
    PROVE  /\ Folded(rows \ Pruned(c, 4)) = Store!Effect(Folded(rows), Fold(request[c]))
           /\ ~Store!Duplicate(Folded(rows), Fold(request[c]))
<1> DEFINE f == Fold(request[c])
<1>1. \A t : t \in {"checkpoints", "plans", "operations", "queries"} <=>
                \E i \in 1..4 : t = PruneStatements[i]
  <2>1. \A i \in 1..4 : i = 1 \/ i = 2 \/ i = 3 \/ i = 4
    OBVIOUS
  <2> QED BY <2>1 DEF PruneStatements
<1>2. f.method = "prune" /\ f.time = request[c].time
  BY FoldedRecords
<1> HIDE DEF f
<1>3. \A r \in rows : r \in Pruned(c, 4) <=> Fold(r) \in Store!Stale(Folded(rows), f.time)
  BY <1>1, <1>2, FoldedRecords DEF Pruned, Store!Stale, Folded
<1>4. Folded(rows \ Pruned(c, 4)) = Folded(rows) \ Store!Stale(Folded(rows), f.time)
  BY <1>3 DEF Folded
<1>5. Store!Effect(Folded(rows), f) = Folded(rows) \ Store!Stale(Folded(rows), f.time)
  BY <1>2 DEF Store!Effect, Store!Upserts, Store!Deletes, Store!Inserts
<1>6. ~Store!Duplicate(Folded(rows), f)
  BY <1>2 DEF Store!Duplicate
<1> QED BY <1>4, <1>5, <1>6 DEF f

\* Every step is a step of the store, or one it does not see.
LEMMA StoreMaps ==
    ASSUME IndInv, StoreInv, [Next]_vars, shared' = {}
    PROVE  [Store!Next]_(Store!storeVars)
<1> USE DEF IndInv, StoreInv
<1> DEFINE Shown(p) == IF p \in Pending THEN "asked" ELSE p
           st == [c \in Calls |-> IF pc[c] \in Pending THEN "asked" ELSE pc[c]]
           rq == [c \in Calls |-> Fold(request[c])]
           sn == [c \in Calls |-> Folded(seen[c])]
           Same == UNCHANGED <<rows, request, landed, seen>>
           Seen == UNCHANGED <<Folded(rows), rq, landed, sn>>
<1> USE DEF TypeOK, inputs, serverVars, Busy
<1>0. Same => Seen
  OBVIOUS
<1>1. ASSUME NEW c \in Calls, NEW p, pc' = [pc EXCEPT ![c] = p]
      PROVE  st' = [st EXCEPT ![c] = Shown(p)]
  BY <1>1
<1>2. ASSUME UNCHANGED pc
      PROVE  st' = st
  BY <1>2
<1>3. \A c \in Calls : st[c] = Shown(pc[c])
  OBVIOUS
<1>4. ASSUME UNCHANGED pc, Same
      PROVE  UNCHANGED Store!storeVars
  BY <1>0, <1>2, <1>4 DEF Store!storeVars
<1>5. ASSUME NEW c \in Calls, pc[c] \in Pending, Same,
             \/ pc' = [pc EXCEPT ![c] = "refused"]
             \/ pc' = [pc EXCEPT ![c] = "cancelled"]
             \/ pc' = [pc EXCEPT ![c] = "answered"] /\ c \in landed
      PROVE  Store!Next
  <2>1. st[c] = "asked"
    BY <1>3, <1>5
  <2>2. CASE pc' = [pc EXCEPT ![c] = "refused"]
    <3>1. st' = [st EXCEPT ![c] = "refused"]
      BY <1>1, <2>2 DEF Pending
    <3>2. Store!Refuse(c)
      BY <1>0, <1>5, <2>1, <3>1 DEF Store!Refuse, Store!Become
    <3> QED BY <3>2 DEF Store!Next
  <2>3. CASE pc' = [pc EXCEPT ![c] = "cancelled"]
    <3>1. st' = [st EXCEPT ![c] = "cancelled"]
      BY <1>1, <2>3 DEF Pending
    <3>2. Store!Cancel(c)
      BY <1>0, <1>5, <2>1, <3>1 DEF Store!Cancel, Store!Become
    <3> QED BY <3>2 DEF Store!Next
  <2>4. CASE pc' = [pc EXCEPT ![c] = "answered"] /\ c \in landed
    <3>1. st' = [st EXCEPT ![c] = "answered"]
      BY <1>1, <2>4 DEF Pending
    <3>2. Store!Answer(c)
      BY <1>0, <1>5, <2>1, <2>4, <3>1 DEF Store!Answer, Store!Become
    <3> QED BY <3>2 DEF Store!Next
  <2> QED BY <1>5, <2>2, <2>3, <2>4
<1>6. ASSUME NEW c \in Calls, pc[c] \in Pending, NEW p \in Pending, pc' = [pc EXCEPT ![c] = p], Same
      PROVE  UNCHANGED Store!storeVars
  <2>1. st' = st
    BY <1>6
  <2> QED BY <1>0, <1>6, <2>1 DEF Store!storeVars
<1>7. ASSUME NEW c \in Calls, CallStep(c)
      PROVE  [Store!Next]_(Store!storeVars)
  <2>1. Same
    BY <1>7, CallDoes
  <2>2. CASE Ask(c)
    <3>1. st[c] = "idle" /\ st' = [st EXCEPT ![c] = "asked"]
      BY <1>1, <1>3, <2>2 DEF Ask, Move, Pending
    <3>2. Store!Ask(c)
      BY <1>0, <2>1, <3>1 DEF Store!Ask, Store!Become
    <3> QED BY <3>2 DEF Store!Next
  <2>3. CASE RefuseClosed(c)
    BY <1>5, <2>1, <2>3 DEF RefuseClosed, Move, Pending
  <2>4. CASE StartThread(c)
    BY <1>6, <2>1, <2>4 DEF StartThread, Move, Pending
  <2>5. CASE Return(c)
    <3>1. /\ pc[c] \in Pending
          /\ \/ pc' = [pc EXCEPT ![c] = "refused"]
             \/ pc' = [pc EXCEPT ![c] = "cancelled"]
             \/ pc' = [pc EXCEPT ![c] = "answered"] /\ c \in landed
      BY <2>5 DEF Return, Move, Pending, Over, LandsOnce
    <3> QED BY <1>5, <2>1, <3>1
  <2>6. CASE Cancel(c)
    <3>1. pc[c] \in Pending
          /\ (pc' = [pc EXCEPT ![c] = "draining"] \/ pc' = [pc EXCEPT ![c] = "cancelled"])
      BY <2>6 DEF Cancel, Move
    <3> QED BY <1>5, <1>6, <2>1, <3>1 DEF Pending
  <2> QED BY <1>7, <2>2, <2>3, <2>4, <2>5, <2>6 DEF CallStep
<1>8. ASSUME NEW c \in Calls, ThreadStep(c)
      PROVE  UNCHANGED Store!storeVars
  <2>1. UNCHANGED pc /\ Same
    BY <1>8, ThreadDoes DEF callVars
  <2> QED BY <1>4, <2>1
<1>9. ASSUME NEW c \in Calls, c \notin landed, UNCHANGED <<pc, request>>,
             \/ pc[c] \in Pending \/ pc[c] \in {"refused", "cancelled", "dead"},
             \/ request[c].method # "prune" /\ Execute(c)
             \/ request[c].method = "prune" /\ Commit(c) /\ deletes[c] = Pruned(c, 4)
      PROVE  Store!Next
  <2>1. st[c] \in {"asked", "refused", "cancelled", "dead"} /\ st' = st
    BY <1>2, <1>3, <1>9
  <2>2. /\ ~Store!Duplicate(Folded(rows), Fold(request[c]))
        /\ Folded(rows') = Store!Effect(Folded(rows), Fold(request[c]))
    <3>1. CASE request[c].method # "prune"
      BY <1>9, <3>1, StatementEffect DEF Execute
    <3>2. CASE request[c].method = "prune"
      BY <1>9, <3>2, PruneEffect DEF Commit
    <3> QED BY <3>1, <3>2
  <2>3. /\ landed' = landed \cup {c}
        /\ seen' = IF request[c].method = "read" THEN [seen EXCEPT ![c] = rows] ELSE seen
    BY <1>9 DEF Execute, Commit, Land
  <2>4. rq[c] = Fold(request[c]) /\ rq[c].method = request[c].method /\ rq' = rq
    BY <1>9, FoldedRecords
  <2>5. sn' = IF request[c].method = "read" THEN [sn EXCEPT ![c] = Folded(rows)] ELSE sn
    BY <2>3
  <2>6. Store!Land(c)
    BY <1>9, <2>1, <2>2, <2>3, <2>4, <2>5 DEF Store!Land
  <2> QED BY <2>6 DEF Store!Next
<1>10. ASSUME NEW c \in Calls, Serve(c)
       PROVE  [Store!Next]_(Store!storeVars)
  <2>1. UNCHANGED <<pc, request>> /\ Sent(c) /\ pc[c] \in Pending \cup {"cancelled"}
    BY <1>10 DEF Serve, callVars, ThreadIsWaitedFor, Sent, Pending
  <2>2. CASE thread[c] = "executing"
    <3>1. Execute(c) /\ request[c].method # "prune" /\ c \notin landed
      BY <1>10, <2>1, <2>2 DEF Serve, Prunes, LandsOnce, Sent
    <3> QED BY <1>9, <2>1, <3>1
  <2>3. CASE thread[c] = "committing"
    <3>1. Commit(c) /\ request[c].method = "prune" /\ c \notin landed
      BY <1>10, <2>1, <2>3 DEF Serve, Prunes, LandsOnce, Sent
    <3>2. deletes[c] = Pruned(c, 4)
      BY <2>1, <2>3 DEF Sent, SentOnOpenConnection, WorksInTransaction, DeletesInOrder
    <3> QED BY <1>9, <2>1, <3>1, <3>2
  <2>4. CASE thread[c] = "deleting"
    <3>1. c \in begun
      BY <2>1, <2>4 DEF Sent, SentOnOpenConnection, WorksInTransaction
    <3> QED BY <1>4, <1>10, <2>1, <2>4, <3>1 DEF Serve, Delete
  <2>5. CASE thread[c] \in {"beginning", "undoing"}
    BY <1>4, <1>10, <2>1, <2>5 DEF Serve, BeginTransaction, UndoTransaction
  <2> QED BY <2>1, <2>2, <2>3, <2>4, <2>5 DEF Sent
<1>11. ASSUME NEW c \in Calls, ServeLate(c)
       PROVE  Store!Next
  <2>1. UNCHANGED <<pc, request>> /\ c \in late /\ c \notin landed
    BY <1>11 DEF ServeLate, callVars, LandsOnce
  <2>2. pc[c] \in Pending \/ pc[c] \in {"refused", "cancelled", "dead"}
    BY <2>1 DEF LandsOnce, Pending, Ended
  <2>3. request[c].method = "prune" => deletes[c] = Pruned(c, 4)
    BY <2>1 DEF WorksInTransaction, DeletesInOrder
  <2> QED BY <1>9, <1>11, <2>1, <2>2, <2>3 DEF ServeLate
<1>12. ASSUME NEW c \in Calls, Decline(c) \/ DropLate(c)
       PROVE  UNCHANGED Store!storeVars
  BY <1>4, <1>12 DEF Decline, DropLate, UndoTransaction, callVars
<1>13. ASSUME NEW h \in Hosts, Connect(h) \/ Lose(h) \/ Close(h)
       PROVE  UNCHANGED Store!storeVars
  BY <1>4, <1>13 DEF Connect, Lose, Close, Break, Disconnect, callVars
<1>14. ASSUME NEW h \in Hosts, Crash(h)
       PROVE  Store!Next
  <2> DEFINE hit == {c \in Calls : home[c] = h /\ pc[c] \in Pending}
  <2>1. Same /\ pc' = [c \in Calls |-> IF c \in hit THEN "dead" ELSE pc[c]]
    BY <1>14 DEF Crash, Disconnect, On
  <2>2. st' = [c \in Calls |-> IF c \in hit /\ st[c] \in {"asked", "cancelled"}
                               THEN "dead" ELSE st[c]]
    BY <2>1 DEF Pending
  <2>3. hit \in SUBSET Calls
    OBVIOUS
  <2> HIDE DEF hit
  <2>4. Store!Crash
    BY <1>0, <2>1, <2>2, <2>3 DEF Store!Crash
  <2> QED BY <2>4 DEF Store!Next
<1>15. CASE UNCHANGED vars
  BY <1>4, <1>15 DEF vars, callVars
<1> QED BY <1>7, <1>8, <1>10, <1>11, <1>12, <1>13, <1>14, <1>15, NobodyShares DEF Next, ServerStep

\* The invariant of the store is kept, and holds at the start.
LEMMA StoreStep ==
    ASSUME IndInv, StoreInv, [Next]_vars, shared' = {}
    PROVE  StoreInv'
  BY OneTransactionStep, WorksInTransactionStep, DeletesInOrderStep, LandsOnceStep
     DEF IndInv, StoreInv

LEMMA StoreInitially == Init => StoreInv
  BY DEF Init, StoreInv, OneTransaction, WorksInTransaction, DeletesInOrder, LandsOnce, Busy

\* Both invariants hold together, the second until two threads have used one connection.
THEOREM StoreInvariance ==
    Spec => [](IndInv /\ StoreInvUnshared)
<1>1. Init => StoreInvUnshared
  BY StoreInitially DEF StoreInvUnshared
<1>2. IndInv /\ StoreInvUnshared /\ [Next]_vars => StoreInvUnshared'
  BY StoreStep, NobodyShares DEF StoreInvUnshared
<1> QED BY Invariance, <1>1, <1>2, PTL DEF Spec

\* The backend is a StateStore that hosts share, until two threads have used one connection:
\* whoever is cancelled, whatever is lost or executed late and whichever host ends, a call has
\* its effect at one moment, entirely or not at all, and once.  Whatever the collation is, the
\* effect is the one on the names as it tells them apart.
THEOREM Implementation ==
    Spec => ImplementsStateStore
<1>1. Init => Store!Init
  <2> SUFFICES ASSUME Init
               PROVE  Store!Init
    OBVIOUS
  <2>1. [c \in Calls |-> Fold(request[c])] \in [Calls -> Folded(Requests)]
    BY DEF Init, Folded
  <2>2. Folded({}) = {}
    BY DEF Folded
  <2>3. [c \in Calls |-> Folded(seen[c])] = [c \in Calls |-> {}]
    BY <2>2 DEF Init
  <2> QED BY <2>1, <2>2, <2>3 DEF Init, Store!Init, Pending
<1>2. IndInv /\ StoreInvUnshared /\ [Next]_vars => [shared' = {} => Store!Next]_(Store!storeVars)
  BY StoreMaps, NobodyShares DEF StoreInvUnshared
<1> QED BY <1>1, <1>2, StoreInvariance, PTL DEF Spec, ImplementsStateStore
=============================================================================

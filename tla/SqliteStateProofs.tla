------------------------- MODULE SqliteStateProofs -------------------------
(***************************************************************************)
(* No transaction of SqliteState is left for another call to commit, and   *)
(* the connection with its queue is a StateStore, whatever the calls ask   *)
(* for.                                                                    *)
(***************************************************************************)
EXTENDS SqliteState, SequenceTheorems, TLAPS

USE DEF LockFree, Released, Rollback

-----------------------------------------------------------------------------
(* Operators.                                                              *)

\* A queue that grows keeps its commands where they are, and gets one more.
LEMMA Appended ==
    ASSUME NEW q \in Seq(Commands), NEW e \in Commands
    PROVE  /\ Append(q, e) \in Seq(Commands)
           /\ DOMAIN Append(q, e) = DOMAIN q \cup {Len(q) + 1}
           /\ Append(q, e)[Len(q) + 1] = e
           /\ \A i \in DOMAIN q : i < Len(q) + 1 /\ Append(q, e)[i] = q[i]
  OBVIOUS

\* A queue whose head is taken keeps the rest, one place nearer.
LEMMA Taken ==
    ASSUME NEW q \in Seq(Commands), q # <<>>
    PROVE  /\ Tail(q) \in Seq(Commands) /\ Head(q) = q[1] /\ 1 \in DOMAIN q
           /\ Head(q) \in Commands
           /\ \A i \in DOMAIN Tail(q) : i + 1 \in DOMAIN q /\ Tail(q)[i] = q[i + 1]
           /\ \A i \in DOMAIN q : i > 1 => i - 1 \in DOMAIN Tail(q) /\ Tail(q)[i - 1] = q[i]
           /\ \A i \in DOMAIN q : i \in Nat /\ i >= 1
  OBVIOUS

\* What a method executes: at least one statement, each on a row of its own key.
LEMMA StatementsKnown ==
    ASSUME NEW q \in Requests, q.method # "read"
    PROVE  /\ Len(Statements(q)) \in Nat /\ Len(Statements(q)) >= 1
           /\ \A i \in 1..Len(Statements(q)) : Statements(q)[i] \in
                [op : {"upsert", "insert", "delete", "age"},
                 table : {"checkpoints", "operations", "capabilities", "plans", "queries",
                          "plugins"},
                 key : Keys, time : Nat]
<1> DEFINE Ops == {"upsert", "insert", "delete", "age"}
           Tables == {"checkpoints", "operations", "capabilities", "plans", "queries", "plugins"}
           Statement == [op : Ops, table : Tables, key : Keys, time : Nat]
<1>1. q \in [method : Methods, key : Keys, time : Nat]
  BY ConstantsAssumption
<1>2. \A op \in Ops, table \in Tables :
        [op |-> op, table |-> table, key |-> q.key, time |-> q.time] \in Statement
  BY <1>1
<1>3. ASSUME NEW s, NEW st \in Statement, s = <<st>>
      PROVE  Len(s) = 1 /\ \A i \in 1..Len(s) : s[i] \in Statement
  BY <1>3
<1>4. CASE q.method = "prune"
  <2>1. Statements(q) = Prune(q)
    BY <1>4 DEF Statements
  <2>2. Prune(q) \in Seq(Statement) /\ Len(Prune(q)) = 4
    <3>1. \A i \in 1..4 : PruneTables[i] \in Tables
      BY DEF PruneTables
    <3>2. Prune(q) \in [1..4 -> Statement]
      BY <3>1, <1>2 DEF Prune
    <3>3. Prune(q) \in Seq(Statement)
      BY <3>2, SeqDef
    <3>4. 1..Len(Prune(q)) = 1..4 /\ Len(Prune(q)) \in Nat
      BY <3>2, <3>3, LenProperties
    <3>5. ASSUME NEW n \in Nat, 1..n = 1..4
          PROVE  n = 4
      <4>1. \A i \in Int : i \in 1..n <=> i \in 1..4
        BY <3>5
      <4>2. 4 <= n /\ ~(5 <= n)
        BY <4>1
      <4> QED BY <4>2
    <3> QED BY <3>3, <3>4, <3>5
  <2> HIDE DEF Statement
  <2>3. \A i \in 1..Len(Prune(q)) : Prune(q)[i] \in Statement
    BY <2>2, ElementOfSeq
  <2> QED BY <2>1, <2>2, <2>3 DEF Statement
<1>5. CASE q.method # "prune"
  <2>1. \E op \in Ops, table \in Tables : Statements(q) =
            <<[op |-> op, table |-> table, key |-> q.key, time |-> q.time]>>
    BY <1>5, <1>1 DEF Statements, Methods, Upsert, Insert, Delete
  <2> QED BY <2>1, <1>2, <1>3
<1> QED BY <1>4, <1>5

-----------------------------------------------------------------------------
(* The parts of the invariant, one lemma each.                             *)

\* A step keeps every variable in its type.
LEMMA TypeStep ==
    ASSUME TypeOK, StepsExist, [Next]_vars
    PROVE  TypeOK'
<1> USE ConstantsAssumption DEF TypeOK, Active, Ended, Move, callVars, dbVars
<1>1. \A c \in Calls, name \in {"execute", "commit", "select", "rollback"} :
        Append(queue, Command(c, name, step[c])) \in Seq(Commands)
  <2>1. \A c \in Calls, name \in {"execute", "commit", "select", "rollback"} :
          Command(c, name, step[c]) \in Commands
    BY DEF Command, Commands
  <2> QED BY <2>1, Appended
<1>2. ASSUME NEW c \in Calls, Ask(c) \/ RefuseClosed(c) \/ Answer(c) \/ Undone(c)
      PROVE  TypeOK'
  BY <1>2 DEF Ask, RefuseClosed, Answer, Undone
<1>3. ASSUME NEW c \in Calls, Begin(c)
      PROVE  TypeOK'
  BY <1>1, <1>3 DEF Begin, Send
<1>4. ASSUME NEW c \in Calls, Proceed(c)
      PROVE  TypeOK'
  <2>1. Append(queue, Command(c, "execute", step[c] + 1)) \in Seq(Commands)
    <3>1. Command(c, "execute", step[c] + 1) \in Commands
      BY DEF Command, Commands
    <3> QED BY <3>1, Appended
  <2>2. queue' \in Seq(Commands)
    BY <1>1, <1>4, <2>1 DEF Proceed, Send
  <2>3. pc' \in [Calls -> {"idle", "waiting"} \cup Active \cup Ended]
    BY <1>4 DEF Proceed
  <2>4. step' \in [Calls -> Nat]
    <3>1. step' = step \/ step' = [step EXCEPT ![c] = step[c] + 1]
      BY <1>4 DEF Proceed
    <3>2. step \in [Calls -> Nat] /\ step[c] + 1 \in Nat
      OBVIOUS
    <3>3. [step EXCEPT ![c] = step[c] + 1] \in [Calls -> Nat]
      BY <3>2, Zenon
    <3> QED BY <3>1, <3>2, <3>3, Zenon
  <2> QED BY <1>4, <2>2, <2>3, <2>4 DEF Proceed
<1>5. ASSUME NEW c \in Calls, Fail(c)
      PROVE  TypeOK'
  BY <1>1, <1>5 DEF Fail
<1>6. ASSUME NEW c \in Calls, Cancel(c)
      PROVE  TypeOK'
  BY <1>1, <1>6 DEF Cancel
<1>7. CASE Execute
  <2> DEFINE head == Head(queue)
             st == Statements(request[head.call])[head.step]
  <2>1. head \in Commands /\ Tail(queue) \in Seq(Commands) /\ head = queue[1]
        /\ 1 \in DOMAIN queue /\ head.command = "execute"
    BY <1>7, Taken DEF Execute, Take
  <2>2. head.call \in Calls /\ request[head.call].method # "read"
        /\ head.step \in 1..Len(Statements(request[head.call]))
    BY <2>1 DEF StepsExist
  <2>3. st.table \in {"checkpoints", "operations", "capabilities", "plans", "queries",
                      "plugins"} /\ st.key \in Keys /\ st.time \in Nat
    BY <2>2, StatementsKnown
  <2>4. Executed(work, st) \subseteq Row
    BY <2>3 DEF Executed, Row
  <2> QED BY <1>7, <2>1, <2>2, <2>4 DEF Execute, Take, Reply
<1>8. CASE Commit \/ Select \/ CommandFails \/ UndoWork
  <2>1. Head(queue) \in Commands /\ Tail(queue) \in Seq(Commands) /\ Head(queue) = queue[1]
        /\ 1 \in DOMAIN queue /\ Head(queue).command # "close"
    BY <1>8, Taken DEF Commit, Select, CommandFails, UndoWork, Take
  <2>2. Head(queue).call \in Calls
    BY <2>1 DEF StepsExist
  <2> QED
    BY <1>8, <2>1, <2>2 DEF Commit, Select, CommandFails, UndoWork, Take, Reply
<1>9. CASE CloseConnection
  BY <1>9, Taken DEF CloseConnection, Take
<1>10. CASE Initialize \/ EndClose
  BY <1>10 DEF Initialize, EndClose
<1>11. CASE Close
  <2>1. [call |-> None, command |-> "close", step |-> 1] \in Commands
    BY DEF Commands
  <2> QED BY <1>11, <2>1, Appended DEF Close
<1>12. CASE Crash
  BY <1>12 DEF Crash
<1>13. CASE UNCHANGED vars
  BY <1>13 DEF vars
<1> QED BY <1>2, <1>3, <1>4, <1>5, <1>6, <1>7, <1>8, <1>9, <1>10, <1>11, <1>12, <1>13
        DEF Next, CallStep, Worker

\* The lock is given to a call that starts to work and back by one that ends.
LEMMA HolderStep ==
    ASSUME TypeOK, HolderAtWork, [Next]_vars
    PROVE  HolderAtWork'
<1> USE ConstantsAssumption DEF TypeOK, HolderAtWork, Active, Ended, Move, callVars, dbVars
<1>1. ASSUME NEW c \in Calls, Ask(c) \/ RefuseClosed(c) \/ Answer(c) \/ Undone(c)
      PROVE  HolderAtWork'
  BY <1>1 DEF Ask, RefuseClosed, Answer, Undone
<1>2. ASSUME NEW c \in Calls, Begin(c) \/ Proceed(c) \/ Fail(c)
      PROVE  HolderAtWork'
  BY <1>2 DEF Begin, Proceed, Fail
<1>3. ASSUME NEW c \in Calls, Cancel(c)
      PROVE  HolderAtWork'
  BY <1>3 DEF Cancel
<1>4. CASE Worker
  BY <1>4 DEF Worker, Execute, Commit, Select, CommandFails, UndoWork, CloseConnection
<1>5. CASE Initialize \/ EndClose \/ Close \/ UNCHANGED vars
  BY <1>5 DEF Initialize, EndClose, Close, vars
<1>6. CASE Crash
  BY <1>6 DEF Crash
<1> QED BY <1>1, <1>2, <1>3, <1>4, <1>5, <1>6 DEF Next, CallStep

\* What a call sends goes behind what it sent before; what is taken leaves the rest.
LEMMA OneAtATimeStep ==
    ASSUME TypeOK, OneAtATime, [Next]_vars
    PROVE  OneAtATime'
<1> USE ConstantsAssumption DEF TypeOK, Active, Ended, Move, callVars, dbVars
<1>1. ASSUME NEW c \in Calls, NEW e \in Commands, queue' = Append(queue, e), e.call = c,
             NEW p \in Active, pc' = [pc EXCEPT ![c] = p],
             p \in {"executing", "committing"} => Settled(c)
      PROVE  OneAtATime'
  <2>1. \A d \in Calls : d # c => (Settled(d) => Settled(d)')
    BY <1>1, Appended DEF Settled
  <2>2. \A d \in Calls, i, j \in DOMAIN queue' :
            queue'[i].call = d /\ queue'[j].call = d =>
              \/ i = j
              \/ i \in DOMAIN queue /\ j \in DOMAIN queue
                 /\ queue[i].call = d /\ queue[j].call = d
              \/ d = c /\ \E k \in DOMAIN queue : queue[k].call = c
    BY <1>1, Appended
  <2> QED BY <1>1, <2>1, <2>2 DEF OneAtATime, Settled
<1>2. ASSUME queue' = Tail(queue), queue # <<>>, UNCHANGED pc
      PROVE  OneAtATime'
  <2>1. \A i \in DOMAIN queue' : i \in Nat /\ i + 1 \in DOMAIN queue /\ queue'[i] = queue[i + 1]
    BY <1>2, Taken
  <2> QED BY <1>2, <2>1 DEF OneAtATime, Settled
<1>3. ASSUME UNCHANGED queue,
             \A c \in Calls :
                /\ pc'[c] \in {"idle", "waiting"} => pc[c] \in {"idle", "waiting"}
                /\ pc'[c] \in {"executing", "committing"} => pc'[c] = pc[c]
      PROVE  OneAtATime'
  BY <1>3 DEF OneAtATime, Settled
<1>4. \A c \in Calls, n \in Nat, name \in {"execute", "commit", "select", "rollback"} :
        Command(c, name, n) \in Commands /\ Command(c, name, n).call = c
  BY DEF Command, Commands
<1>5. ASSUME NEW c \in Calls, Ask(c) \/ RefuseClosed(c) \/ Answer(c) \/ Undone(c)
      PROVE  OneAtATime'
  BY <1>3, <1>5 DEF Ask, RefuseClosed, Answer, Undone
<1>6. ASSUME NEW c \in Calls, Begin(c)
      PROVE  OneAtATime'
  <2>1. Settled(c)
    BY <1>6 DEF Begin, OneAtATime
  <2> QED BY <1>1, <1>4, <1>6, <2>1 DEF Begin, Send
<1>7. ASSUME NEW c \in Calls, Proceed(c)
      PROVE  OneAtATime'
  <2>1. CASE step[c] < Len(Statements(request[c]))
    <3>1. pc' = [pc EXCEPT ![c] = "executing"] /\ Settled(c)
          /\ queue' = Append(queue, Command(c, "execute", step[c] + 1))
      BY <1>7, <2>1 DEF Proceed
    <3>2. step[c] + 1 \in Nat
      OBVIOUS
    <3> QED BY <1>1, <1>4, <3>1, <3>2
  <2>2. CASE ~(step[c] < Len(Statements(request[c])))
    BY <1>1, <1>4, <1>7, <2>2 DEF Proceed, Send
  <2> QED BY <2>1, <2>2
<1>8. ASSUME NEW c \in Calls, Fail(c) \/ Cancel(c)
      PROVE  OneAtATime'
  <2>1. CASE queue' = Rollback(c) /\ pc' \in {[pc EXCEPT ![c] = p] : p \in {"undoing", "unwinding"}}
    BY <1>1, <1>4, <2>1
  <2>2. CASE UNCHANGED queue
    BY <1>3, <1>8, <2>2 DEF Fail, Cancel
  <2> QED BY <1>8, <2>1, <2>2 DEF Fail, Cancel
<1>9. CASE Worker
  BY <1>2, <1>9 DEF Worker, Execute, Commit, Select, CommandFails, UndoWork, CloseConnection, Take
<1>10. CASE Initialize \/ EndClose \/ UNCHANGED vars
  BY <1>3, <1>10 DEF Initialize, EndClose, vars
<1>11. CASE Close
  <2> DEFINE e == [call |-> None, command |-> "close", step |-> 1]
  <2>1. e \in Commands /\ e.call \notin Calls
    BY DEF Commands
  <2>2. queue' = Append(queue, e) /\ UNCHANGED pc
    BY <1>11 DEF Close
  <2> HIDE DEF e
  <2>3. \A i \in DOMAIN queue' : queue'[i].call \in Calls =>
            i \in DOMAIN queue /\ queue'[i] = queue[i]
    BY <2>1, <2>2, Appended
  <2> QED BY <2>2, <2>3 DEF OneAtATime, Settled
<1>12. CASE Crash
  BY <1>12 DEF Crash, OneAtATime, Settled
<1> QED BY <1>5, <1>6, <1>7, <1>8, <1>9, <1>10, <1>11, <1>12 DEF Next, CallStep

\* Every call sends its own statements, one after the other.
LEMMA StepsStep ==
    ASSUME TypeOK, StepsExist, [Next]_vars
    PROVE  StepsExist'
<1> USE ConstantsAssumption DEF TypeOK, Active, Ended, Move, callVars, dbVars
<1> DEFINE Sane(e) ==
        /\ e.command # "close" => e.call \in Calls
        /\ e.command = "execute" =>
            /\ request[e.call].method # "read"
            /\ e.step \in 1..Len(Statements(request[e.call]))
           Steady == \A c \in Calls :
        pc'[c] \in {"executing", "committing"} => request[c].method # "read"
<1>1. UNCHANGED request
  BY DEF Next, CallStep, Worker, Ask, RefuseClosed, Begin, Proceed, Answer, Fail, Undone, Cancel,
         Execute, Commit, Select, CommandFails, UndoWork, CloseConnection, Initialize, Close,
         EndClose, Crash, vars
<1>2. \A c \in Calls, n \in Nat, name \in {"execute", "commit", "select", "rollback"} :
        /\ Command(c, name, n) \in Commands
        /\ Command(c, name, n).call = c /\ Command(c, name, n).step = n
        /\ Command(c, name, n).command = name
  BY DEF Command, Commands
<1>3. ASSUME NEW e \in Commands, queue' = Append(queue, e), Sane(e), Steady, UNCHANGED step
      PROVE  StepsExist'
  BY <1>1, <1>3, Appended DEF StepsExist
<1>4. ASSUME UNCHANGED queue, Steady, UNCHANGED step
      PROVE  StepsExist'
  BY <1>1, <1>4 DEF StepsExist
<1>5. ASSUME NEW c \in Calls, Ask(c) \/ RefuseClosed(c) \/ Answer(c) \/ Undone(c)
      PROVE  StepsExist'
  BY <1>4, <1>5 DEF StepsExist, Ask, RefuseClosed, Answer, Undone
<1>6. ASSUME NEW c \in Calls, Begin(c)
      PROVE  StepsExist'
  <2>1. CASE request[c].method = "read"
    <3>1. queue' = Append(queue, Command(c, "select", step[c])) /\ UNCHANGED step
          /\ pc' = [pc EXCEPT ![c] = "reading"]
      BY <1>6, <2>1 DEF Begin, Send
    <3>2. Steady
      BY <3>1 DEF StepsExist
    <3>3. Command(c, "select", step[c]) \in Commands /\ Sane(Command(c, "select", step[c]))
      BY <1>2
    <3> QED BY <1>3, <3>1, <3>2, <3>3
  <2>2. CASE request[c].method # "read"
    <3>1. queue' = Append(queue, Command(c, "execute", step[c])) /\ UNCHANGED step
          /\ pc' = [pc EXCEPT ![c] = "executing"]
      BY <1>6, <2>2 DEF Begin, Send
    <3> QED BY <1>2, <1>3, <2>2, <3>1 DEF StepsExist
  <2> QED BY <2>1, <2>2
<1>7. ASSUME NEW c \in Calls, Proceed(c)
      PROVE  StepsExist'
  <2>1. request[c].method # "read" /\ Steady
    BY <1>7 DEF Proceed, StepsExist
  <2>2. CASE step[c] < Len(Statements(request[c]))
    <3> DEFINE e == Command(c, "execute", step[c] + 1)
    <3>1. queue' = Append(queue, e) /\ step' = [step EXCEPT ![c] = step[c] + 1]
      BY <1>7, <2>2 DEF Proceed
    <3>2. Len(Statements(request[c])) \in Nat
      BY <2>1, StatementsKnown
    <3>3. step[c] \in Nat /\ step[c] + 1 \in 1..Len(Statements(request[c]))
      BY <2>2, <3>2
    <3>4. e \in Commands /\ Sane(e)
      BY <1>2, <2>1, <3>3
    <3>5. \A d \in Calls : request[d].method # "read" =>
            step'[d] \in 1..Len(Statements(request[d]))
      BY <3>1, <3>3 DEF StepsExist
    <3> HIDE DEF e
    <3> QED BY <1>1, <2>1, <3>1, <3>4, <3>5, Appended DEF StepsExist
  <2>3. CASE ~(step[c] < Len(Statements(request[c])))
    <3>1. queue' = Append(queue, Command(c, "commit", step[c])) /\ UNCHANGED step
      BY <1>7, <2>3 DEF Proceed, Send
    <3> QED BY <1>2, <1>3, <2>1, <3>1
  <2> QED BY <2>2, <2>3
<1>8. ASSUME NEW c \in Calls, Fail(c) \/ Cancel(c)
      PROVE  StepsExist'
  <2>1. Steady /\ UNCHANGED step
    BY <1>8 DEF Fail, Cancel, StepsExist
  <2>2. CASE queue' = Rollback(c)
    BY <1>2, <1>3, <2>1, <2>2
  <2>3. CASE UNCHANGED queue
    BY <1>4, <2>1, <2>3
  <2> QED BY <1>8, <2>2, <2>3 DEF Fail, Cancel
<1>9. CASE Worker
  <2>1. queue # <<>> /\ queue' = Tail(queue) /\ UNCHANGED <<pc, step>>
    BY <1>9 DEF Worker, Execute, Commit, Select, CommandFails, UndoWork, CloseConnection, Take
  <2>2. \A i \in DOMAIN queue' : i + 1 \in DOMAIN queue /\ queue'[i] = queue[i + 1]
    BY <2>1, Taken
  <2> QED BY <1>1, <2>1, <2>2 DEF StepsExist
<1>10. CASE Initialize \/ EndClose \/ UNCHANGED vars
  BY <1>4, <1>10 DEF Initialize, EndClose, vars, StepsExist
<1>11. CASE Close
  <2> DEFINE e == [call |-> None, command |-> "close", step |-> 1]
  <2>1. e \in Commands /\ Sane(e)
    BY DEF Commands
  <2> QED BY <1>3, <1>11, <2>1 DEF Close, StepsExist
<1>12. CASE Crash
  BY <1>1, <1>12 DEF Crash, StepsExist
<1> QED BY <1>5, <1>6, <1>7, <1>8, <1>9, <1>10, <1>11, <1>12 DEF Next, CallStep

\* Everything executed has a rollback behind it, whoever holds the lock.
RolledBack ==
    /\ \A i \in DOMAIN queue : queue[i].command = "execute" =>
            \E j \in DOMAIN queue : j > i /\ queue[j].command = "rollback"
    /\ work # rows => \E j \in DOMAIN queue : queue[j].command = "rollback"

\* Only the commit that the holder of the lock waits for does the same.
LEMMA OnlyRollbacks ==
    ASSUME TypeOK, StepsExist, Accounted,
           \/ lock = None
           \/ /\ lock \in Calls /\ pc[lock] # "executing"
              /\ pc[lock] = "committing" => Settled(lock) /\ reply[lock] = "done"
    PROVE  RolledBack
<1>1. Covered
  BY ConstantsAssumption DEF Accounted, Writing, CommitFailed
<1>2. \A i \in DOMAIN queue : Resolves(i) => queue[i].command = "rollback"
  BY ConstantsAssumption DEF Resolves, StepsExist, Settled
<1> QED BY <1>1, <1>2 DEF Covered, RolledBack

\* A step that sends nothing and executes nothing leaves the rollbacks where they are.
LEMMA StillRolledBack ==
    ASSUME RolledBack, UNCHANGED <<queue, work, rows>>
    PROVE  Accounted'
  BY DEF RolledBack, Accounted, Covered, Resolves

\* A rollback, or the commit its call waits for, ends what is before it in the queue.
LEMMA EndSent ==
    ASSUME TypeOK, NEW e \in Commands, queue' = Append(queue, e), e.command # "execute",
           \/ e.command = "rollback"
           \/ e.command = "commit" /\ e.call = lock' /\ pc'[e.call] = "committing"
    PROVE  Accounted'
<1> PICK n : n = Len(queue) + 1
  OBVIOUS
<1>1. /\ DOMAIN queue' = DOMAIN queue \cup {n} /\ queue'[n] = e
      /\ \A i \in DOMAIN queue : i < n /\ queue'[i] = queue[i]
  BY Appended DEF TypeOK
<1>2. \/ queue'[n].command = "rollback"
      \/ /\ queue'[n].command = "commit" /\ queue'[n].call = lock'
         /\ pc'[queue'[n].call] = "committing"
  BY <1>1
<1>3. \A i \in DOMAIN queue' : queue'[i].command = "execute" => i < n
  BY <1>1, <1>2
<1> QED BY <1>1, <1>2, <1>3 DEF Accounted, Covered, Resolves

\* What else is sent leaves the transaction as it was, if it executes nothing.
LEMMA OtherSent ==
    ASSUME TypeOK, NEW e \in Commands, queue' = Append(queue, e), e.command # "execute",
           RolledBack, UNCHANGED <<work, rows>>
    PROVE  Accounted'
<1>1. /\ DOMAIN queue' = DOMAIN queue \cup {Len(queue) + 1} /\ queue'[Len(queue) + 1] = e
      /\ \A i \in DOMAIN queue : queue'[i] = queue[i]
  BY Appended DEF TypeOK
<1> QED BY <1>1 DEF Accounted, Covered, RolledBack, Resolves

\* What the calls do leaves no transaction that nobody ends.
LEMMA CallAccounted ==
    ASSUME TypeOK, HolderAtWork, OneAtATime, StepsExist, Accounted,
           NEW c \in Calls, Ask(c) \/ CallStep(c) \/ Cancel(c)
    PROVE  Accounted'
<1> USE ConstantsAssumption DEF TypeOK, HolderAtWork, Active, Ended, Move, callVars, dbVars
<1>1. \A n \in Nat, name \in {"select", "commit", "rollback"} :
        /\ Command(c, name, n) \in Commands
        /\ Command(c, name, n).call = c /\ Command(c, name, n).command = name
  BY DEF Command, Commands
<1>2. CASE lock # c /\ UNCHANGED <<queue, work, rows, lock, reply>>
           /\ \A d \in Calls : d # c => pc'[d] = pc[d]
  <2>1. \A i \in DOMAIN queue : queue[i].command = "commit" /\ queue[i].call = lock =>
            queue[i].call \in Calls /\ pc'[lock] = pc[lock]
    BY <1>2 DEF StepsExist
  <2>2. lock # None => lock \in Calls /\ pc'[lock] = pc[lock]
    BY <1>2
  <2>3. Covered => Covered'
    <3>1. \A j \in DOMAIN queue : Resolves(j) =>
            \/ queue'[j].command = "rollback"
            \/ /\ queue'[j].command = "commit" /\ queue'[j].call = lock'
               /\ pc'[queue'[j].call] = "committing"
      BY <1>2, <2>1 DEF Resolves
    <3>2. UNCHANGED <<queue, work, rows>>
      BY <1>2
    <3> SUFFICES ASSUME Covered
                 PROVE  Covered'
      OBVIOUS
    <3>3. ASSUME NEW i \in DOMAIN queue, queue[i].command = "execute"
          PROVE  \E j \in DOMAIN queue : j > i /\ Resolves(j)
      BY <3>3 DEF Covered
    <3>4. work # rows => \E j \in DOMAIN queue : Resolves(j)
      BY DEF Covered
    <3> QED BY <3>1, <3>2, <3>3, <3>4 DEF Covered, Resolves
  <2>4. Writing => Writing'
    BY <1>2, <2>2 DEF Writing
  <2>5. CommitFailed => CommitFailed'
    BY <1>2, <2>2 DEF CommitFailed, Settled
  <2> QED BY <2>3, <2>4, <2>5 DEF Accounted
<1>3. CASE Ask(c) \/ RefuseClosed(c)
  BY <1>2, <1>3 DEF Ask, RefuseClosed
<1>4. CASE Begin(c)
  <2>1. RolledBack
    BY <1>4, OnlyRollbacks DEF Begin
  <2>2. CASE request[c].method = "read"
    <3>1. queue' = Append(queue, Command(c, "select", step[c])) /\ UNCHANGED <<work, rows>>
      BY <1>4, <2>2 DEF Begin, Send
    <3> QED BY <1>1, <2>1, <3>1, OtherSent
  <2>3. CASE request[c].method # "read"
    BY <1>4, <2>3 DEF Begin, Writing, Accounted
  <2> QED BY <2>2, <2>3
<1>5. CASE Proceed(c)
  <2>1. CASE step[c] < Len(Statements(request[c]))
    BY <1>5, <2>1 DEF Proceed, Writing, Accounted
  <2>2. CASE ~(step[c] < Len(Statements(request[c])))
    <3>1. queue' = Append(queue, Command(c, "commit", step[c]))
          /\ lock' = c /\ pc'[c] = "committing"
      BY <1>5, <2>2 DEF Proceed, Send
    <3> QED BY <1>1, <3>1, EndSent
  <2> QED BY <2>1, <2>2
<1>6. CASE Answer(c)
  <2>1. RolledBack
    BY <1>6, OnlyRollbacks DEF Answer
  <2> QED BY <1>6, <2>1, StillRolledBack DEF Answer
<1>7. CASE Fail(c)
  <2>1. CASE pc[c] = "reading"
    <3>1. RolledBack
      BY <2>1, OnlyRollbacks
    <3> QED BY <1>7, <2>1, <3>1, StillRolledBack DEF Fail
  <2>2. CASE pc[c] # "reading"
    BY <1>1, <1>7, <2>2, EndSent DEF Fail
  <2> QED BY <2>1, <2>2
<1>8. CASE Undone(c)
  <2>1. RolledBack
    BY <1>8, OnlyRollbacks DEF Undone
  <2> QED BY <1>8, <2>1, StillRolledBack DEF Undone
<1>9. CASE Cancel(c)
  <2>1. CASE pc[c] = "waiting"
    BY <1>2, <1>9, <2>1 DEF Cancel
  <2>2. CASE pc[c] \in {"executing", "committing"}
    BY <1>1, <1>9, <2>2, EndSent DEF Cancel
  <2>3. CASE pc[c] \in {"reading", "undoing", "unwinding"}
    <3>1. RolledBack
      BY <2>3, OnlyRollbacks
    <3> QED BY <1>9, <2>3, <3>1, StillRolledBack DEF Cancel
  <2> QED BY <1>9, <2>1, <2>2, <2>3 DEF Cancel
<1> QED BY <1>3, <1>4, <1>5, <1>6, <1>7, <1>8, <1>9 DEF CallStep

\* The worker executes what is covered, and a commit or a rollback covers no less.
LEMMA WorkerAccounted ==
    ASSUME TypeOK, HolderAtWork, OneAtATime, StepsExist, Accounted, Worker
    PROVE  Accounted'
<1> USE ConstantsAssumption DEF TypeOK, HolderAtWork, Active, callVars, dbVars
<1>1. /\ queue # <<>> /\ queue' = Tail(queue) /\ UNCHANGED <<pc, lock>>
      /\ Head(queue) = queue[1] /\ 1 \in DOMAIN queue
  BY Taken DEF Worker, Execute, Commit, Select, CommandFails, UndoWork, CloseConnection, Take
<1>2. \A i \in DOMAIN queue : i \in Nat /\ (i > 1 => i - 1 \in DOMAIN queue' /\ queue'[i - 1] = queue[i])
  BY <1>1, Taken
<1>3. \A i \in DOMAIN queue' : i \in Nat /\ i + 1 \in DOMAIN queue /\ queue'[i] = queue[i + 1]
  BY <1>1, Taken
<1>4. \A d \in Calls : Settled(d) => Settled(d)' /\ queue[1].call # d
  BY <1>1, <1>3 DEF Settled
<1>5. \A i \in DOMAIN queue : i > 1 /\ Resolves(i) =>
        \/ queue'[i - 1].command = "rollback"
        \/ /\ queue'[i - 1].command = "commit" /\ queue'[i - 1].call = lock'
           /\ pc'[queue'[i - 1].call] = "committing"
  BY <1>1, <1>2 DEF Resolves
<1>6. Covered => \A i \in DOMAIN queue' : queue'[i].command = "execute" =>
        \E j \in DOMAIN queue' : j > i /\ Resolves(j)'
  <2> SUFFICES ASSUME Covered, NEW i \in DOMAIN queue', queue'[i].command = "execute"
               PROVE  \E j \in DOMAIN queue' : j > i /\ Resolves(j)'
    OBVIOUS
  <2>1. PICK j \in DOMAIN queue : j > i + 1 /\ Resolves(j)
    BY <1>3 DEF Covered
  <2>2. PICK k \in DOMAIN queue' : k = j - 1 /\ k > i
    BY <1>2, <1>3, <2>1
  <2>3. \/ queue'[k].command = "rollback"
        \/ /\ queue'[k].command = "commit" /\ queue'[k].call = lock'
           /\ pc'[queue'[k].call] = "committing"
    BY <1>2, <1>3, <1>5, <2>1, <2>2
  <2> QED BY <2>2, <2>3 DEF Resolves
<1>7. Writing => Writing'
  BY <1>1 DEF Writing
<1>8. CommitFailed => CommitFailed'
  BY <1>1, <1>4 DEF CommitFailed, Worker, Execute, Commit, Select, CommandFails, UndoWork,
     CloseConnection, Reply
<1>9. CASE Commit \/ UndoWork \/ CloseConnection
  <2>1. CASE work' = rows'
    BY <1>6, <1>7, <1>8, <2>1 DEF Accounted, Covered
  <2> QED BY <1>9, <2>1 DEF Commit, UndoWork, CloseConnection
<1>10. ASSUME Covered, work' # rows' => \E j \in DOMAIN queue : j > 1 /\ Resolves(j)
       PROVE  Covered'
  <2>1. work' # rows' => \E j \in DOMAIN queue' : Resolves(j)'
    <3> SUFFICES ASSUME work' # rows'
                 PROVE  \E j \in DOMAIN queue' : Resolves(j)'
      OBVIOUS
    <3>1. PICK j \in DOMAIN queue : j > 1 /\ Resolves(j)
      BY <1>10
    <3> QED BY <1>2, <1>5, <3>1 DEF Resolves
  <2> QED BY <1>6, <1>10, <2>1 DEF Covered
<1>11. CASE Execute \/ Select
  <2>1. ASSUME Covered
        PROVE  work' # rows' => \E j \in DOMAIN queue : j > 1 /\ Resolves(j)
    <3>1. CASE Execute
      <4>1. queue[1].command = "execute"
        BY <1>1, <3>1 DEF Execute, Take
      <4> QED BY <1>1, <2>1, <4>1 DEF Covered
    <3>2. CASE Select
      <4>1. queue[1].command = "select" /\ UNCHANGED <<work, rows>>
        BY <1>1, <3>2 DEF Select, Take
      <4>2. ~Resolves(1)
        BY <4>1 DEF Resolves
      <4> QED BY <1>2, <2>1, <4>1, <4>2 DEF Covered
    <3> QED BY <1>11, <3>1, <3>2
  <2> QED BY <1>7, <1>8, <1>10, <2>1 DEF Accounted
<1>12. CASE CommandFails
  <2>1. /\ UNCHANGED <<work, rows>> /\ queue[1].command \in {"execute", "commit", "select"}
        /\ queue[1].call \in Calls /\ reply'[queue[1].call] = "failed"
    BY <1>1, <1>12 DEF CommandFails, Take, Reply, StepsExist
  <2>2. CASE Resolves(1)
    <3>1. queue[1].call = lock /\ pc[lock] = "committing"
      BY <2>1, <2>2 DEF Resolves
    <3>2. \A i \in DOMAIN queue : queue[i].call = lock => i = 1
      BY <1>1, <2>1, <3>1 DEF OneAtATime
    <3>3. Settled(lock)'
      BY <1>1, <1>3, <3>2 DEF Settled
    <3> QED BY <1>1, <2>1, <3>1, <3>3 DEF Accounted, CommitFailed
  <2>3. CASE ~Resolves(1)
    <3>1. Covered => Covered'
      BY <1>2, <1>10, <2>1, <2>3 DEF Covered
    <3> QED BY <1>7, <1>8, <3>1 DEF Accounted
  <2> QED BY <2>2, <2>3
<1> QED BY <1>9, <1>11, <1>12 DEF Worker

\* Opening and closing the connection send nothing but the close.
LEMMA ConnectionAccounted ==
    ASSUME TypeOK, Accounted, Initialize \/ Close \/ EndClose \/ UNCHANGED vars
    PROVE  Accounted'
<1> USE ConstantsAssumption DEF TypeOK, callVars, dbVars
<1>1. UNCHANGED <<work, rows, pc, lock, reply>>
  BY DEF Initialize, Close, EndClose, vars
<1>2. CASE UNCHANGED queue
  BY <1>1, <1>2 DEF Accounted, Covered, Resolves, Writing, CommitFailed, Settled
<1>3. CASE Close
  <2> DEFINE e == [call |-> None, command |-> "close", step |-> 1]
  <2>1. e \in Commands /\ e.call = None /\ e.command = "close"
    BY DEF Commands
  <2>2. queue' = Append(queue, e)
    BY <1>3 DEF Close
  <2> HIDE DEF e
  <2>3. /\ DOMAIN queue' = DOMAIN queue \cup {Len(queue) + 1} /\ queue'[Len(queue) + 1] = e
        /\ \A i \in DOMAIN queue : queue'[i] = queue[i]
    BY <2>1, <2>2, Appended
  <2>4. \A j \in DOMAIN queue : Resolves(j) =>
          \/ queue'[j].command = "rollback"
          \/ /\ queue'[j].command = "commit" /\ queue'[j].call = lock'
             /\ pc'[queue'[j].call] = "committing"
    BY <1>1, <2>3 DEF Resolves
  <2>5. ASSUME Covered
        PROVE  Covered'
    <3>1. ASSUME NEW i \in DOMAIN queue', queue'[i].command = "execute"
          PROVE  \E j \in DOMAIN queue : j > i /\ Resolves(j)
      BY <2>1, <2>3, <2>5, <3>1 DEF Covered
    <3>2. work # rows => \E j \in DOMAIN queue : Resolves(j)
      BY <2>5 DEF Covered
    <3> QED BY <1>1, <2>3, <2>4, <3>1, <3>2 DEF Covered, Resolves
  <2>6. Writing => Writing'
    BY <1>1 DEF Writing
  <2>7. CommitFailed => CommitFailed'
    BY <1>1, <2>1, <2>3 DEF CommitFailed, Settled
  <2> QED BY <2>5, <2>6, <2>7 DEF Accounted
<1> QED BY <1>2, <1>3 DEF Initialize, EndClose, vars

-----------------------------------------------------------------------------
(* The theorems.                                                           *)

\* It holds at the start.
LEMMA Initially == Init => IndInv
<1> SUFFICES ASSUME Init PROVE IndInv
  OBVIOUS
<1> USE ConstantsAssumption DEF Init, Active, Ended
<1>1. TypeOK /\ HolderAtWork /\ OneAtATime /\ Accounted
  BY DEF TypeOK, HolderAtWork, OneAtATime, Settled, Accounted, Covered
<1>2. StepsExist
  BY StatementsKnown DEF StepsExist
<1> QED BY <1>1, <1>2 DEF IndInv

\* Every step keeps the invariant of the queue.
LEMMA Inductive ==
    ASSUME IndInv, [Next]_vars
    PROVE  IndInv'
<1> USE DEF IndInv
<1>1. TypeOK' /\ HolderAtWork' /\ OneAtATime' /\ StepsExist'
  BY TypeStep, HolderStep, OneAtATimeStep, StepsStep
<1>2. ASSUME Initialize \/ Close \/ EndClose \/ UNCHANGED vars
      PROVE  Accounted'
  BY <1>2, ConnectionAccounted
<1>3. ASSUME Crash
      PROVE  Accounted'
  BY <1>3 DEF Crash, Accounted, Covered
<1>4. ASSUME NEW c \in Calls, Ask(c) \/ CallStep(c) \/ Cancel(c)
      PROVE  Accounted'
  BY <1>4, CallAccounted
<1>5. ASSUME Worker
      PROVE  Accounted'
  BY <1>5, WorkerAccounted
<1>6. Accounted'
  BY <1>2, <1>3, <1>4, <1>5 DEF Next
<1> QED BY <1>1, <1>6

\* The invariant is inductive.
THEOREM Invariance == Spec => []IndInv
<1>1. IndInv /\ [Next]_vars => IndInv'
  BY Inductive
<1> QED BY Initially, <1>1, PTL DEF Spec

\* Every variable keeps its type.
THEOREM TypeCorrect == Spec => []TypeOK
<1>1. IndInv => TypeOK BY DEF IndInv
<1> QED BY Invariance, <1>1, PTL

\* When no call is at work, the connection has no open transaction: nothing that a
\* failed or cancelled call executed is left for the next commit.
THEOREM NothingLeft == Spec => []NothingIsLeftOpen
<1>1. IndInv => NothingIsLeftOpen
  BY DEF IndInv, NothingIsLeftOpen, Accounted, Covered, Writing, CommitFailed
<1> QED BY Invariance, <1>1, PTL

-----------------------------------------------------------------------------
(* The statements of a call, and what the store promises of them.          *)

\* The one statement of a method that is no prune.
LEMMA OneStatement ==
    ASSUME NEW q \in Requests, q.method \notin {"read", "prune"}
    PROVE  /\ Len(Statements(q)) = 1
           /\ Statements(q)[1].key = q.key /\ Statements(q)[1].time = q.time
           /\ q.method \in DOMAIN Store!Upserts =>
                Statements(q)[1].op = "upsert" /\ Statements(q)[1].table = Store!Upserts[q.method]
           /\ q.method \in DOMAIN Store!Deletes =>
                Statements(q)[1].op = "delete" /\ Statements(q)[1].table = Store!Deletes[q.method]
           /\ q.method \in DOMAIN Store!Inserts =>
                Statements(q)[1].op = "insert" /\ Statements(q)[1].table = Store!Inserts[q.method]
           /\ q.method \in DOMAIN Store!Upserts \cup DOMAIN Store!Deletes \cup DOMAIN Store!Inserts
           /\ DOMAIN Store!Upserts \cap DOMAIN Store!Deletes = {}
           /\ DOMAIN Store!Upserts \cap DOMAIN Store!Inserts = {}
           /\ DOMAIN Store!Deletes \cap DOMAIN Store!Inserts = {}
<1>1. q.method \in Methods
  BY ConstantsAssumption
<1>2. \E op \in {"upsert", "insert", "delete"}, t \in {"checkpoints", "operations", "capabilities", "plans", "queries", "plugins"} :
        Statements(q) = <<[op |-> op, table |-> t, key |-> q.key, time |-> q.time]>>
  BY <1>1 DEF Statements, Methods, Upsert, Insert, Delete
<1> QED BY <1>1, <1>2 DEF Methods, Statements, Upsert, Insert, Delete, Store!Upserts, Store!Deletes, Store!Inserts

\* A prune has four statements, one for each table whose rows age.
LEMMA PruneStatements ==
    ASSUME NEW q \in Requests, q.method = "prune"
    PROVE  /\ Statements(q) = Prune(q) /\ Len(Statements(q)) = 4
           /\ \A i \in 1..4 : Prune(q)[i].op = "age" /\ Prune(q)[i].table = PruneTables[i]
                              /\ Prune(q)[i].time = q.time
           /\ {PruneTables[i] : i \in 1..4} = {"checkpoints", "plans", "operations", "queries"}
<1>1. Statements(q) = Prune(q)
  BY DEF Statements
<1>3. Len(Prune(q)) = 4
  <2> DEFINE S == {Prune(q)[i] : i \in 1..4}
  <2>1. Prune(q) \in [1..4 -> S]
    BY DEF Prune
  <2> HIDE DEF S
  <2>2. Prune(q) \in Seq(S)
    BY <2>1, SeqDef
  <2>3. 1..Len(Prune(q)) = 1..4 /\ Len(Prune(q)) \in Nat
    BY <2>1, <2>2, LenProperties
  <2>4. ASSUME NEW n \in Nat, 1..n = 1..4
        PROVE  n = 4
    <3>1. \A i \in Int : i \in 1..n <=> i \in 1..4
      BY <2>4
    <3>2. 4 <= n /\ ~(5 <= n)
      BY <3>1
    <3> QED BY <3>2
  <2> QED BY <2>3, <2>4
<1>4. \A i \in 1..4 : Prune(q)[i].op = "age" /\ Prune(q)[i].table = PruneTables[i]
                              /\ Prune(q)[i].time = q.time
  BY DEF Prune
<1>5. {PruneTables[i] : i \in 1..4} = {"checkpoints", "plans", "operations", "queries"}
  <2>1. \A i \in 1..4 : i = 1 \/ i = 2 \/ i = 3 \/ i = 4
    OBVIOUS
  <2> QED BY <2>1 DEF PruneTables
<1> QED BY <1>1, <1>3, <1>4, <1>5

\* Each statement takes the transaction one step further.
LEMMA AfterNext ==
    ASSUME NEW q \in Requests, q.method # "read", NEW db, NEW n \in 1..Len(Statements(q))
    PROVE  Executed(After(db, q, n - 1), Statements(q)[n]) = After(db, q, n)
<1>1. CASE q.method = "prune"
  <2>1. n \in 1..4 /\ Statements(q) = Prune(q) /\ Prune(q)[n].op = "age"
    BY <1>1, PruneStatements
  <2>2. Executed(After(db, q, n - 1), Statements(q)[n])
            = {r \in After(db, q, n - 1) : ~Matches(r, Prune(q)[n])}
    BY <2>1 DEF Executed
  <2>3. After(db, q, n - 1) = {r \in db : \A i \in 1..(n - 1) : ~Matches(r, Prune(q)[i])}
    BY <1>1, <2>1 DEF After
  <2>4. 1..n = 1..(n - 1) \cup {n}
    BY <2>1
  <2>5. After(db, q, n) = {r \in db : \A i \in 1..n : ~Matches(r, Prune(q)[i])}
    BY <1>1, <2>1 DEF After
  <2> QED BY <2>2, <2>3, <2>4, <2>5
<1>2. CASE q.method # "prune"
  <2>1. n = 1
    BY <1>2, OneStatement
  <2> QED BY <1>2, <2>1 DEF After
<1> QED BY <1>1, <1>2

\* All of them together have the effect that the store promises.
LEMMA AfterAll ==
    ASSUME NEW q \in Requests, q.method # "read", NEW db \in SUBSET Row
    PROVE  After(db, q, Len(Statements(q))) = Store!Effect(db, q)
<1>1. CASE q.method = "prune"
  <2>1. After(db, q, 4) = {r \in db : \A i \in 1..4 : ~Matches(r, Prune(q)[i])}
    BY <1>1 DEF After
  <2>2. \A r \in db : (\A i \in 1..4 : ~Matches(r, Prune(q)[i])) <=> r \notin Store!Stale(db, q.time)
    <3>1. \A r \in db, i \in 1..4 : Matches(r, Prune(q)[i]) <=> r.table = PruneTables[i] /\ r.time < q.time
      BY <1>1, PruneStatements DEF Matches
    <3>2. \A t : t \in {"checkpoints", "plans", "operations", "queries"} <=> \E i \in 1..4 : t = PruneTables[i]
      BY <1>1, PruneStatements
    <3>3. ASSUME NEW r \in db
          PROVE  (\A i \in 1..4 : ~Matches(r, Prune(q)[i])) <=>
                    ~(r.table \in {"checkpoints", "plans", "operations", "queries"} /\ r.time < q.time)
      <4>1. (\E i \in 1..4 : Matches(r, Prune(q)[i])) <=>
                (\E i \in 1..4 : r.table = PruneTables[i]) /\ r.time < q.time
        BY <3>1
      <4> QED BY <3>2, <4>1
    <3> QED BY <3>3 DEF Store!Stale
  <2>3. Store!Effect(db, q) = db \ Store!Stale(db, q.time)
    BY <1>1 DEF Store!Effect, Store!Upserts, Store!Deletes, Store!Inserts
  <2> QED BY <1>1, <2>1, <2>2, <2>3, PruneStatements
<1>2. CASE q.method # "prune"
  <2> DEFINE st == Statements(q)[1]
  <2>1. Len(Statements(q)) = 1 /\ After(db, q, 1) = Executed(db, st)
    BY <1>2, OneStatement DEF After
  <2>2. \A r \in db : \A t : st.op # "age" /\ st.table = t =>
            (Matches(r, st) <=> r \in Store!Under(db, t, q.key))
    BY <1>2, OneStatement DEF Matches, Store!Under
  <2> HIDE DEF st
  <2>3. CASE q.method \in DOMAIN Store!Upserts
    <3>1. st.op = "upsert" /\ st.table = Store!Upserts[q.method] /\ st.key = q.key /\ st.time = q.time
      BY <1>2, <2>3, OneStatement DEF st
    <3>2. Store!Effect(db, q) = (db \ Store!Under(db, Store!Upserts[q.method], q.key))
                                    \cup {Store!Row(Store!Upserts[q.method], q)}
      BY <1>2, <2>3, OneStatement DEF Store!Effect
    <3> QED BY <2>1, <2>2, <3>1, <3>2 DEF Executed, Store!Row
  <2>4. CASE q.method \in DOMAIN Store!Deletes
    <3>1. st.op = "delete" /\ st.table = Store!Deletes[q.method]
      BY <1>2, <2>4, OneStatement DEF st
    <3>2. Store!Effect(db, q) = db \ Store!Under(db, Store!Deletes[q.method], q.key)
      BY <1>2, <2>4, OneStatement DEF Store!Effect
    <3> QED BY <2>1, <2>2, <3>1, <3>2 DEF Executed
  <2>5. CASE q.method \in DOMAIN Store!Inserts
    <3>1. st.op = "insert" /\ st.table = Store!Inserts[q.method] /\ st.key = q.key /\ st.time = q.time
      BY <1>2, <2>5, OneStatement DEF st
    <3>2. Store!Effect(db, q) = db \cup {Store!Row(Store!Inserts[q.method], q)}
      BY <1>2, <2>5, OneStatement DEF Store!Effect
    <3> QED BY <2>1, <3>1, <3>2 DEF Executed, Store!Row
  <2> QED BY <1>2, <2>3, <2>4, <2>5, OneStatement
<1> QED BY <1>1, <1>2

\* What the store does not accept twice, the primary key refuses.
LEMMA DuplicateFails ==
    ASSUME NEW q \in Requests, q.method # "read", NEW db,
           ~PrimaryKeyFails(db, Statements(q)[1])
    PROVE  ~Store!Duplicate(db, q)
<1> SUFFICES ASSUME q.method = "save_operation", Store!Under(db, "operations", q.key) # {}
             PROVE  FALSE
  BY DEF Store!Duplicate
<1>1. Statements(q)[1] = [op |-> "insert", table |-> "operations", key |-> q.key, time |-> q.time]
  BY DEF Statements, Insert
<1> QED BY <1>1 DEF PrimaryKeyFails, Matches, Store!Under

-----------------------------------------------------------------------------
(* Places in the queue.                                                    *)

\* What is sent goes behind, and leaves the places of the queue as clean as they were.
LEMMA PlacesKept ==
    ASSUME TypeOK, NEW e \in Commands, queue' = Append(queue, e), UNCHANGED <<work, rows>>,
           NEW n, n = Len(queue) + 1
    PROVE  /\ \A i \in DOMAIN queue \cup {n} : Clean(i) => Clean(i)'
           /\ \A i \in DOMAIN queue \cup {n} : Harmless(0, i) => Harmless(0, i)'
           /\ e.command \in {"select", "close"} /\ Clean(n) => Clean(n + 1)'
           /\ e.command = "rollback" => Clean(n + 1)'
           /\ Len(queue') = n /\ n \in Nat
<1>1. /\ DOMAIN queue' = DOMAIN queue \cup {n} /\ queue'[n] = e
      /\ \A i \in DOMAIN queue : i \in Nat /\ i < n /\ queue'[i] = queue[i]
      /\ n \in Nat /\ Len(queue') = n
  BY Appended DEF TypeOK
<1>2. \A from, i \in Nat : i <= n /\ Harmless(from, i) => Harmless(from, i)'
  BY <1>1 DEF Harmless
<1>3. \A i \in DOMAIN queue \cup {n} : i \in Nat /\ i <= n
  BY <1>1
<1>4. \A i \in DOMAIN queue \cup {n} : Clean(i) => Clean(i)'
  <2> SUFFICES ASSUME NEW i \in DOMAIN queue \cup {n}, Clean(i) PROVE Clean(i)'
    OBVIOUS
  <2>1. CASE work = rows /\ Harmless(0, i)
    BY <1>2, <1>3, <2>1 DEF Clean
  <2>2. CASE \E j \in DOMAIN queue : j < i /\ queue[j].command = "rollback" /\ Harmless(j, i)
    <3>1. PICK j \in DOMAIN queue : j < i /\ queue[j].command = "rollback" /\ Harmless(j, i)
      BY <2>2
    <3>2. Harmless(j, i)' /\ queue'[j].command = "rollback" /\ j \in DOMAIN queue'
      BY <1>1, <1>2, <1>3, <3>1
    <3> QED BY <3>1, <3>2 DEF Clean
  <2> QED BY <2>1, <2>2 DEF Clean
<1>5. ASSUME e.command \in {"select", "close"}, Clean(n)
      PROVE  Clean(n + 1)'
  <2>1. \A from \in Nat : Harmless(from, n) => Harmless(from, n + 1)'
    BY <1>1, <1>5 DEF Harmless
  <2>2. CASE work = rows /\ Harmless(0, n)
    BY <2>1, <2>2 DEF Clean
  <2>3. CASE \E j \in DOMAIN queue : j < n /\ queue[j].command = "rollback" /\ Harmless(j, n)
    <3>1. PICK j \in DOMAIN queue : j < n /\ queue[j].command = "rollback" /\ Harmless(j, n)
      BY <2>3
    <3>2. Harmless(j, n + 1)' /\ queue'[j].command = "rollback" /\ j \in DOMAIN queue' /\ j < n + 1
      BY <1>1, <2>1, <3>1
    <3> QED BY <3>2 DEF Clean
  <2> QED BY <1>5, <2>2, <2>3 DEF Clean
<1>6. e.command = "rollback" => Clean(n + 1)'
  <2>1. Harmless(n, n + 1)'
    BY <1>1 DEF Harmless
  <2> QED BY <1>1, <2>1 DEF Clean
<1> QED BY <1>1, <1>2, <1>3, <1>4, <1>5, <1>6

\* What is taken from the front brings each place one nearer, as clean as it was.
LEMMA PlacesMove ==
    ASSUME TypeOK, queue # <<>>, queue' = Tail(queue),
           queue[1].command \in {"rollback", "close"} => work' = rows',
           queue[1].command = "select" => UNCHANGED <<work, rows>>
    PROVE  /\ \A i \in Nat : i >= 1 /\ Clean(i + 1) => Clean(i)'
           /\ \A i \in Nat : i >= 1 /\ Harmless(0, i + 1) => Harmless(0, i)'
           /\ \A i \in Nat : i >= 1 /\ OnlyCloses(i + 1) => OnlyCloses(i)'
           /\ Len(queue) = Len(queue') + 1 /\ Len(queue') \in Nat
<1>1. /\ 1 \in DOMAIN queue
      /\ \A i \in DOMAIN queue' : i \in Nat /\ i >= 1 /\ i + 1 \in DOMAIN queue /\ queue'[i] = queue[i + 1]
      /\ \A i \in DOMAIN queue : i \in Nat /\ i >= 1
      /\ \A i \in DOMAIN queue : i > 1 => i - 1 \in DOMAIN queue' /\ queue'[i - 1] = queue[i]
  BY Taken DEF TypeOK
<1>2. \A from, i \in Nat : Harmless(from + 1, i + 1) => Harmless(from, i)'
  BY <1>1 DEF Harmless
<1>3. \A i \in Nat : i >= 1 /\ Harmless(0, i + 1) => Harmless(0, i)'
  <2> SUFFICES ASSUME NEW i \in Nat, Harmless(0, i + 1), NEW k \in DOMAIN queue', k < i
               PROVE  queue'[k].command \in {"select", "close"}
    BY DEF Harmless
  <2>1. k + 1 \in DOMAIN queue /\ 0 < k + 1 /\ k + 1 < i + 1 /\ queue'[k] = queue[k + 1]
    BY <1>1
  <2> QED BY <2>1 DEF Harmless
<1>4. ASSUME NEW i \in Nat, i >= 1, Clean(i + 1)
      PROVE  Clean(i)'
  <2>1. CASE work = rows /\ Harmless(0, i + 1)
    <3>1. queue[1].command \in {"select", "close"}
      BY <1>1, <1>4, <2>1 DEF Harmless
    <3> QED BY <1>3, <1>4, <2>1, <3>1 DEF Clean
  <2>2. CASE \E j \in DOMAIN queue : j < i + 1 /\ queue[j].command = "rollback" /\ Harmless(j, i + 1)
    <3>1. PICK j \in DOMAIN queue : j < i + 1 /\ queue[j].command = "rollback" /\ Harmless(j, i + 1)
      BY <2>2
    <3>2. CASE j = 1
      <4>1. Harmless(0, i)'
        BY <1>2, <1>4, <3>1, <3>2
      <4> QED BY <3>1, <3>2, <4>1 DEF Clean
    <3>3. CASE j > 1
      <4> PICK k \in Nat : j = k + 1
        BY <1>1, <3>3
      <4>1. k \in DOMAIN queue' /\ queue'[k].command = "rollback" /\ k < i
        BY <1>1, <1>4, <3>1, <3>3
      <4>2. Harmless(k, i)'
        BY <1>2, <1>4, <3>1
      <4> QED BY <4>1, <4>2 DEF Clean
    <3> QED BY <1>1, <3>2, <3>3
  <2> QED BY <1>4, <2>1, <2>2 DEF Clean
<1>5. \A i \in Nat : i >= 1 /\ OnlyCloses(i + 1) => OnlyCloses(i)'
  BY <1>1 DEF OnlyCloses
<1>6. Len(queue) = Len(queue') + 1 /\ Len(queue') \in Nat
  BY DEF TypeOK
<1> QED BY <1>3, <1>4, <1>5, <1>6

-----------------------------------------------------------------------------
(* The worker thread.                                                      *)

\* What the worker thread does to the command at the head of the queue.
LEMMA WorkerDoes ==
    ASSUME TypeOK, HolderAtWork, OneAtATime, StepsExist, StoreInv, Worker
    PROVE  LET h == queue[1]
           IN  /\ queue # <<>> /\ queue' = Tail(queue) /\ UNCHANGED <<pc, lock, step, request>>
               /\ h.command # "close" => h.call \in Calls
               /\ \/ landed' = landed
                  \/ h.command \in {"commit", "select"} /\ landed' = landed \cup {h.call}
               /\ h.command \in {"commit", "select"} =>
                    (h.call \in landed' <=> reply'[h.call] = "done")
               /\ \A d \in Calls : d # h.call => reply'[d] = reply[d]
               /\ h.command = "close" => ~Usable' /\ work' = rows' /\ UNCHANGED reply
               /\ h.command = "rollback" => work' = rows'
               /\ h.command = "select" => UNCHANGED <<work, rows>>
               /\ h.command = "commit" /\ reply'[h.call] = "done" => work' = rows'
               /\ \A c \in Calls : /\ h.command = "execute" /\ h.call = c
                                  /\ pc[c] = "executing" /\ reply'[c] = "done"
                                  => Ran(c, step[c])'
               /\ Usable' => Usable
<1> USE ConstantsAssumption DEF TypeOK, callVars
<1> DEFINE h == queue[1]
<1>1. /\ queue # <<>> /\ queue' = Tail(queue) /\ UNCHANGED <<pc, lock, step, request>>
      /\ Head(queue) = h /\ 1 \in DOMAIN queue
  BY Taken DEF Worker, Execute, Commit, Select, CommandFails, UndoWork, CloseConnection, Take
<1>2. h.command # "close" => h.call \in Calls
  BY <1>1 DEF StepsExist
<1>3. h.command \in {"commit", "select"} => h.call \notin landed
  BY <1>1 DEF StoreInv, CommitsWhole, Whole, ReadsCommitted, Fresh
<1> HIDE DEF h
<1>4. CASE Execute
  <2>1. h.command = "execute" /\ UNCHANGED <<rows, landed, connection, request>>
        /\ reply' = [reply EXCEPT ![h.call] = "done"] /\ h.call \in Calls
    BY <1>1, <1>2, <1>4 DEF Execute, Take, Reply
  <2>2. ASSUME NEW c \in Calls, h.call = c, pc[c] = "executing"
        PROVE  Ran(c, step[c])'
    <3> DEFINE n == step[c]  q == request[c]
    <3>1. InTurn(c, 1)
      BY <1>1, <2>1, <2>2 DEF StoreInv, ExecutesInTurn, h
    <3>2. h.step = n /\ Usable
      BY <1>4, <3>1 DEF InTurn, h, Execute
    <3>3. q \in Requests /\ q.method # "read" /\ n \in 1..Len(Statements(q)) /\ n \in Nat
      BY <1>1, <2>1, <2>2, <3>2 DEF StepsExist, h
    <3>4. work' = Executed(work, Statements(q)[n]) /\ ~PrimaryKeyFails(work, Statements(q)[n])
      BY <1>1, <1>4, <2>2, <3>2 DEF Execute
    <3>5. work = After(rows, q, n - 1) /\ ~PrimaryKeyFails(rows, Statements(q)[1])
      <4>1. CASE n = 1
        <5>1. work = rows
          BY <3>1, <4>1 DEF InTurn, Clean
        <5> QED BY <3>4, <4>1, <5>1 DEF After
      <4>2. CASE n > 1
        BY <3>1, <3>2, <4>2 DEF InTurn, Ran
      <4> QED BY <3>3, <4>1, <4>2
    <3>6. work' = After(rows, q, n)
      BY <3>3, <3>4, <3>5, AfterNext
    <3> QED BY <1>1, <2>1, <3>5, <3>6 DEF Ran
  <2> QED BY <1>1, <1>2, <2>1, <2>2 DEF h, Usable
<1>5. CASE Commit
  <2>1. h.command = "commit" /\ UNCHANGED <<work, connection>> /\ rows' = work
        /\ landed' = landed \cup {h.call}
        /\ reply' = [reply EXCEPT ![h.call] = "done"] /\ h.call \in Calls
    BY <1>1, <1>2, <1>5 DEF Commit, Take, Reply
  <2> QED BY <1>1, <1>2, <2>1 DEF h, Usable
<1>6. CASE Select
  <2>1. h.command = "select" /\ UNCHANGED <<work, rows, connection>>
        /\ landed' = landed \cup {h.call}
        /\ reply' = [reply EXCEPT ![h.call] = "done"] /\ h.call \in Calls
    BY <1>1, <1>2, <1>6 DEF Select, Take, Reply
  <2> QED BY <1>1, <1>2, <2>1 DEF h, Usable
<1>7. CASE CommandFails
  <2>1. h.command \in {"execute", "commit", "select"} /\ UNCHANGED <<work, rows, landed, connection>>
        /\ reply' = [reply EXCEPT ![h.call] = "failed"] /\ h.call \in Calls
    BY <1>1, <1>2, <1>7 DEF CommandFails, Take, Reply
  <2> QED BY <1>1, <1>2, <1>3, <2>1 DEF h, Usable
<1>8. CASE UndoWork
  <2>1. h.command = "rollback" /\ UNCHANGED <<rows, landed, connection>> /\ work' = rows
        /\ reply' = [reply EXCEPT ![h.call] = "done"] /\ h.call \in Calls
    BY <1>1, <1>2, <1>8 DEF UndoWork, Take, Reply
  <2> QED BY <1>1, <1>2, <2>1 DEF h, Usable
<1>9. CASE CloseConnection
  <2>1. h.command = "close" /\ UNCHANGED <<rows, landed, reply>> /\ work' = rows /\ connection' = "closed"
    BY <1>1, <1>9 DEF CloseConnection, Take
  <2> QED BY <1>1, <1>2, <2>1 DEF h, Usable
<1> QED BY <1>4, <1>5, <1>6, <1>7, <1>8, <1>9 DEF Worker

\* Whatever the worker does keeps the invariant.
LEMMA WorkerStore ==
    ASSUME TypeOK, HolderAtWork, OneAtATime, StepsExist, StoreInv, Worker
    PROVE  StoreInv'
<1> USE ConstantsAssumption DEF TypeOK
<1> DEFINE h == queue[1]
<1>1. /\ queue # <<>> /\ queue' = Tail(queue) /\ UNCHANGED <<pc, lock, step, request>>
      /\ h.command # "close" => h.call \in Calls
      /\ \/ landed' = landed
         \/ h.command \in {"commit", "select"} /\ landed' = landed \cup {h.call}
      /\ h.command \in {"commit", "select"} => (h.call \in landed' <=> reply'[h.call] = "done")
      /\ \A d \in Calls : d # h.call => reply'[d] = reply[d]
      /\ h.command = "close" => ~Usable' /\ work' = rows' /\ UNCHANGED reply
      /\ h.command = "rollback" => work' = rows'
      /\ h.command = "select" => UNCHANGED <<work, rows>>
      /\ h.command = "commit" /\ reply'[h.call] = "done" => work' = rows'
      /\ \A c \in Calls : /\ h.command = "execute" /\ h.call = c
                         /\ pc[c] = "executing" /\ reply'[c] = "done"
                         => Ran(c, step[c])'
      /\ Usable' => Usable
  BY WorkerDoes
<1>2. /\ 1 \in DOMAIN queue
      /\ \A i \in DOMAIN queue' : i \in Nat /\ i >= 1 /\ i + 1 \in DOMAIN queue /\ queue'[i] = queue[i + 1]
      /\ \A i \in DOMAIN queue : i \in Nat /\ i >= 1
      /\ \A i \in DOMAIN queue : i > 1 => i - 1 \in DOMAIN queue' /\ queue'[i - 1] = queue[i]
  BY <1>1, Taken
<1>3. /\ \A i \in Nat : i >= 1 /\ Clean(i + 1) => Clean(i)'
      /\ \A i \in Nat : i >= 1 /\ Harmless(0, i + 1) => Harmless(0, i)'
      /\ \A i \in Nat : i >= 1 /\ OnlyCloses(i + 1) => OnlyCloses(i)'
      /\ Len(queue) = Len(queue') + 1 /\ Len(queue') \in Nat
  BY <1>1, PlacesMove
<1>4. h.command \in {"commit", "select"} =>
        /\ h.call \notin landed
        /\ pc[h.call] \in {"committing", "unwinding", "cancelled", "reading"}
  BY <1>2 DEF StoreInv, CommitsWhole, Whole, ReadsCommitted, Fresh
<1>5. \A d \in Calls : Settled(d)' =>
        \/ Settled(d) /\ h.call # d
        \/ h.call = d /\ \A i \in DOMAIN queue : queue[i].call = d => i = 1
  <2> SUFFICES ASSUME NEW d \in Calls, Settled(d)', NEW i \in DOMAIN queue, queue[i].call = d
               PROVE  i = 1
    BY <1>2 DEF Settled
  <2>1. ASSUME i > 1
        PROVE  i - 1 \in DOMAIN queue' /\ queue'[i - 1].call = d
    BY <1>2, <2>1
  <2>2. ~(i > 1)
    BY <2>1 DEF Settled
  <2> QED BY <1>2, <2>2
<1>6. \A c, n : UNCHANGED <<work, rows>> /\ Ran(c, n) => Ran(c, n)'
  BY <1>1 DEF Ran
<1>7. OnlyCloses(1) => h.command = "close" /\ OnlyCloses(1)'
  <2>1. OnlyCloses(1) => OnlyCloses(2)
    BY DEF OnlyCloses
  <2> QED BY <1>2, <1>3, <2>1 DEF OnlyCloses
<1> HIDE DEF h
<1>8. NextIsClean'
  BY <1>1, <1>3 DEF StoreInv, NextIsClean
<1>9. CommitsWhole'
  <2> SUFFICES ASSUME NEW i \in DOMAIN queue', queue'[i].command = "commit"
               PROVE  Whole(i)'
    BY DEF CommitsWhole
  <2>1. Whole(i + 1) /\ queue'[i] = queue[i + 1] /\ i >= 1 /\ i \in Nat
    BY <1>2 DEF StoreInv, CommitsWhole
  <2>2. h.command = "close" /\ ~Usable' /\ landed' = landed
    BY <1>1, <1>2, <2>1 DEF Whole, h
  <2>3. \A k \in DOMAIN queue' : k < i => queue'[k].command = "close"
    BY <1>2, <2>1 DEF Whole
  <2> QED BY <1>1, <2>1, <2>2, <2>3 DEF Whole
<1>10. ReadsCommitted'
  <2> SUFFICES ASSUME NEW i \in DOMAIN queue', queue'[i].command = "select"
               PROVE  Fresh(i)'
    BY DEF ReadsCommitted
  <2>1. Fresh(i + 1) /\ queue'[i] = queue[i + 1] /\ i >= 1 /\ i \in Nat
    BY <1>2 DEF StoreInv, ReadsCommitted
  <2>2. h.call # queue[i + 1].call
    BY <1>2, <2>1 DEF Fresh, h
  <2>3. queue[i + 1].call \notin landed'
    BY <1>1, <2>1, <2>2 DEF Fresh
  <2>4. \A j \in DOMAIN queue' : queue'[j].call = queue'[i].call => j = i
    <3> SUFFICES ASSUME NEW j \in DOMAIN queue', queue'[j].call = queue'[i].call PROVE j = i
      OBVIOUS
    <3>1. j + 1 = i + 1
      BY <1>2, <2>1 DEF Fresh
    <3> QED BY <1>2, <3>1
  <2>5. Clean(i)'
    BY <1>3, <2>1 DEF Fresh
  <2> QED BY <1>1, <2>1, <2>3, <2>4, <2>5 DEF Fresh
<1>11. ExecutesInTurn'
  <2> SUFFICES ASSUME NEW c \in Calls, pc[c] = "executing"
               PROVE  /\ \A i \in DOMAIN queue' : queue'[i].call = c => InTurn(c, i)'
                      /\ Settled(c)' /\ reply'[c] = "done" =>
                            OnlyCloses(1)' /\ (Usable' => Ran(c, step[c])')
    BY <1>1 DEF StoreInv, ExecutesInTurn
  <2>1. ASSUME NEW i \in DOMAIN queue', queue'[i].call = c
        PROVE  InTurn(c, i)'
    <3>1. InTurn(c, i + 1) /\ queue'[i] = queue[i + 1] /\ i >= 1 /\ i \in Nat
      BY <1>2, <2>1 DEF StoreInv, ExecutesInTurn
    <3>2. OnlyCloses(i + 1)' /\ (step[c] = 1 => Clean(i)')
      BY <1>3, <3>1 DEF InTurn
    <3>3. ASSUME step[c] > 1
          PROVE  Harmless(0, i)' /\ (Usable' => Ran(c, step[c] - 1)')
      <4>1. h.command \in {"select", "close"}
        BY <1>2, <3>1, <3>3 DEF InTurn, Harmless, h
      <4> QED BY <1>1, <1>3, <1>6, <3>1, <3>3, <4>1 DEF InTurn
    <3> QED BY <1>1, <3>1, <3>2, <3>3 DEF InTurn
  <2>2. ASSUME Settled(c)', reply'[c] = "done"
        PROVE  OnlyCloses(1)' /\ (Usable' => Ran(c, step[c])')
    <3>1. CASE Settled(c) /\ h.call # c
      <4>1. OnlyCloses(1)
        BY <1>1, <2>2, <3>1 DEF StoreInv, ExecutesInTurn
      <4> QED BY <1>1, <1>7, <4>1
    <3>2. CASE h.call = c
      <4>1. InTurn(c, 1)
        BY <1>2, <3>2 DEF StoreInv, ExecutesInTurn, h
      <4>2. h.command = "execute" /\ OnlyCloses(1)'
        <5>1. h.command = "execute" /\ OnlyCloses(2)
          BY <4>1 DEF InTurn, h, OnlyCloses
        <5> QED BY <1>3, <5>1
      <4> QED BY <1>1, <2>2, <3>2, <4>2
    <3> QED BY <1>5, <2>2, <3>1, <3>2
  <2> QED BY <2>1, <2>2
<1>12. ToldTruly'
  <2> SUFFICES ASSUME NEW c \in Calls
               PROVE  /\ pc[c] \in {"idle", "waiting", "executing", "undoing"} => c \notin landed'
                      /\ pc[c] = "committing" =>
                          /\ \A i \in DOMAIN queue' : queue'[i].call = c =>
                                queue'[i].command = "commit" /\ OnlyCloses(i + 1)'
                          /\ Settled(c)' /\ reply'[c] = "done" => OnlyCloses(1)' /\ work' = rows'
                      /\ pc[c] = "reading" => \A i \in DOMAIN queue' : queue'[i].call = c =>
                                queue'[i].command = "select"
                      /\ pc[c] = "undoing" => \A i \in DOMAIN queue' : queue'[i].call = c =>
                                queue'[i].command = "rollback"
                      /\ pc[c] \in {"committing", "reading"} /\ Settled(c)' =>
                                (c \in landed' <=> reply'[c] = "done")
    BY <1>1 DEF ToldTruly, Told
  <2>1. pc[c] \in {"idle", "waiting", "executing", "undoing"} => c \notin landed'
    BY <1>1, <1>4 DEF StoreInv, ToldTruly, Told
  <2>2. ASSUME pc[c] = "committing", NEW i \in DOMAIN queue', queue'[i].call = c
        PROVE  queue'[i].command = "commit" /\ OnlyCloses(i + 1)'
    <3>1. queue[i + 1].command = "commit" /\ OnlyCloses(i + 2) /\ i \in Nat
      BY <1>2, <2>2 DEF StoreInv, ToldTruly, Told
    <3> QED BY <1>2, <1>3, <3>1
  <2>3. ASSUME pc[c] = "committing", Settled(c)', reply'[c] = "done"
        PROVE  OnlyCloses(1)' /\ work' = rows'
    <3>1. CASE Settled(c) /\ h.call # c
      <4>1. OnlyCloses(1)
        BY <1>1, <2>3, <3>1 DEF StoreInv, ToldTruly, Told
      <4> QED BY <1>1, <1>7, <4>1
    <3>2. CASE h.call = c
      <4>1. h.command = "commit" /\ OnlyCloses(2)
        BY <1>2, <2>3, <3>2 DEF StoreInv, ToldTruly, Told, h
      <4> QED BY <1>1, <1>3, <2>3, <3>2, <4>1
    <3> QED BY <1>5, <2>3, <3>1, <3>2
  <2>4. pc[c] = "reading" => \A i \in DOMAIN queue' : queue'[i].call = c => queue'[i].command = "select"
    BY <1>2 DEF StoreInv, ToldTruly, Told
  <2>5. pc[c] = "undoing" => \A i \in DOMAIN queue' : queue'[i].call = c => queue'[i].command = "rollback"
    BY <1>2 DEF StoreInv, ToldTruly, Told
  <2>6. ASSUME pc[c] \in {"committing", "reading"}, Settled(c)'
        PROVE  c \in landed' <=> reply'[c] = "done"
    <3>1. CASE Settled(c) /\ h.call # c
      BY <1>1, <2>6, <3>1 DEF StoreInv, ToldTruly, Told
    <3>2. CASE h.call = c
      <4>1. h.command \in {"commit", "select"}
        BY <1>2, <2>6, <3>2 DEF StoreInv, ToldTruly, Told, h
      <4> QED BY <1>1, <3>2, <4>1
    <3> QED BY <1>5, <2>6, <3>1, <3>2
  <2> QED BY <2>1, <2>2, <2>3, <2>4, <2>5, <2>6
<1> QED BY <1>8, <1>9, <1>10, <1>11, <1>12 DEF StoreInv

-----------------------------------------------------------------------------
(* Steps that send nothing.                                                *)

\* Nobody's transaction is open behind closes.
LEMMA CleanBehindCloses ==
    ASSUME TypeOK, OnlyCloses(1), work = rows
    PROVE  Clean(Len(queue) + 1)
<1>1. \A k \in DOMAIN queue : k >= 1
  BY DEF TypeOK
<1> QED BY <1>1 DEF Clean, Harmless, OnlyCloses

\* A call that goes on without sending anything keeps the invariant.
LEMMA QuietStore ==
    ASSUME TypeOK, HolderAtWork, StepsExist, StoreInv,
           UNCHANGED <<queue, work, rows, reply, landed, request, step>>,
           Usable' => Usable \/ (queue = <<>> /\ lock = None),
           \A d \in Calls :
              \/ pc'[d] = pc[d]
              \/ pc'[d] = "waiting" /\ pc[d] = "idle"
              \/ pc'[d] = "cancelled" /\ pc[d] \in {"waiting", "reading", "undoing", "unwinding"}
              \/ pc'[d] \in {"answered", "refused", "cancelled"} /\ Settled(d),
           \/ Clean(Len(queue) + 1)
           \/ lock' = lock /\ (lock = None \/ pc'[lock] = pc[lock])
    PROVE  StoreInv'
<1> USE ConstantsAssumption DEF TypeOK
<1>1. /\ \A i : (Clean(i) => Clean(i)') /\ (Harmless(0, i) => Harmless(0, i)')
      /\ \A i : OnlyCloses(i) => OnlyCloses(i)'
      /\ \A c, n : Ran(c, n) => Ran(c, n)'
      /\ \A d \in Calls : Settled(d)' <=> Settled(d)
  BY DEF Clean, Harmless, OnlyCloses, Ran, Settled
<1>2. NextIsClean'
  BY <1>1 DEF StoreInv, NextIsClean
<1>3. CommitsWhole'
  <2> SUFFICES ASSUME NEW i \in DOMAIN queue, queue[i].command = "commit"
               PROVE  Whole(i)'
    BY DEF CommitsWhole
  <2>1. Whole(i) /\ queue[i].call \in Calls /\ ~Settled(queue[i].call) /\ queue # <<>>
    BY DEF StoreInv, CommitsWhole, StepsExist, Settled
  <2>2. pc'[queue[i].call] \in {"committing", "unwinding", "cancelled"}
    BY <2>1 DEF Whole
  <2> QED BY <1>1, <2>1, <2>2 DEF Whole
<1>4. ReadsCommitted'
  <2> SUFFICES ASSUME NEW i \in DOMAIN queue, queue[i].command = "select"
               PROVE  Fresh(i)'
    BY DEF ReadsCommitted
  <2>1. Fresh(i) /\ queue[i].call \in Calls /\ ~Settled(queue[i].call)
    BY DEF StoreInv, ReadsCommitted, StepsExist, Settled
  <2>2. pc'[queue[i].call] \in {"reading", "cancelled"}
    BY <2>1 DEF Fresh
  <2> QED BY <1>1, <2>1, <2>2 DEF Fresh
<1>5. ExecutesInTurn'
  <2> SUFFICES ASSUME NEW c \in Calls
               PROVE  /\ pc'[c] \in {"idle", "waiting"} => step[c] = 1
                      /\ pc'[c] = "executing" =>
                          /\ \A i \in DOMAIN queue : queue[i].call = c => InTurn(c, i)'
                          /\ Settled(c)' /\ reply[c] = "done" =>
                                OnlyCloses(1)' /\ (Usable' => Ran(c, step[c])')
    BY DEF ExecutesInTurn
  <2>1. pc'[c] \in {"idle", "waiting"} => step[c] = 1
    BY DEF StoreInv, ExecutesInTurn
  <2>2. ASSUME pc'[c] = "executing"
        PROVE  pc[c] = "executing" /\ (Usable' => Usable)
    BY <2>2 DEF HolderAtWork, Active
  <2>3. \A i \in DOMAIN queue : pc'[c] = "executing" /\ InTurn(c, i) => InTurn(c, i)'
    BY <1>1, <2>2 DEF InTurn
  <2> QED BY <1>1, <2>1, <2>2, <2>3 DEF StoreInv, ExecutesInTurn
<1>6. ToldTruly'
  <2> SUFFICES ASSUME NEW c \in Calls PROVE Told(c)'
    BY DEF ToldTruly
  <2>1. Told(c)
    BY DEF StoreInv, ToldTruly
  <2>2. CASE pc'[c] = pc[c]
    BY <1>1, <2>1, <2>2 DEF Told
  <2>3. CASE pc'[c] \in {"answered", "refused", "cancelled"}
    BY <2>3 DEF Told
  <2>4. CASE pc'[c] = "waiting" /\ pc[c] = "idle"
    BY <2>1, <2>4 DEF Told
  <2> QED BY <2>2, <2>3, <2>4
<1> QED BY <1>2, <1>3, <1>4, <1>5, <1>6 DEF StoreInv

\* What is sent leaves the commits and the reads of the queue what they were.
LEMMA SentKeeps ==
    ASSUME TypeOK, StepsExist, StoreInv, NEW e \in Commands, queue' = Append(queue, e),
           UNCHANGED <<work, rows, landed, request>>, Usable' => Usable,
           \A d \in Calls : pc[d] \in {"committing", "unwinding", "cancelled"} =>
              \/ pc'[d] = pc[d] \/ Settled(d)
              \/ pc[d] = "committing" /\ pc'[d] = "unwinding",
           \A d \in Calls : pc[d] \in {"reading", "cancelled"} => pc'[d] = pc[d] /\ e.call # d
    PROVE  \A i \in DOMAIN queue :
              /\ queue[i].command = "commit" => Whole(i)'
              /\ queue[i].command = "select" => Fresh(i)'
<1> USE DEF TypeOK
<1>1. /\ DOMAIN queue' = DOMAIN queue \cup {Len(queue) + 1} /\ queue'[Len(queue) + 1] = e
      /\ \A i \in DOMAIN queue : i < Len(queue) + 1 /\ queue'[i] = queue[i]
  BY Appended
<1>2. ASSUME NEW i \in DOMAIN queue, queue[i].command = "commit"
      PROVE  Whole(i)'
  <2>1. Whole(i) /\ queue[i].call \in Calls /\ ~Settled(queue[i].call) /\ queue'[i] = queue[i]
    BY <1>1, <1>2 DEF StoreInv, CommitsWhole, StepsExist, Settled
  <2>2. pc'[queue[i].call] \in {"committing", "unwinding", "cancelled"}
    BY <2>1 DEF Whole
  <2>3. \A k \in DOMAIN queue' : k < i => queue'[k].command = "close"
    BY <1>1, <2>1 DEF Whole
  <2>4. \A c, n : Ran(c, n) => Ran(c, n)'
    BY DEF Ran
  <2> QED BY <2>1, <2>2, <2>3, <2>4 DEF Whole
<1>3. ASSUME NEW i \in DOMAIN queue, queue[i].command = "select"
      PROVE  Fresh(i)'
  <2>1. Fresh(i) /\ queue[i].call \in Calls /\ queue'[i] = queue[i]
    BY <1>1, <1>3 DEF StoreInv, ReadsCommitted, StepsExist
  <2>2. pc'[queue[i].call] \in {"reading", "cancelled"} /\ e.call # queue[i].call
    BY <2>1 DEF Fresh
  <2>3. \A j \in DOMAIN queue' : queue'[j].call = queue'[i].call => j = i
    BY <1>1, <2>1, <2>2 DEF Fresh
  <2>4. Clean(i)'
    BY <2>1, PlacesKept DEF Fresh
  <2> QED BY <2>1, <2>2, <2>3, <2>4 DEF Fresh
<1> QED BY <1>2, <1>3

-----------------------------------------------------------------------------
(* Steps that send a command.                                              *)

\* What a call sends.
LEMMA SendsStore ==
    ASSUME TypeOK, HolderAtWork, OneAtATime, StepsExist, StoreInv,
           NEW c \in Calls, NEW e \in Commands, queue' = Append(queue, e), e.call = c,
           UNCHANGED <<work, rows, landed, request, reply, connection>>,
           NEW p, pc' = [pc EXCEPT ![c] = p], lock' = c, lock \in {None, c},
           \A d \in Calls : d # c => step'[d] = step[d],
           lock = None => pc[c] = "waiting",
           \/ /\ pc[c] = "waiting" /\ p = "reading" /\ e.command = "select"
              /\ request[c].method = "read"
           \/ /\ pc[c] = "waiting" /\ p = "executing" /\ e.command = "execute"
              /\ e.step = step'[c] /\ step'[c] = 1
           \/ /\ pc[c] = "executing" /\ p = "executing" /\ e.command = "execute"
              /\ Settled(c) /\ reply[c] = "done" /\ e.step = step'[c] /\ step'[c] = step[c] + 1
           \/ /\ pc[c] = "executing" /\ p = "committing" /\ e.command = "commit"
              /\ Settled(c) /\ reply[c] = "done" /\ step[c] = Len(Statements(request[c]))
           \/ /\ pc[c] \in {"executing", "committing"} /\ e.command = "rollback"
              /\ p \in {"undoing", "unwinding"}
              /\ p = "undoing" => Settled(c) /\ reply[c] = "failed"
    PROVE  StoreInv'
<1> USE ConstantsAssumption DEF TypeOK
<1> PICK n : n = Len(queue) + 1
  OBVIOUS
<1>1. /\ DOMAIN queue' = DOMAIN queue \cup {n} /\ queue'[n] = e /\ n \in Nat /\ n >= 1
      /\ \A i \in DOMAIN queue : i \in Nat /\ i < n /\ i >= 1 /\ queue'[i] = queue[i]
      /\ Len(queue') = n
  BY Appended
<1>2. /\ \A i \in DOMAIN queue \cup {n} : Clean(i) => Clean(i)'
      /\ \A i \in DOMAIN queue \cup {n} : Harmless(0, i) => Harmless(0, i)'
      /\ e.command \in {"select", "close"} /\ Clean(n) => Clean(n + 1)'
      /\ e.command = "rollback" => Clean(n + 1)'
  BY PlacesKept
<1>3. /\ \A d \in Calls : d # c => pc'[d] = pc[d] /\ pc[d] \notin Active
      /\ pc'[c] = p
      /\ pc[c] = "waiting" => lock = None /\ Settled(c) /\ step[c] = 1 /\ c \notin landed /\ Clean(n)
  BY DEF HolderAtWork, OneAtATime, StoreInv, NextIsClean, ExecutesInTurn, ToldTruly, Told, Active
<1>4. \A i \in DOMAIN queue :
        /\ queue[i].command = "commit" => Whole(i)'
        /\ queue[i].command = "select" => Fresh(i)'
  <2>1. Usable' => Usable
    BY DEF Usable
  <2>2. \A d \in Calls : pc[d] \in {"committing", "unwinding", "cancelled"} =>
              \/ pc'[d] = pc[d] \/ Settled(d)
              \/ pc[d] = "committing" /\ pc'[d] = "unwinding"
    BY <1>3
  <2>3. \A d \in Calls : pc[d] \in {"reading", "cancelled"} => pc'[d] = pc[d] /\ e.call # d
    BY <1>3
  <2> QED BY <2>1, <2>2, <2>3, SentKeeps
<1>5. OnlyCloses(n + 1)' /\ ~Settled(c)'
  BY <1>1 DEF OnlyCloses, Settled
<1>6. pc[c] = "executing" /\ Settled(c) /\ reply[c] = "done" =>
        OnlyCloses(1) /\ (Usable => Ran(c, step[c]))
  BY DEF StoreInv, ExecutesInTurn
<1>7. \A m : Ran(c, m) => Ran(c, m)'
  BY DEF Ran
<1>8. NextIsClean'
  BY <1>1, <1>2, <1>3 DEF NextIsClean
<1>9. CommitsWhole'
  <2> SUFFICES ASSUME e.command = "commit"
               PROVE  Whole(n)'
    BY <1>1, <1>4 DEF CommitsWhole
  <2>1. c \notin landed /\ request[c].method # "read"
    BY DEF StoreInv, ToldTruly, Told, StepsExist
  <2>2. \A k \in DOMAIN queue' : k < n => queue'[k].command = "close"
    BY <1>1, <1>6 DEF OnlyCloses
  <2>3. Usable' => Ran(c, Len(Statements(request[c])))'
    BY <1>6, <1>7 DEF Usable
  <2> QED BY <1>1, <1>3, <2>1, <2>2, <2>3 DEF Whole
<1>10. ReadsCommitted'
  <2> SUFFICES ASSUME e.command = "select"
               PROVE  Fresh(n)'
    BY <1>1, <1>4 DEF ReadsCommitted
  <2>1. \A j \in DOMAIN queue' : queue'[j].call = c => j = n
    BY <1>1, <1>3 DEF Settled
  <2> QED BY <1>1, <1>2, <1>3, <2>1 DEF Fresh
<1>11. ExecutesInTurn'
  <2>1. \A d \in Calls : pc'[d] \in {"idle", "waiting"} => step'[d] = 1
    BY <1>3 DEF StoreInv, ExecutesInTurn
  <2> SUFFICES ASSUME p = "executing"
               PROVE  \A i \in DOMAIN queue' : queue'[i].call = c => InTurn(c, i)'
    BY <1>3, <1>5, <2>1 DEF ExecutesInTurn, Active
  <2>2. Settled(c)
    BY <1>3
  <2>3. \A i \in DOMAIN queue' : queue'[i].call = c => i = n
    BY <1>1, <2>2 DEF Settled
  <2>4. InTurn(c, n)'
    <3>1. CASE pc[c] = "waiting"
      BY <1>1, <1>2, <1>3, <1>5, <3>1 DEF InTurn
    <3>2. CASE pc[c] = "executing"
      <4>1. step'[c] = step[c] + 1 /\ step[c] >= 1 /\ step[c] \in Nat
        BY <3>2 DEF StepsExist
      <4>2. Harmless(0, n)
        BY <1>1, <1>6, <3>2 DEF OnlyCloses, Harmless
      <4>3. PICK m : m = step[c] /\ m = step'[c] - 1
        BY <4>1
      <4>4. Usable' => Ran(c, m)'
        BY <1>6, <1>7, <3>2, <4>3 DEF Usable
      <4> QED BY <1>1, <1>2, <1>5, <3>2, <4>1, <4>2, <4>3, <4>4 DEF InTurn, Ran
    <3> QED BY <3>1, <3>2
  <2> QED BY <2>3, <2>4
<1>12. ToldTruly'
  <2> SUFFICES ASSUME NEW d \in Calls PROVE Told(d)'
    BY DEF ToldTruly
  <2>1. Told(d)
    BY DEF StoreInv, ToldTruly
  <2>2. CASE d # c
    BY <1>3, <2>1, <2>2 DEF Told, Active
  <2>3. CASE d = c
    <3>1. p \in {"executing", "undoing"} => c \notin landed
      BY <1>3, <2>1, <2>3 DEF Told
    <3>2. p \in {"committing", "reading"} \/ p = "undoing" => Settled(c)
      BY <1>3
    <3>3. Settled(c) => \A i \in DOMAIN queue' : queue'[i].call = c => i = n
      BY <1>1 DEF Settled
    <3> QED BY <1>1, <1>3, <1>5, <2>3, <3>1, <3>2, <3>3 DEF Told
  <2> QED BY <2>2, <2>3
<1> QED BY <1>8, <1>9, <1>10, <1>11, <1>12 DEF StoreInv

-----------------------------------------------------------------------------
(* The invariant of the store.                                             *)

\* close() comes last in the queue and waits for nobody.
LEMMA CloseStore ==
    ASSUME TypeOK, StepsExist, StoreInv, Close
    PROVE  StoreInv'
<1> USE ConstantsAssumption DEF TypeOK, callVars, dbVars
<1> DEFINE e == [call |-> None, command |-> "close", step |-> 1]
<1>1. e \in Commands /\ e.call = None /\ e.command = "close"
  BY DEF Commands
<1>2. queue' = Append(queue, e) /\ Usable /\ UNCHANGED <<dbVars, callVars, request>>
  BY DEF Close, Usable
<1> HIDE DEF e
<1> PICK n : n = Len(queue) + 1
  OBVIOUS
<1>3. /\ DOMAIN queue' = DOMAIN queue \cup {n} /\ queue'[n] = e /\ n \in Nat
      /\ \A i \in DOMAIN queue : queue'[i] = queue[i]
      /\ Len(queue') = n
  BY <1>1, <1>2, Appended
<1>4. /\ \A i \in DOMAIN queue \cup {n} : Clean(i) => Clean(i)'
      /\ \A i \in DOMAIN queue \cup {n} : Harmless(0, i) => Harmless(0, i)'
      /\ e.command \in {"select", "close"} /\ Clean(n) => Clean(n + 1)'
  BY <1>1, <1>2, PlacesKept DEF dbVars
<1>5. /\ \A i : OnlyCloses(i) => OnlyCloses(i)'
      /\ \A c, m : Ran(c, m) => Ran(c, m)'
      /\ \A d \in Calls : Settled(d)' <=> Settled(d)
  BY <1>1, <1>2, <1>3 DEF OnlyCloses, Ran, Settled
<1>6. NextIsClean'
  BY <1>1, <1>2, <1>3, <1>4 DEF StoreInv, NextIsClean
<1>7. \A i \in DOMAIN queue :
        /\ queue[i].command = "commit" => Whole(i)'
        /\ queue[i].command = "select" => Fresh(i)'
  <2>1. UNCHANGED <<work, rows, landed, request, pc>>
    BY <1>2
  <2> QED BY <1>1, <1>2, <2>1, SentKeeps
<1>8. CommitsWhole' /\ ReadsCommitted'
  BY <1>1, <1>3, <1>7 DEF CommitsWhole, ReadsCommitted
<1>9. ExecutesInTurn'
  <2>1. \A c \in Calls, i \in DOMAIN queue : InTurn(c, i) => InTurn(c, i)'
    BY <1>2, <1>3, <1>4, <1>5 DEF InTurn
  <2>2. \A c \in Calls, i \in DOMAIN queue' : queue'[i].call = c =>
            i \in DOMAIN queue /\ queue[i].call = c
    BY <1>1, <1>3
  <2> QED BY <1>2, <1>5, <2>1, <2>2 DEF StoreInv, ExecutesInTurn
<1>10. ToldTruly'
  <2> SUFFICES ASSUME NEW c \in Calls PROVE Told(c)'
    BY DEF ToldTruly
  <2>1. Told(c)
    BY DEF StoreInv, ToldTruly
  <2>2. \A i \in DOMAIN queue' : queue'[i].call = c => i \in DOMAIN queue /\ queue'[i] = queue[i]
    BY <1>1, <1>3
  <2> QED BY <1>2, <1>5, <2>1, <2>2 DEF Told
<1> QED BY <1>6, <1>8, <1>9, <1>10 DEF StoreInv

\* Every step keeps it.
LEMMA StoreStep ==
    ASSUME IndInv, StoreInv, [Next]_vars
    PROVE  StoreInv'
<1> USE ConstantsAssumption DEF TypeOK, HolderAtWork, Active, Ended, Move, callVars, dbVars
<1>0. TypeOK /\ HolderAtWork /\ OneAtATime /\ StepsExist
  BY DEF IndInv
<1>1. \A c \in Calls, m \in Nat, name \in {"execute", "select", "commit", "rollback"} :
        /\ Command(c, name, m) \in Commands /\ Command(c, name, m).call = c
        /\ Command(c, name, m).command = name /\ Command(c, name, m).step = m
  BY DEF Command, Commands
<1>14. ASSUME NEW c \in Calls, NEW name \in {"execute", "select", "commit", "rollback"}, NEW n \in Nat,
              queue' = Append(queue, Command(c, name, n)),
              UNCHANGED <<work, rows, landed, request, reply, connection>>,
              NEW p, pc' = [pc EXCEPT ![c] = p], lock' = c, lock \in {None, c},
              \A d \in Calls : d # c => step'[d] = step[d],
              lock = None => pc[c] = "waiting",
              \/ /\ pc[c] = "waiting" /\ p = "reading" /\ name = "select"
                 /\ request[c].method = "read"
              \/ /\ pc[c] = "waiting" /\ p = "executing" /\ name = "execute"
                 /\ n = step'[c] /\ step'[c] = 1
              \/ /\ pc[c] = "executing" /\ p = "executing" /\ name = "execute"
                 /\ Settled(c) /\ reply[c] = "done" /\ n = step'[c] /\ step'[c] = step[c] + 1
              \/ /\ pc[c] = "executing" /\ p = "committing" /\ name = "commit"
                 /\ Settled(c) /\ reply[c] = "done" /\ step[c] = Len(Statements(request[c]))
              \/ /\ pc[c] \in {"executing", "committing"} /\ name = "rollback"
                 /\ p \in {"undoing", "unwinding"}
                 /\ p = "undoing" => Settled(c) /\ reply[c] = "failed"
       PROVE  StoreInv'
  <2> DEFINE e == Command(c, name, n)
  <2>1. e \in Commands /\ e.call = c /\ e.command = name /\ e.step = n
    BY <1>1, <1>14
  <2>2. queue' = Append(queue, e)
    BY <1>14
  <2> HIDE DEF e, TypeOK, HolderAtWork
  <2>3. /\ TypeOK /\ HolderAtWork /\ OneAtATime /\ StepsExist /\ StoreInv
        /\ UNCHANGED <<work, rows, landed, request, reply, connection>>
        /\ pc' = [pc EXCEPT ![c] = p] /\ lock' = c /\ lock \in {None, c}
        /\ \A d \in Calls : d # c => step'[d] = step[d]
        /\ lock = None => pc[c] = "waiting"
    BY <1>0, <1>14
  <2>4. \/ /\ pc[c] = "waiting" /\ p = "reading" /\ e.command = "select"
           /\ request[c].method = "read"
        \/ /\ pc[c] = "waiting" /\ p = "executing" /\ e.command = "execute"
           /\ e.step = step'[c] /\ step'[c] = 1
        \/ /\ pc[c] = "executing" /\ p = "executing" /\ e.command = "execute"
           /\ Settled(c) /\ reply[c] = "done" /\ e.step = step'[c] /\ step'[c] = step[c] + 1
        \/ /\ pc[c] = "executing" /\ p = "committing" /\ e.command = "commit"
           /\ Settled(c) /\ reply[c] = "done" /\ step[c] = Len(Statements(request[c]))
        \/ /\ pc[c] \in {"executing", "committing"} /\ e.command = "rollback"
           /\ p \in {"undoing", "unwinding"}
           /\ p = "undoing" => Settled(c) /\ reply[c] = "failed"
    BY <1>14, <2>1
  <2> QED BY <2>1, <2>2, <2>3, <2>4, SendsStore
<1>2. ASSUME NEW c \in Calls, Ask(c) \/ RefuseClosed(c)
      PROVE  StoreInv'
  <2>1. pc[c] \in {"idle", "waiting"} /\ lock # c
    BY <1>0, <1>2 DEF Ask, RefuseClosed
  <2>2. pc[c] = "waiting" => Settled(c)
    BY <1>0 DEF OneAtATime
  <2>3. UNCHANGED <<queue, work, rows, reply, landed, request, step, lock, connection>>
    BY <1>2 DEF Ask, RefuseClosed
  <2>4. lock = None \/ pc'[lock] = pc[lock]
    BY <1>0, <1>2, <2>1 DEF Ask, RefuseClosed
  <2>5. \A d \in Calls : \/ pc'[d] = pc[d]
                         \/ pc'[d] = "waiting" /\ pc[d] = "idle"
                         \/ pc'[d] = "refused" /\ Settled(d)
    BY <1>0, <1>2, <2>2 DEF Ask, RefuseClosed
  <2> QED BY <1>0, <2>3, <2>4, <2>5, QuietStore DEF Usable
<1>3. ASSUME NEW c \in Calls, UNCHANGED <<queue, work, rows, reply, landed, request, step, connection>>,
             lock = c, Clean(Len(queue) + 1), NEW p, pc' = [pc EXCEPT ![c] = p],
             \/ p = "cancelled" /\ pc[c] \in {"reading", "undoing", "unwinding"}
             \/ p \in {"answered", "refused", "cancelled"} /\ Settled(c)
      PROVE  StoreInv'
  <2>1. \A d \in Calls :
            \/ pc'[d] = pc[d]
            \/ pc'[d] = "cancelled" /\ pc[d] \in {"waiting", "reading", "undoing", "unwinding"}
            \/ pc'[d] \in {"answered", "refused", "cancelled"} /\ Settled(d)
    BY <1>0, <1>3
  <2> QED BY <1>0, <1>3, <2>1, QuietStore DEF Usable
<1>4. ASSUME NEW c \in Calls, Begin(c)
      PROVE  StoreInv'
  <2>1. step[c] = 1 /\ lock = None /\ pc[c] = "waiting"
    BY <1>4 DEF StoreInv, ExecutesInTurn, Begin
  <2>2. UNCHANGED <<work, rows, landed, request, reply, connection, step>> /\ lock' = c
    BY <1>4 DEF Begin
  <2>3. CASE request[c].method = "read"
    <3>1. queue' = Append(queue, Command(c, "select", step[c])) /\ pc' = [pc EXCEPT ![c] = "reading"]
      BY <1>4, <2>3 DEF Begin, Send
    <3> QED BY <1>0, <2>1, <2>2, <2>3, <3>1, <1>14
  <2>4. CASE request[c].method # "read"
    <3>1. queue' = Append(queue, Command(c, "execute", step[c])) /\ pc' = [pc EXCEPT ![c] = "executing"]
      BY <1>4, <2>4 DEF Begin, Send
    <3> QED BY <1>0, <2>1, <2>2, <3>1, <1>14
  <2> QED BY <2>3, <2>4
<1>5. ASSUME NEW c \in Calls, Proceed(c)
      PROVE  StoreInv'
  <2>1. /\ pc[c] = "executing" /\ Settled(c) /\ reply[c] = "done" /\ lock = c /\ lock' = c
        /\ UNCHANGED <<work, rows, landed, request, reply, connection>>
    BY <1>0, <1>5 DEF Proceed
  <2>2. /\ step[c] \in Nat /\ step[c] \in 1..Len(Statements(request[c]))
        /\ Len(Statements(request[c])) \in Nat
    BY <1>0, <2>1, StatementsKnown DEF StepsExist
  <2>3. CASE step[c] < Len(Statements(request[c]))
    <3>1. /\ queue' = Append(queue, Command(c, "execute", step[c] + 1))
          /\ step' = [step EXCEPT ![c] = step[c] + 1] /\ pc' = [pc EXCEPT ![c] = "executing"]
      BY <1>0, <1>5, <2>1, <2>3 DEF Proceed
    <3>2. step[c] + 1 \in Nat /\ step'[c] = step[c] + 1 /\ \A d \in Calls : d # c => step'[d] = step[d]
      BY <1>0, <2>2, <3>1
    <3> QED BY <1>0, <2>1, <3>1, <3>2, <1>14
  <2>4. CASE ~(step[c] < Len(Statements(request[c])))
    <3>1. /\ queue' = Append(queue, Command(c, "commit", step[c])) /\ UNCHANGED step
          /\ pc' = [pc EXCEPT ![c] = "committing"] /\ step[c] = Len(Statements(request[c]))
      BY <1>5, <2>2, <2>4 DEF Proceed, Send
    <3> QED BY <1>0, <2>1, <2>2, <3>1, <1>14
  <2> QED BY <2>3, <2>4
<1>6. ASSUME NEW c \in Calls, queue' = Rollback(c), UNCHANGED <<dbVars, step, lock, connection, request>>,
             pc[c] \in {"executing", "committing"}, NEW p \in {"undoing", "unwinding"},
             pc' = [pc EXCEPT ![c] = p], p = "undoing" => Settled(c) /\ reply[c] = "failed"
      PROVE  StoreInv'
  <2>1. lock = c /\ lock' = c /\ step[c] \in Nat
    BY <1>0, <1>6
  <2>2. UNCHANGED <<work, rows, landed, request, reply, connection, step>>
        /\ queue' = Append(queue, Command(c, "rollback", step[c]))
    BY <1>6
  <2> QED BY <1>0, <1>6, <2>1, <2>2, <1>14
<1>7. ASSUME NEW c \in Calls, Answer(c)
      PROVE  StoreInv'
  <2>1. lock = c
    BY <1>0, <1>7 DEF Answer
  <2>2. Clean(Len(queue) + 1)
    <3>1. CASE pc[c] = "reading"
      BY <2>1, <3>1 DEF StoreInv, NextIsClean
    <3>2. CASE pc[c] = "committing"
      <4>1. OnlyCloses(1) /\ work = rows
        BY <1>7, <3>2 DEF Answer, StoreInv, ToldTruly, Told
      <4> QED BY <1>0, <4>1, CleanBehindCloses
    <3> QED BY <1>7, <3>1, <3>2 DEF Answer
  <2>3. UNCHANGED <<queue, work, rows, reply, landed, request, step, connection>>
        /\ pc' = [pc EXCEPT ![c] = "answered"] /\ Settled(c)
    BY <1>7 DEF Answer
  <2> QED BY <1>3, <2>1, <2>2, <2>3
<1>8. ASSUME NEW c \in Calls, pc[c] \in {"reading", "undoing", "unwinding"}
      PROVE  lock = c /\ Clean(Len(queue) + 1)
  BY <1>0, <1>8 DEF StoreInv, NextIsClean
<1>9. ASSUME NEW c \in Calls, Fail(c)
      PROVE  StoreInv'
  <2>1. CASE pc[c] = "reading"
    <3>1. UNCHANGED <<queue, work, rows, reply, landed, request, step, connection>>
          /\ pc' = [pc EXCEPT ![c] = "refused"] /\ Settled(c)
      BY <1>9, <2>1 DEF Fail
    <3> QED BY <1>3, <1>8, <2>1, <3>1
  <2>2. CASE pc[c] # "reading"
    <3>1. queue' = Rollback(c) /\ UNCHANGED <<dbVars, step, lock, connection, request>>
          /\ pc[c] \in {"executing", "committing"} /\ pc' = [pc EXCEPT ![c] = "undoing"]
          /\ Settled(c) /\ reply[c] = "failed"
      BY <1>9, <2>2 DEF Fail
    <3> QED BY <1>6, <3>1
  <2> QED BY <2>1, <2>2
<1>10. ASSUME NEW c \in Calls, Undone(c)
       PROVE  StoreInv'
  <2>1. /\ pc[c] \in {"undoing", "unwinding"} /\ Settled(c)
        /\ UNCHANGED <<queue, work, rows, reply, landed, request, step, connection>>
        /\ pc' = [pc EXCEPT ![c] = IF pc[c] = "undoing" THEN "refused" ELSE "cancelled"]
    BY <1>10 DEF Undone
  <2> QED BY <1>3, <1>8, <2>1
<1>11. ASSUME NEW c \in Calls, Cancel(c)
       PROVE  StoreInv'
  <2>1. CASE pc[c] = "waiting"
    <3>1. UNCHANGED <<queue, work, rows, reply, landed, request, step, lock, connection>>
          /\ pc' = [pc EXCEPT ![c] = "cancelled"] /\ lock # c
      BY <1>0, <1>11, <2>1 DEF Cancel
    <3>2. lock = None \/ pc'[lock] = pc[lock]
      BY <1>0, <3>1
    <3>3. \A d \in Calls : \/ pc'[d] = pc[d]
                           \/ pc'[d] = "cancelled" /\ pc[d] = "waiting"
      BY <1>0, <2>1, <3>1
    <3> QED BY <1>0, <3>1, <3>2, <3>3, QuietStore DEF Usable
  <2>2. CASE pc[c] \in {"executing", "committing"}
    <3>1. queue' = Rollback(c) /\ UNCHANGED <<dbVars, step, lock, connection, request>>
          /\ pc' = [pc EXCEPT ![c] = "unwinding"]
      BY <1>11, <2>2 DEF Cancel
    <3> QED BY <1>6, <2>2, <3>1
  <2>3. CASE pc[c] \in {"reading", "undoing", "unwinding"}
    <3>1. UNCHANGED <<queue, work, rows, reply, landed, request, step, connection>>
          /\ pc' = [pc EXCEPT ![c] = "cancelled"]
      BY <1>11, <2>3 DEF Cancel
    <3> QED BY <1>3, <1>8, <2>3, <3>1
  <2> QED BY <1>11, <2>1, <2>2, <2>3 DEF Cancel
<1>12. CASE Initialize \/ EndClose \/ UNCHANGED vars
  <2>1. /\ UNCHANGED <<queue, work, rows, reply, landed, request, step, pc, lock>>
        /\ Usable' => Usable \/ (queue = <<>> /\ lock = None)
    BY <1>12 DEF Initialize, EndClose, vars, Usable
  <2> QED BY <1>0, <2>1, QuietStore
<1>13. CASE Crash
  <2>1. /\ queue' = <<>> /\ work' = rows' /\ lock' = None /\ UNCHANGED <<landed, step>>
        /\ \A c \in Calls : pc'[c] \in {"dead", "idle", "answered", "refused"}
                            /\ (pc'[c] = "idle" => pc[c] = "idle")
    BY <1>0, <1>13 DEF Crash
  <2>2. NextIsClean' /\ CommitsWhole' /\ ReadsCommitted'
    BY <2>1 DEF NextIsClean, Clean, Harmless, CommitsWhole, ReadsCommitted
  <2>3. ExecutesInTurn' /\ ToldTruly'
    BY <2>1 DEF StoreInv, ExecutesInTurn, ToldTruly, Told
  <2> QED BY <2>2, <2>3 DEF StoreInv
<1> QED BY <1>0, <1>2, <1>4, <1>5, <1>7, <1>9, <1>10, <1>11, <1>12, <1>13, CloseStore, WorkerStore
        DEF Next, CallStep

\* So does the invariant of the store.
LEMMA StoreInitially == Init => StoreInv
  BY DEF Init, StoreInv, NextIsClean, Clean, Harmless, CommitsWhole, ReadsCommitted,
         ExecutesInTurn, ToldTruly, Told

-----------------------------------------------------------------------------
(* The connection implements the store.                                    *)

\* Every step is a step of the store, or one it does not see.
LEMMA StoreMaps ==
    ASSUME IndInv, StoreInv, [Next]_vars
    PROVE  [Store!Next]_(Store!storeVars)
<1> USE ConstantsAssumption DEF HolderAtWork, Active, Ended, Move, callVars, dbVars
<1> DEFINE Shown(p) == IF p \in {"waiting"} \cup Active THEN "asked" ELSE p
           st == [c \in Calls |-> IF pc[c] \in {"waiting"} \cup Active THEN "asked" ELSE pc[c]]
           Same == UNCHANGED <<rows, request, landed, seen>>
<1>0. TypeOK /\ HolderAtWork /\ OneAtATime /\ StepsExist
  BY DEF IndInv
<1>1. pc \in [Calls -> {"idle", "waiting"} \cup Active \cup Ended]
  BY <1>0 DEF TypeOK
<1>2. ASSUME NEW c \in Calls, NEW p, pc' = [pc EXCEPT ![c] = p]
      PROVE  st' = [st EXCEPT ![c] = Shown(p)]
  BY <1>1, <1>2
<1>3. ASSUME UNCHANGED pc
      PROVE  st' = st
  BY <1>3
<1>4. \A c \in Calls : st[c] = Shown(pc[c])
  OBVIOUS
<1>5. ASSUME st' = st, Same
      PROVE  UNCHANGED Store!storeVars
  BY <1>5 DEF Store!storeVars
<1>6. ASSUME NEW c \in Calls, NEW p \in {"waiting"} \cup Active, pc[c] \in {"waiting"} \cup Active,
             pc' = [pc EXCEPT ![c] = p], Same
      PROVE  UNCHANGED Store!storeVars
  <2>1. st' = st
    BY <1>1, <1>6
  <2> QED BY <1>5, <1>6, <2>1
<1>7. ASSUME NEW c \in Calls, pc[c] \in {"waiting"} \cup Active, Same,
             \/ pc' = [pc EXCEPT ![c] = "refused"] /\ c \notin landed
             \/ pc' = [pc EXCEPT ![c] = "cancelled"]
             \/ pc' = [pc EXCEPT ![c] = "answered"] /\ c \in landed
      PROVE  Store!Next
  <2>1. st[c] = "asked"
    BY <1>4, <1>7
  <2>2. CASE pc' = [pc EXCEPT ![c] = "refused"] /\ c \notin landed
    <3>1. st' = [st EXCEPT ![c] = "refused"]
      BY <1>2, <2>2
    <3>2. Store!Refuse(c)
      BY <1>7, <2>1, <2>2, <3>1 DEF Store!Refuse, Store!Become
    <3> QED BY <3>2 DEF Store!Next
  <2>3. CASE pc' = [pc EXCEPT ![c] = "cancelled"]
    <3>1. st' = [st EXCEPT ![c] = "cancelled"]
      BY <1>2, <2>3
    <3>2. Store!Cancel(c)
      BY <1>7, <2>1, <2>3, <3>1 DEF Store!Cancel, Store!Become
    <3> QED BY <3>2 DEF Store!Next
  <2>4. CASE pc' = [pc EXCEPT ![c] = "answered"] /\ c \in landed
    <3>1. st' = [st EXCEPT ![c] = "answered"]
      BY <1>2, <2>4
    <3>2. Store!Answer(c)
      BY <1>7, <2>1, <2>4, <3>1 DEF Store!Answer, Store!Become
    <3> QED BY <3>2 DEF Store!Next
  <2> QED BY <1>7, <2>2, <2>3, <2>4
<1>8. \A c \in Calls : Told(c)
  BY DEF StoreInv, ToldTruly
<1>9. ASSUME NEW c \in Calls, Ask(c)
      PROVE  Store!Next
  <2>1. st[c] = "idle" /\ Same /\ st' = [st EXCEPT ![c] = "asked"]
    BY <1>2, <1>4, <1>9 DEF Ask
  <2>2. Store!Ask(c)
    BY <2>1 DEF Store!Ask, Store!Become
  <2> QED BY <2>2 DEF Store!Next
<1>10. ASSUME NEW c \in Calls, CallStep(c)
       PROVE  [Store!Next]_(Store!storeVars)
  <2>1. CASE RefuseClosed(c)
    <3>1. pc[c] = "waiting" /\ pc' = [pc EXCEPT ![c] = "refused"] /\ Same /\ c \notin landed
      BY <1>8, <2>1 DEF RefuseClosed, Told
    <3> QED BY <1>7, <3>1
  <2>2. CASE Begin(c)
    <3>1. pc[c] = "waiting" /\ Same
          /\ \E p \in {"reading", "executing"} : pc' = [pc EXCEPT ![c] = p]
      BY <2>2 DEF Begin
    <3> QED BY <1>6, <3>1
  <2>3. CASE Proceed(c)
    <3>1. pc[c] = "executing" /\ Same /\ (UNCHANGED pc \/ pc' = [pc EXCEPT ![c] = "committing"])
      BY <2>3 DEF Proceed
    <3> QED BY <1>3, <1>5, <1>6, <3>1
  <2>4. CASE Answer(c)
    <3>1. /\ pc[c] \in {"committing", "reading"} /\ Same /\ c \in landed
          /\ pc' = [pc EXCEPT ![c] = "answered"]
      BY <1>8, <2>4 DEF Answer, Told
    <3> QED BY <1>7, <3>1
  <2>5. CASE Fail(c)
    <3>1. /\ pc[c] \in {"executing", "committing", "reading"} /\ Same
          /\ \/ pc[c] = "reading" /\ c \notin landed /\ pc' = [pc EXCEPT ![c] = "refused"]
             \/ pc' = [pc EXCEPT ![c] = "undoing"]
      BY <1>8, <2>5 DEF Fail, Told
    <3> QED BY <1>6, <1>7, <3>1
  <2>6. CASE Undone(c)
    <3>1. /\ pc[c] \in {"undoing", "unwinding"} /\ Same
          /\ \/ pc[c] = "undoing" /\ c \notin landed /\ pc' = [pc EXCEPT ![c] = "refused"]
             \/ pc' = [pc EXCEPT ![c] = "cancelled"]
      BY <1>8, <2>6 DEF Undone, Told
    <3> QED BY <1>7, <3>1
  <2> QED BY <1>10, <2>1, <2>2, <2>3, <2>4, <2>5, <2>6 DEF CallStep
<1>11. ASSUME NEW c \in Calls, Cancel(c)
       PROVE  [Store!Next]_(Store!storeVars)
  <2>1. pc[c] \in {"waiting"} \cup Active /\ Same
        /\ (pc' = [pc EXCEPT ![c] = "unwinding"] \/ pc' = [pc EXCEPT ![c] = "cancelled"])
    BY <1>11 DEF Cancel
  <2> QED BY <1>6, <1>7, <2>1
<1>12. CASE Commit
  <2> PICK h : h = queue[1]
    OBVIOUS
  <2> PICK c : c = h.call
    OBVIOUS
  <2>1. h = Head(queue) /\ queue # <<>> /\ 1 \in DOMAIN queue /\ h.command = "commit"
        /\ c \in Calls
    BY <1>0, <1>12 DEF Commit, Take, TypeOK, StepsExist
  <2>2. /\ Usable /\ rows' = work /\ landed' = landed \cup {c}
        /\ UNCHANGED <<seen, pc, request>>
    BY <1>12, <2>1 DEF Commit
  <2>3. Whole(1)
    BY <2>1 DEF StoreInv, CommitsWhole
  <2>4. /\ pc[c] \in {"committing", "unwinding", "cancelled"} /\ c \notin landed
        /\ request[c].method # "read" /\ Ran(c, Len(Statements(request[c])))
    BY <2>2, <2>3 DEF Whole
  <2>5. request[c] \in Requests /\ rows \in SUBSET Row
        /\ Len(Statements(request[c])) \in Nat /\ Len(Statements(request[c])) > 0
    BY <1>0, <2>1, <2>4, StatementsKnown DEF TypeOK
  <2>6. work = Store!Effect(rows, request[c]) /\ ~Store!Duplicate(rows, request[c])
    BY <2>4, <2>5, AfterAll, DuplicateFails DEF Ran
  <2>7. st[c] \in {"asked", "cancelled"} /\ st' = st
    BY <1>3, <1>4, <2>1, <2>2, <2>4
  <2>8. Store!Land(c)
    BY <2>2, <2>4, <2>6, <2>7 DEF Store!Land
  <2> QED BY <2>1, <2>8 DEF Store!Next
<1>13. CASE Select
  <2> PICK h : h = queue[1]
    OBVIOUS
  <2> PICK c : c = h.call
    OBVIOUS
  <2>1. h = Head(queue) /\ queue # <<>> /\ 1 \in DOMAIN queue /\ h.command = "select"
        /\ c \in Calls
    BY <1>0, <1>13 DEF Select, Take, TypeOK, StepsExist
  <2>2. /\ seen' = [seen EXCEPT ![c] = work] /\ landed' = landed \cup {c}
        /\ UNCHANGED <<rows, pc, request>>
    BY <1>13, <2>1 DEF Select
  <2>3. Fresh(1)
    BY <2>1 DEF StoreInv, ReadsCommitted
  <2>4. /\ pc[c] \in {"reading", "cancelled"} /\ c \notin landed
        /\ request[c].method = "read" /\ Clean(1)
    BY <2>3 DEF Fresh
  <2>5. work = rows
    <3>1. DOMAIN queue \subseteq Nat \ {0}
      BY <1>0 DEF TypeOK
    <3> QED BY <2>4, <3>1 DEF Clean
  <2>6. rows = Store!Effect(rows, request[c]) /\ ~Store!Duplicate(rows, request[c])
    BY <2>4 DEF Store!Effect, Store!Duplicate, Store!Upserts, Store!Deletes, Store!Inserts
  <2>7. st[c] \in {"asked", "cancelled"} /\ st' = st
    BY <1>3, <1>4, <2>1, <2>2, <2>4
  <2>8. Store!Land(c)
    BY <2>2, <2>4, <2>5, <2>6, <2>7 DEF Store!Land
  <2> QED BY <2>1, <2>8 DEF Store!Next
<1>14. CASE Execute \/ CommandFails \/ UndoWork \/ CloseConnection \/ Initialize \/ Close \/ EndClose
            \/ UNCHANGED vars
  <2>1. UNCHANGED pc /\ Same
    BY <1>14 DEF Execute, CommandFails, UndoWork, CloseConnection, Initialize, Close, EndClose, vars
  <2> QED BY <1>3, <1>5, <2>1
<1>15. CASE Crash
  <2> DEFINE home == {c \in Calls : pc[c] \in {"waiting", "cancelled"} \cup Active}
  <2>1. Same /\ pc' = [c \in Calls |-> IF pc[c] \in {"waiting", "cancelled"} \cup Active THEN "dead"
                                      ELSE pc[c]]
    BY <1>15 DEF Crash
  <2>2. st' = [c \in Calls |-> IF c \in home /\ st[c] \in {"asked", "cancelled"}
                               THEN "dead" ELSE st[c]]
    BY <1>1, <2>1
  <2>3. home \in SUBSET Calls
    OBVIOUS
  <2> HIDE DEF home
  <2>4. Store!Crash
    BY <2>1, <2>2, <2>3 DEF Store!Crash
  <2> QED BY <2>4 DEF Store!Next
<1> QED BY <1>9, <1>10, <1>11, <1>12, <1>13, <1>14, <1>15 DEF Next, Worker

\* The invariants of the connection hold together.
THEOREM StoreInvariance == Spec => [](IndInv /\ StoreInv)
<1>1. Init => IndInv /\ StoreInv
  BY Initially, StoreInitially
<1>2. IndInv /\ StoreInv /\ [Next]_vars => IndInv' /\ StoreInv'
  BY Inductive, StoreStep
<1> QED BY <1>1, <1>2, PTL DEF Spec

\* The backend is a StateStore: however its statements, its cancellations, its failures
\* and its close interleave, a call takes effect at one moment, entirely or not at all,
\* what was answered took effect, and what was refused did not and never will.
THEOREM Implementation == Spec => ImplementsStateStore
<1>1. Init => Store!Init
  BY DEF Init, Store!Init, Active
<1>2. IndInv /\ StoreInv /\ [Next]_vars => [Store!Next]_(Store!storeVars)
  BY StoreMaps
<1> QED BY <1>1, <1>2, StoreInvariance, PTL DEF Spec, ImplementsStateStore, Store!Spec
=============================================================================

-------------------------- MODULE ClientPoolProofs --------------------------
(***************************************************************************)
(* Proofs about ClientPool, for any number of workers, callers and         *)
(* requests, with and without run() throwing and std::thread failing.      *)
(***************************************************************************)
EXTENDS ClientPool, TLAPS

-----------------------------------------------------------------------------
(* The types.                                                              *)

LEMMA InitTypeOK == Init => TypeOK
<1> SUFFICES ASSUME Init PROVE TypeOK
  OBVIOUS
<1> USE DEF Init
<1>1. tasks \in Seq(AsyncReqs)
  OBVIOUS
<1>2. pc \in [Threads -> WorkerPC] /\ \A c \in Callers : pc[c] \in CallerPC
  BY PoolAssumption DEF Threads, WorkerPC, CallerPC
<1>3. call \in [Threads -> Reqs \cup {NoReq}] /\ \A c \in Callers : call[c] \notin AsyncReqs
  BY PoolAssumption DEF Threads, Reqs
<1>4. result \in [Reqs -> Answers \cup {"none"}] /\ completions \in [Reqs -> 0..1]
  OBVIOUS
<1>5. QED
  BY <1>1, <1>2, <1>3, <1>4 DEF TypeOK

\* A request that is answered was not answered before.
LEMMA CountsOnce ==
    ASSUME completions \in [Reqs -> 0..1], NEW r \in Reqs, completions[r] = 0,
           completions' = [completions EXCEPT ![r] = @ + 1]
    PROVE  completions' \in [Reqs -> 0..1]
<1>1. completions' = [completions EXCEPT ![r] = 1]
  OBVIOUS
<1>2. QED
  BY <1>1

\* Every step keeps every variable in its range.
LEMMA StepTypeOK == TypeOK /\ PoolInv /\ [Next]_vars => TypeOK'
<1> SUFFICES ASSUME TypeOK, PoolInv, [Next]_vars PROVE TypeOK'
  OBVIOUS
<1> USE DEF TypeOK, ctor, queue, frames, answers, Threads, Reqs, Answers,
            WorkerPC, CallerPC, InCall, InStop, Goto, MayCall, Free
<1>1. CASE UNCHANGED vars
  BY <1>1 DEF vars
<1>2. CASE Construct
  <2>1. ASSUME NEW w \in Workers, Spawn(w) PROVE TypeOK'
    BY <2>1, PoolAssumption DEF Spawn
  <2>2. CASE SpawnFails
    BY <2>2 DEF SpawnFails
  <2>3. CASE FailedStartNotifies
    BY <2>3, PoolAssumption DEF FailedStartNotifies, Waiting
  <2>4. CASE FailedStartJoins
    BY <2>4 DEF FailedStartJoins
  <2>5. QED
    BY <1>2, <2>1, <2>2, <2>3, <2>4 DEF Construct
<1>3. ASSUME NEW t \in Threads, Submit(t) PROVE TypeOK'
  <2>1. ASSUME NEW r \in AsyncReqs, AcceptAsync(t, r) PROVE TypeOK'
    <3>1. tasks' \in Seq(AsyncReqs)
      BY <2>1 DEF AcceptAsync
    <3>2. pc' \in [Threads -> WorkerPC] /\ \A c \in Callers : pc'[c] \in CallerPC
      BY <2>1, PoolAssumption DEF AcceptAsync, NotifyOne, Waiting
    <3>3. QED
      BY <2>1, <3>1, <3>2 DEF AcceptAsync
  <2>2. ASSUME NEW r \in AsyncReqs, RejectAsync(t, r) PROVE TypeOK'
    BY <2>2, CountsOnce DEF RejectAsync, Answer, Fresh
  <2>3. ASSUME NEW r \in AsyncReqs, Cancel(t, r) PROVE TypeOK'
    BY <2>3 DEF Cancel
  <2>4. ASSUME NEW r \in SyncReqs, BeginSync(t, r) PROVE TypeOK'
    BY <2>4, PoolAssumption DEF BeginSync
  <2>5. ASSUME NEW r \in SyncReqs, RejectSync(t, r) PROVE TypeOK'
    BY <2>5, CountsOnce DEF RejectSync, Answer, Fresh
  <2>6. ASSUME NEW r \in SyncReqs, RejectMethod(t, r) PROVE TypeOK'
    BY <2>6, CountsOnce DEF RejectMethod, Answer, Fresh
  <2>7. QED
    BY <1>3, <2>1, <2>2, <2>3, <2>4, <2>5, <2>6 DEF Submit
<1>4. ASSUME NEW t \in Threads, Run(t) PROVE TypeOK'
  <2>1. CASE RunEndsEarly(t)
    <3>1. PICK answer \in {"invalid_argument", "failure", "cancelled"} :
              result' = [result EXCEPT ![call[t]] = answer]
      BY <2>1 DEF RunEndsEarly
    <3>2. QED
      BY <2>1, <3>1, PoolAssumption DEF RunEndsEarly
  <2>2. CASE RunGoesOut(t)
    BY <2>2 DEF RunGoesOut
  <2>3. CASE RunComesBack(t)
    BY <2>3, PoolAssumption DEF RunComesBack
  <2>4. CASE RunThrows(t)
    BY <2>4, PoolAssumption DEF RunThrows
  <2>5. CASE Finish(t)
    <3>1. handling' \in [Workers -> AsyncReqs \cup {NoReq}]
      BY <2>5 DEF Finish
    <3>2. call' \in [Threads -> Reqs \cup {NoReq}] /\ \A c \in Callers : call'[c] \notin AsyncReqs
      BY <2>5, PoolAssumption DEF Finish
    <3>3. completions' \in [Reqs -> 0..1]
      <4>1. call[t] \in requests
        BY <2>5 DEF Finish, PoolInv, RegistryInv, CallsRegistered
      <4>2. call[t] \in Reqs /\ completions[call[t]] = 0
        BY <4>1 DEF PoolInv, RegistryInv, PendingUnanswered
      <4>3. QED
        BY <2>5, <4>2, CountsOnce DEF Finish
    <3>4. pc' \in [Threads -> WorkerPC] /\ \A c \in Callers : pc'[c] \in CallerPC
      BY <2>5 DEF Finish
    <3>5. QED
      BY <2>5, <3>1, <3>2, <3>3, <3>4 DEF Finish, Erased
  <2>6. QED
    BY <1>4, <2>1, <2>2, <2>3, <2>4, <2>5 DEF Run
<1>5. ASSUME NEW t \in Threads, StopCall(t) \/ Stop(t) \/ Release(t) PROVE TypeOK'
  <2>1. CASE StopCall(t)
    BY <2>1 DEF StopCall
  <2>2. CASE StopSweeps(t)
    BY <2>2 DEF StopSweeps, SweepTargets
  <2>3. CASE StopNotifies(t)
    BY <2>3, PoolAssumption DEF StopNotifies, Woken, Waiting
  <2>4. CASE StopJoins(t)
    BY <2>4 DEF StopJoins
  <2>5. CASE Release(t)
    BY <2>5 DEF Release
  <2>6. QED
    BY <1>5, <2>1, <2>2, <2>3, <2>4, <2>5 DEF Stop
<1>6. ASSUME NEW w \in Workers, Loop(w) \/ SpuriousWake(w) \/ HandlerReturns(w) PROVE TypeOK'
  <2>1. CASE Take(w)
    BY <2>1, PoolAssumption DEF Take, Popped
  <2>2. CASE Exit(w)
    BY <2>2, PoolAssumption DEF Exit
  <2>3. CASE Doze(w)
    BY <2>3, PoolAssumption DEF Doze
  <2>4. CASE Block(w)
    BY <2>4, PoolAssumption DEF Block
  <2>5. CASE SpuriousWake(w)
    BY <2>5, PoolAssumption DEF SpuriousWake
  <2>6. CASE HandlerReturns(w)
    BY <2>6, PoolAssumption DEF HandlerReturns
  <2>7. QED
    BY <1>6, <2>1, <2>2, <2>3, <2>4, <2>5, <2>6 DEF Loop
<1>7. QED
  BY <1>1, <1>2, <1>3, <1>4, <1>5, <1>6 DEF Next

-----------------------------------------------------------------------------
(* The queue.                                                              *)

LEMMA TasksAppended ==
    ASSUME tasks \in Seq(AsyncReqs), NEW r \in AsyncReqs, tasks' = Append(tasks, r),
           QueuedOnce, r \notin Queued
    PROVE  Queued' = Queued \cup {r} /\ QueuedOnce'
<1>1. /\ DOMAIN tasks' = 1..(Len(tasks) + 1)
      /\ DOMAIN tasks = 1..Len(tasks)
      /\ Len(tasks) \in Nat
      /\ \A i \in 1..Len(tasks) : tasks'[i] = tasks[i]
      /\ tasks'[Len(tasks) + 1] = r
  OBVIOUS
<1>2. \A i \in DOMAIN tasks' : i \in DOMAIN tasks \/ i = Len(tasks) + 1
  BY <1>1
<1>3. Queued' = Queued \cup {r}
  BY <1>1, <1>2 DEF Queued
<1>4. QueuedOnce'
  BY <1>1, <1>2 DEF QueuedOnce, Queued
<1>5. QED
  BY <1>3, <1>4

LEMMA TaskTaken ==
    ASSUME tasks \in Seq(AsyncReqs), tasks # << >>, tasks' = Tail(tasks), QueuedOnce
    PROVE  /\ Head(tasks) \in Queued
           /\ Queued' = Queued \ {Head(tasks)}
           /\ QueuedOnce'
<1>1. /\ Len(tasks) \in Nat \ {0}
      /\ DOMAIN tasks = 1..Len(tasks)
      /\ DOMAIN tasks' = 1..(Len(tasks) - 1)
      /\ Head(tasks) = tasks[1]
      /\ \A i \in 1..(Len(tasks) - 1) : tasks'[i] = tasks[i + 1]
  OBVIOUS
<1>2. Head(tasks) \in Queued
  BY <1>1 DEF Queued
<1>3. QueuedOnce'
  BY <1>1 DEF QueuedOnce
<1>4. Queued' \subseteq Queued \ {Head(tasks)}
  BY <1>1 DEF Queued, QueuedOnce
<1>5. ASSUME NEW q \in Queued \ {Head(tasks)} PROVE q \in Queued'
  <2>1. PICK i \in DOMAIN tasks : q = tasks[i]
    BY DEF Queued
  <2>2. i - 1 \in DOMAIN tasks' /\ tasks'[i - 1] = q
    BY <1>1, <2>1
  <2>3. QED
    BY <2>2 DEF Queued
<1>6. QED
  BY <1>2, <1>3, <1>4, <1>5

-----------------------------------------------------------------------------
(* The inductive invariant.                                                *)

LEMMA InitPoolInv == Init => PoolInv
<1> SUFFICES ASSUME Init PROVE PoolInv
  OBVIOUS
<1>1. \A t \in Threads : pc[t] \in {"unborn", "idle"}
  BY DEF Init
<1>2. Workers \subseteq Threads /\ phase = "starting" /\ requests = {} /\ tasks = << >>
  BY DEF Init, Threads
<1>3. MutexHeldToSleep /\ AllBorn /\ StopIsSet /\ SweepOutlastsDozing /\ JoinFindsNobodyAsleep
  BY <1>1, <1>2 DEF MutexHeldToSleep, AllBorn, StopIsSet, SweepOutlastsDozing,
                    JoinFindsNobodyAsleep, Swept, InStop
<1>4. QueuedOnce /\ TasksRegistered
  BY <1>2 DEF QueuedOnce, TasksRegistered, Queued
<1>5. CallsRegistered /\ PendingUnanswered /\ AnswerReady
  BY <1>1, <1>2 DEF CallsRegistered, PendingUnanswered, AnswerReady, InCall
<1>6. QueuedTaskHasAwakeWorker /\ SweepMissesNobody /\ ExitLeavesNothingQueued
  BY <1>1, <1>2 DEF QueuedTaskHasAwakeWorker, SweepMissesNobody, ExitLeavesNothingQueued, Swept
<1>7. StopInv
  BY <1>1, <1>2 DEF Init, StopInv, BornAreListed, Unborn, SweepTakesAll, JoinsAll, OneStop,
                    StopWhileRunning, Swept, InStop
<1>8. RunsInv /\ RequestsHeld
  BY PoolAssumption DEF Init, RunsInv, CalledInCall, UnrunUnanswered, RequestsHeld
<1>9. QED
  BY <1>3, <1>4, <1>5, <1>6, <1>7, <1>8 DEF PoolInv, ThreadsInv, RegistryInv

\* No step leaves a task to sleeping workers, or a worker asleep under a join.
LEMMA StepThreadsInv == TypeOK /\ ThreadsInv /\ [Next]_vars => ThreadsInv'
<1> SUFFICES ASSUME TypeOK, ThreadsInv, [Next]_vars PROVE ThreadsInv'
  OBVIOUS
<1> USE PoolAssumption DEF ThreadsInv, MutexHeldToSleep, AllBorn, StopIsSet, SweepOutlastsDozing,
        QueuedTaskHasAwakeWorker, ExitLeavesNothingQueued, JoinFindsNobodyAsleep,
        Swept, Unborn, InStop, Threads, ctor, queue, frames, answers, Goto, MayCall, Free, MutexFree
<1>0. /\ pc \in [Threads -> WorkerPC] /\ workers \subseteq Workers /\ tasks \in Seq(AsyncReqs)
      /\ \A c \in Callers : pc[c] \in CallerPC
  BY DEF TypeOK
<1>1. CASE UNCHANGED vars
  BY <1>1 DEF vars
<1>2. CASE Construct
  <2>1. ASSUME NEW w \in Workers, Spawn(w) PROVE ThreadsInv'
    BY <1>0, <2>1 DEF Spawn
  <2>2. CASE SpawnFails
    BY <1>0, <2>2 DEF SpawnFails
  <2>3. CASE FailedStartNotifies
    BY <1>0, <2>3 DEF FailedStartNotifies, Waiting
  <2>4. CASE FailedStartJoins
    BY <1>0, <2>4 DEF FailedStartJoins
  <2>5. QED
    BY <1>2, <2>1, <2>2, <2>3, <2>4 DEF Construct
<1>3. ASSUME NEW t \in Threads, Submit(t) PROVE ThreadsInv'
  <2>1. ASSUME NEW r \in AsyncReqs, AcceptAsync(t, r) PROVE ThreadsInv'
    BY <1>0, <2>1 DEF AcceptAsync, NotifyOne, Waiting, Accepting, WorkerPC, CallerPC
  <2>2. ASSUME NEW r \in AsyncReqs, RejectAsync(t, r) PROVE ThreadsInv'
    BY <1>0, <2>2 DEF RejectAsync
  <2>3. ASSUME NEW r \in AsyncReqs, Cancel(t, r) PROVE ThreadsInv'
    BY <1>0, <2>3 DEF Cancel
  <2>4. ASSUME NEW r \in SyncReqs, BeginSync(t, r) PROVE ThreadsInv'
    BY <1>0, <2>4 DEF BeginSync
  <2>5. ASSUME NEW r \in SyncReqs, RejectSync(t, r) PROVE ThreadsInv'
    BY <1>0, <2>5 DEF RejectSync
  <2>6. ASSUME NEW r \in SyncReqs, RejectMethod(t, r) PROVE ThreadsInv'
    BY <1>0, <2>6 DEF RejectMethod
  <2>7. QED
    BY <1>3, <2>1, <2>2, <2>3, <2>4, <2>5, <2>6 DEF Submit
<1>4. ASSUME NEW t \in Threads, Run(t) PROVE ThreadsInv'
  <2>1. CASE RunEndsEarly(t)
    BY <1>0, <2>1 DEF RunEndsEarly
  <2>2. CASE RunGoesOut(t)
    BY <1>0, <2>2 DEF RunGoesOut
  <2>3. CASE RunComesBack(t)
    BY <1>0, <2>3 DEF RunComesBack
  <2>4. CASE RunThrows(t)
    BY <1>0, <2>4 DEF RunThrows
  <2>5. CASE Finish(t)
    BY <1>0, <2>5 DEF Finish
  <2>6. QED
    BY <1>4, <2>1, <2>2, <2>3, <2>4, <2>5 DEF Run
<1>5. ASSUME NEW t \in Threads, StopCall(t) \/ Stop(t) \/ Release(t) PROVE ThreadsInv'
  <2>1. CASE StopCall(t)
    BY <1>0, <2>1 DEF StopCall
  <2>2. CASE StopSweeps(t)
    BY <1>0, <2>2 DEF StopSweeps
  <2>3. CASE StopNotifies(t)
    BY <1>0, <2>3 DEF StopNotifies, Woken, Waiting
  <2>4. CASE StopJoins(t)
    BY <1>0, <2>4 DEF StopJoins
  <2>5. CASE Release(t)
    BY <1>0, <2>5 DEF Release
  <2>6. QED
    BY <1>5, <2>1, <2>2, <2>3, <2>4, <2>5 DEF Stop
<1>6. ASSUME NEW w \in Workers, Loop(w) \/ SpuriousWake(w) \/ HandlerReturns(w) PROVE ThreadsInv'
  <2>1. CASE Take(w)
    BY <1>0, <2>1 DEF Take, Popped
  <2>2. CASE Exit(w)
    BY <1>0, <2>2 DEF Exit, MayExit
  <2>3. CASE Doze(w)
    BY <1>0, <2>3 DEF Doze
  <2>4. CASE Block(w)
    BY <1>0, <2>4 DEF Block
  <2>5. CASE SpuriousWake(w)
    BY <1>0, <2>5 DEF SpuriousWake
  <2>6. CASE HandlerReturns(w)
    BY <1>0, <2>6 DEF HandlerReturns
  <2>7. QED
    BY <1>6, <2>1, <2>2, <2>3, <2>4, <2>5, <2>6 DEF Loop
<1>7. QED
  BY <1>1, <1>2, <1>3, <1>4, <1>5, <1>6 DEF Next

\* A step that leaves the registry, the queue and the answers alone, puts nobody
\* into a call and makes no pass of stop() keeps the registry's invariant.
LEMMA RegistryUntouched ==
    ASSUME RegistryInv, UNCHANGED <<queue, call, completions, result>>,
           cancelled \subseteq cancelled', Swept' => Swept,
           \A t \in Threads : pc'[t] \in InCall => pc'[t] = pc[t]
    PROVE  RegistryInv'
<1>1. Queued' = Queued /\ QueuedOnce' /\ TasksRegistered'
  BY DEF RegistryInv, queue, Queued, QueuedOnce, TasksRegistered
<1>2. CallsRegistered' /\ PendingUnanswered' /\ AnswerReady'
  BY <1>1 DEF RegistryInv, queue, CallsRegistered, PendingUnanswered, AnswerReady, InCall,
              Contract!Served
<1>3. SweepMissesNobody'
  BY DEF RegistryInv, queue, SweepMissesNobody
<1>4. QED
  BY <1>1, <1>2, <1>3 DEF RegistryInv

LEMMA StepRegistryInv == TypeOK /\ PoolInv /\ [Next]_vars => RegistryInv'
<1> SUFFICES ASSUME TypeOK, PoolInv, [Next]_vars PROVE RegistryInv'
  OBVIOUS
<1> USE DEF ctor, queue, frames, answers, Goto, MayCall, Free, InStop
<1>0. /\ RegistryInv /\ StopIsSet
      /\ pc \in [Threads -> WorkerPC] /\ call \in [Threads -> Reqs \cup {NoReq}]
      /\ requests \subseteq Reqs /\ workers \subseteq Workers /\ tasks \in Seq(AsyncReqs)
      /\ completions \in [Reqs -> Nat] /\ result \in [Reqs -> Answers \cup {"none"}]
      /\ Workers \subseteq Threads /\ AsyncReqs \subseteq Reqs /\ SyncReqs \subseteq Reqs
  BY DEF PoolInv, ThreadsInv, TypeOK, Threads, Reqs
<1>1. CASE UNCHANGED vars
  BY <1>0, <1>1, RegistryUntouched DEF vars, Swept
<1>2. CASE Construct
  <2>1. ASSUME NEW w \in Workers, Spawn(w) PROVE RegistryInv'
    BY <1>0, <2>1, RegistryUntouched DEF Spawn, Swept, InCall
  <2>2. CASE SpawnFails
    BY <1>0, <2>2, RegistryUntouched DEF SpawnFails, Swept
  <2>3. CASE FailedStartNotifies
    BY <1>0, <2>3, RegistryUntouched DEF FailedStartNotifies, Swept, InCall
  <2>4. CASE FailedStartJoins
    BY <1>0, <2>4, RegistryUntouched DEF FailedStartJoins, Swept
  <2>5. QED
    BY <1>2, <2>1, <2>2, <2>3, <2>4 DEF Construct
<1>3. ASSUME NEW t \in Threads, Submit(t) PROVE RegistryInv'
  <2>1. ASSUME NEW r \in AsyncReqs, AcceptAsync(t, r) PROVE RegistryInv'
    <3>1. r \notin requests /\ completions[r] = 0 /\ ~stopped /\ requests' = requests \cup {r}
      BY <2>1 DEF AcceptAsync, Fresh, Accepting
    <3>2. Queued' = Queued \cup {r} /\ QueuedOnce' /\ TasksRegistered'
      <4>1. r \notin Queued
        BY <1>0, <3>1 DEF RegistryInv, TasksRegistered
      <4>2. Queued' = Queued \cup {r} /\ QueuedOnce'
        BY <1>0, <2>1, <4>1, TasksAppended DEF AcceptAsync, RegistryInv
      <4>3. QED
        BY <1>0, <3>1, <4>2 DEF RegistryInv, TasksRegistered
    <3>3. \A s \in Threads : pc'[s] \in InCall => pc'[s] = pc[s]
      BY <1>0, <2>1 DEF AcceptAsync, NotifyOne, Waiting, InCall
    <3>4. CallsRegistered' /\ PendingUnanswered' /\ AnswerReady'
      BY <1>0, <2>1, <3>1, <3>2, <3>3 DEF AcceptAsync, RegistryInv, CallsRegistered,
         PendingUnanswered, AnswerReady, InCall, Contract!Served
    <3>5. SweepMissesNobody'
      BY <1>0, <2>1, <3>1 DEF AcceptAsync, SweepMissesNobody, StopIsSet, Swept
    <3>6. QED
      BY <3>2, <3>4, <3>5 DEF RegistryInv
  <2>2. ASSUME NEW r \in Reqs, r \notin requests, completions' = [completions EXCEPT ![r] = @ + 1],
               \E answer \in Answers : result' = [result EXCEPT ![r] = answer],
               UNCHANGED <<ctor, stopped, mutex, queue, pc, frames, joining, cancelled>>
        PROVE  RegistryInv'
    <3>1. QueuedOnce' /\ TasksRegistered' /\ CallsRegistered' /\ SweepMissesNobody'
      BY <1>0, <2>2 DEF RegistryInv, QueuedOnce, TasksRegistered, Queued, CallsRegistered,
                        SweepMissesNobody, Swept, InCall
    <3>2. PendingUnanswered'
      BY <1>0, <2>2 DEF RegistryInv, PendingUnanswered
    <3>3. AnswerReady'
      BY <1>0, <2>2 DEF RegistryInv, AnswerReady, CallsRegistered, InCall, Contract!Served
    <3>4. QED
      BY <3>1, <3>2, <3>3 DEF RegistryInv
  <2>3. ASSUME NEW r \in AsyncReqs, RejectAsync(t, r) PROVE RegistryInv'
    BY <1>0, <2>2, <2>3 DEF RejectAsync, Answer, Answers, Fresh
  <2>4. ASSUME NEW r \in AsyncReqs, Cancel(t, r) PROVE RegistryInv'
    BY <1>0, <2>4, RegistryUntouched DEF Cancel, Swept
  <2>5. ASSUME NEW r \in SyncReqs, BeginSync(t, r) PROVE RegistryInv'
    <3>1. r \notin requests /\ completions[r] = 0 /\ ~stopped /\ requests' = requests \cup {r}
      BY <2>5 DEF BeginSync, Fresh, Accepting
    <3>2. Queued' = Queued /\ QueuedOnce' /\ TasksRegistered' /\ r \notin Queued
      BY <1>0, <2>5, <3>1 DEF BeginSync, RegistryInv, QueuedOnce, TasksRegistered, Queued
    <3>3. CallsRegistered'
      BY <1>0, <2>5, <3>1, <3>2 DEF BeginSync, RegistryInv, CallsRegistered, InCall
    <3>4. PendingUnanswered' /\ AnswerReady'
      BY <1>0, <2>5, <3>1 DEF BeginSync, RegistryInv, PendingUnanswered, AnswerReady,
                              InCall, Contract!Served
    <3>5. SweepMissesNobody'
      BY <1>0, <2>5, <3>1 DEF BeginSync, SweepMissesNobody, StopIsSet, Swept
    <3>6. QED
      BY <3>2, <3>3, <3>4, <3>5 DEF RegistryInv
  <2>6. ASSUME NEW r \in SyncReqs, RejectSync(t, r) PROVE RegistryInv'
    BY <1>0, <2>2, <2>6 DEF RejectSync, Answer, Answers, Fresh
  <2>7. ASSUME NEW r \in SyncReqs, RejectMethod(t, r) PROVE RegistryInv'
    BY <1>0, <2>2, <2>7 DEF RejectMethod, Answer, Answers, Fresh
  <2>8. QED
    BY <1>3, <2>1, <2>3, <2>4, <2>5, <2>6, <2>7 DEF Submit
<1>4. ASSUME NEW t \in Threads, Run(t) PROVE RegistryInv'
  <2>1. ASSUME pc[t] \in InCall, pc' = [pc EXCEPT ![t] = "erase"],
               \E answer \in Contract!Served : result' = [result EXCEPT ![call[t]] = answer],
               UNCHANGED <<ctor, queue, frames, cancelled, completions>>
        PROVE  RegistryInv'
    <3>1. call[t] \in Reqs /\ result'[call[t]] \in Contract!Served
      BY <1>0, <2>1 DEF RegistryInv, CallsRegistered, Contract!Served
    <3>2. QueuedOnce' /\ TasksRegistered' /\ PendingUnanswered' /\ SweepMissesNobody'
      BY <1>0, <2>1 DEF RegistryInv, QueuedOnce, TasksRegistered, Queued, PendingUnanswered,
                        SweepMissesNobody, Swept
    <3>3. CallsRegistered'
      BY <1>0, <2>1 DEF RegistryInv, CallsRegistered, Queued, InCall
    <3>4. AnswerReady'
      BY <1>0, <2>1, <3>1 DEF RegistryInv, AnswerReady, CallsRegistered, InCall, Contract!Served
    <3>5. QED
      BY <3>2, <3>3, <3>4 DEF RegistryInv
  <2>2. CASE RunEndsEarly(t)
    BY <1>0, <2>1, <2>2 DEF RunEndsEarly, InCall, Contract!Served
  <2>3. CASE RunGoesOut(t)
    <3>1. QueuedOnce' /\ TasksRegistered' /\ PendingUnanswered' /\ SweepMissesNobody'
      BY <1>0, <2>3 DEF RunGoesOut, RegistryInv, QueuedOnce, TasksRegistered, Queued,
                        PendingUnanswered, SweepMissesNobody, Swept
    <3>2. CallsRegistered' /\ AnswerReady'
      BY <1>0, <2>3 DEF RunGoesOut, RegistryInv, CallsRegistered, AnswerReady, Queued, InCall,
                        Contract!Served
    <3>3. QED
      BY <3>1, <3>2 DEF RegistryInv
  <2>4. CASE RunComesBack(t)
    BY <1>0, <2>1, <2>4 DEF RunComesBack, InCall, Contract!Served
  <2>5. CASE RunThrows(t)
    <3>1. QueuedOnce' /\ TasksRegistered' /\ PendingUnanswered' /\ SweepMissesNobody'
      BY <1>0, <2>5 DEF RunThrows, RegistryInv, QueuedOnce, TasksRegistered, Queued,
                        PendingUnanswered, SweepMissesNobody, Swept
    <3>2. CallsRegistered' /\ AnswerReady'
      BY <1>0, <2>5 DEF RunThrows, RegistryInv, CallsRegistered, AnswerReady, Queued, InCall,
                        Contract!Served
    <3>3. QED
      BY <3>1, <3>2 DEF RegistryInv
  <2>6. CASE Finish(t)
    <3>1. /\ pc[t] = "erase" /\ call[t] \in requests \ Queued
          /\ requests' = requests \ {call[t]} /\ Queued' = Queued
      BY <1>0, <2>6 DEF Finish, Erased, RegistryInv, CallsRegistered, InCall, Queued
    <3>2. QueuedOnce' /\ TasksRegistered' /\ SweepMissesNobody'
      BY <1>0, <2>6, <3>1 DEF Finish, RegistryInv, QueuedOnce, TasksRegistered,
                              SweepMissesNobody, Swept
    <3>3. CallsRegistered' /\ AnswerReady'
      BY <1>0, <2>6, <3>1 DEF Finish, RegistryInv, CallsRegistered, AnswerReady, InCall,
                              Contract!Served
    <3>4. PendingUnanswered'
      BY <1>0, <2>6, <3>1 DEF Finish, RegistryInv, PendingUnanswered
    <3>5. QED
      BY <3>2, <3>3, <3>4 DEF RegistryInv
  <2>7. QED
    BY <1>4, <2>2, <2>3, <2>4, <2>5, <2>6 DEF Run
<1>5. ASSUME NEW t \in Threads, StopCall(t) \/ Stop(t) \/ Release(t) PROVE RegistryInv'
  <2>1. CASE StopCall(t)
    BY <1>0, <2>1, RegistryUntouched DEF StopCall, FirstStop, Swept, InCall
  <2>2. CASE StopSweeps(t)
    <3>1. QueuedOnce' /\ TasksRegistered' /\ PendingUnanswered'
      BY <1>0, <2>2 DEF StopSweeps, RegistryInv, QueuedOnce, TasksRegistered, Queued,
                        PendingUnanswered
    <3>2. CallsRegistered' /\ AnswerReady'
      BY <1>0, <2>2 DEF StopSweeps, RegistryInv, CallsRegistered, AnswerReady, Queued, InCall,
                        Contract!Served
    <3>3. SweepMissesNobody'
      BY <2>2 DEF StopSweeps, SweepTargets, SweepMissesNobody
    <3>4. QED
      BY <3>1, <3>2, <3>3 DEF RegistryInv
  <2>3. CASE StopNotifies(t)
    BY <1>0, <2>3, RegistryUntouched DEF StopNotifies, Swept, InCall
  <2>4. CASE StopJoins(t)
    BY <1>0, <2>4, RegistryUntouched DEF StopJoins, Swept, InCall
  <2>5. CASE Release(t)
    BY <1>0, <2>5, RegistryUntouched DEF Release, Swept
  <2>6. QED
    BY <1>5, <2>1, <2>2, <2>3, <2>4, <2>5 DEF Stop
<1>6. ASSUME NEW w \in Workers, Loop(w) \/ SpuriousWake(w) \/ HandlerReturns(w)
      PROVE  RegistryInv'
  <2>1. CASE Take(w)
    <3>1. /\ Head(tasks) \in Queued
          /\ Queued' = Queued \ {Head(tasks)}
          /\ QueuedOnce'
      BY <1>0, <2>1, TaskTaken DEF Take, Popped, RegistryInv
    <3>2. TasksRegistered' /\ PendingUnanswered' /\ SweepMissesNobody'
      BY <1>0, <2>1, <3>1 DEF Take, RegistryInv, TasksRegistered, PendingUnanswered,
                              SweepMissesNobody, Swept
    <3>3. CallsRegistered'
      BY <1>0, <2>1, <3>1 DEF Take, RegistryInv, TasksRegistered, CallsRegistered, InCall
    <3>4. AnswerReady'
      BY <1>0, <2>1 DEF Take, RegistryInv, AnswerReady, Contract!Served
    <3>5. QED
      BY <3>1, <3>2, <3>3, <3>4 DEF RegistryInv
  <2>2. CASE Exit(w)
    BY <1>0, <2>2, RegistryUntouched DEF Exit, Swept, InCall
  <2>3. CASE Doze(w)
    BY <1>0, <2>3, RegistryUntouched DEF Doze, Swept, InCall
  <2>4. CASE Block(w)
    BY <1>0, <2>4, RegistryUntouched DEF Block, Swept, InCall
  <2>5. CASE SpuriousWake(w)
    BY <1>0, <2>5, RegistryUntouched DEF SpuriousWake, Swept, InCall
  <2>6. CASE HandlerReturns(w)
    BY <1>0, <2>6, RegistryUntouched DEF HandlerReturns, Swept, InCall
  <2>7. QED
    BY <1>6, <2>1, <2>2, <2>3, <2>4, <2>5, <2>6 DEF Loop
<1>7. QED
  BY <1>1, <1>2, <1>3, <1>4, <1>5, <1>6 DEF Next

\* A step of anybody but start() and stop() leaves what stop() has to do alone.
LEMMA StopUntouched ==
    ASSUME StopInv, UNCHANGED <<phase, workers, stopped, joining>>,
           \A t \in Threads : pc[t] \in InStop \/ pc'[t] \in InStop => pc'[t] = pc[t],
           \A w \in Workers : pc[w] \in {"unborn", "exited"} => pc'[w] = pc[w],
           \A w \in Workers : pc'[w] = "unborn" => pc[w] = "unborn"
    PROVE  StopInv'
<1>1. BornAreListed' /\ SweepTakesAll'
  BY DEF StopInv, BornAreListed, SweepTakesAll, Unborn, InStop
<1>2. JoinsAll' /\ OneStop' /\ StopWhileRunning'
  BY DEF StopInv, JoinsAll, OneStop, StopWhileRunning, InStop
<1>3. QED
  BY <1>1, <1>2 DEF StopInv

\* The one stop() there is takes over all workers and joins them, all but the one,
\* if any, that called it.
LEMMA StepStopInv == TypeOK /\ PoolInv /\ [Next]_vars => StopInv'
<1> SUFFICES ASSUME TypeOK, PoolInv, [Next]_vars PROVE StopInv'
  OBVIOUS
<1> USE DEF ctor, queue, frames, answers, Goto, MayCall, Free, InStop
<1>0. /\ StopInv /\ StopIsSet
      /\ pc \in [Threads -> WorkerPC] /\ workers \subseteq Workers
      /\ joining \in [Threads -> SUBSET Workers]
      /\ Workers \subseteq Threads /\ Workers # {}
  BY PoolAssumption DEF PoolInv, ThreadsInv, TypeOK, Threads
<1>1. CASE UNCHANGED vars
  BY <1>0, <1>1, StopUntouched DEF vars
<1>2. CASE Construct
  <2>1. ASSUME NEW w \in Workers, Spawn(w) PROVE StopInv'
    <3>1. /\ phase = "starting" /\ pc[w] = "unborn" /\ pc' = [pc EXCEPT ![w] = "top"]
          /\ workers' = workers \cup {w} /\ phase' \in {"starting", "running"}
          /\ phase' = "running" => Unborn = {w}
          /\ UNCHANGED <<stopped, joining>>
      BY <2>1 DEF Spawn
    <3>2. BornAreListed' /\ SweepTakesAll'
      BY <1>0, <3>1 DEF StopInv, BornAreListed, SweepTakesAll, Unborn
    <3>3. ASSUME NEW t \in Threads PROVE pc'[t] \notin InStop
      BY <1>0, <3>1 DEF StopInv, StopWhileRunning
    <3>4. JoinsAll' /\ OneStop' /\ StopWhileRunning'
      BY <3>1, <3>3 DEF JoinsAll, OneStop, StopWhileRunning, Swept
    <3>5. QED
      BY <3>2, <3>4 DEF StopInv
  <2>2. CASE SpawnFails \/ FailedStartJoins
    <3>1. phase # "running" /\ phase' \notin {"starting", "running"} /\ UNCHANGED <<pc, joining>>
      BY <2>2 DEF SpawnFails, FailedStartJoins
    <3>2. QED
      BY <1>0, <3>1 DEF StopInv, BornAreListed, SweepTakesAll, JoinsAll, OneStop,
                        StopWhileRunning, Swept
  <2>3. CASE FailedStartNotifies
    <3>1. phase # "running" /\ phase' \notin {"starting", "running"}
      BY <2>3 DEF FailedStartNotifies
    <3>2. \A t \in Threads : pc'[t] \notin InStop
      BY <1>0, <2>3, <3>1 DEF FailedStartNotifies, StopInv, StopWhileRunning
    <3>3. QED
      BY <3>1, <3>2 DEF StopInv, BornAreListed, SweepTakesAll, JoinsAll, OneStop,
                        StopWhileRunning, Swept
  <2>4. QED
    BY <1>2, <2>1, <2>2, <2>3 DEF Construct
<1>3. ASSUME NEW t \in Threads, Submit(t) \/ Run(t) \/ Release(t) PROVE StopInv'
  <2>1. ASSUME NEW r \in AsyncReqs, AcceptAsync(t, r) PROVE StopInv'
    BY <1>0, <2>1, StopUntouched DEF AcceptAsync, NotifyOne, Waiting
  <2>2. ASSUME NEW r \in AsyncReqs, RejectAsync(t, r) \/ Cancel(t, r) PROVE StopInv'
    BY <1>0, <2>2, StopUntouched DEF RejectAsync, Cancel
  <2>3. ASSUME NEW r \in SyncReqs, BeginSync(t, r) \/ RejectSync(t, r) \/ RejectMethod(t, r)
        PROVE  StopInv'
    BY <1>0, <2>3, StopUntouched DEF BeginSync, RejectSync, RejectMethod
  <2>4. CASE RunEndsEarly(t) \/ RunGoesOut(t) \/ RunComesBack(t)
    BY <1>0, <2>4, StopUntouched DEF RunEndsEarly, RunGoesOut, RunComesBack
  <2>5. CASE RunThrows(t) \/ Finish(t) \/ Release(t)
    BY <1>0, <2>5, StopUntouched DEF RunThrows, Finish, Release
  <2>6. QED
    BY <1>3, <2>1, <2>2, <2>3, <2>4, <2>5 DEF Submit, Run
<1>4. ASSUME NEW t \in Threads, StopCall(t) PROVE StopInv'
  <2>1. /\ phase = "running" /\ ~stopped /\ stopped' /\ pc[t] = "idle"
        /\ pc' = [pc EXCEPT ![t] = "sweep"]
        /\ UNCHANGED <<phase, workers, joining>>
    BY <1>4 DEF StopCall, FirstStop
  <2>2. \A s \in Threads : pc[s] \notin InStop
    BY <1>0, <2>1 DEF StopIsSet
  <2>3. BornAreListed' /\ SweepTakesAll'
    BY <1>0, <2>1 DEF StopInv, BornAreListed, SweepTakesAll
  <2>4. JoinsAll' /\ OneStop' /\ StopWhileRunning'
    BY <1>0, <2>1, <2>2 DEF JoinsAll, OneStop, StopWhileRunning
  <2>5. QED
    BY <2>3, <2>4 DEF StopInv
<1>5. ASSUME NEW t \in Threads, Stop(t) PROVE StopInv'
  <2>1. phase = "running" /\ phase' = phase /\ stopped /\ stopped' = stopped
    BY <1>0, <1>5 DEF Stop, StopSweeps, StopNotifies, StopJoins, StopInv, StopWhileRunning, StopIsSet
  <2>2. pc[t] \in InStop /\ \A s \in Threads \ {t} : pc[s] \notin InStop
    BY <1>0, <1>5 DEF Stop, StopSweeps, StopNotifies, StopJoins, StopInv, OneStop
  <2>3. CASE StopSweeps(t)
    <3>1. workers = Workers /\ joining' = [joining EXCEPT ![t] = Workers]
      BY <1>0, <2>1, <2>3 DEF StopSweeps, StopInv, SweepTakesAll
    <3>2. pc' = [pc EXCEPT ![t] = "notify"]
      BY <2>3 DEF StopSweeps
    <3>3. QED
      BY <1>0, <2>1, <2>2, <3>1, <3>2 DEF StopInv, BornAreListed, SweepTakesAll, JoinsAll,
                     OneStop, StopWhileRunning
  <2>4. CASE StopNotifies(t)
    <3>1. /\ pc[t] = "notify" /\ pc'[t] = "join" /\ UNCHANGED <<workers, joining>>
          /\ \A s \in Threads \ {t} : pc'[s] \notin InStop
      BY <1>0, <2>2, <2>4 DEF StopNotifies
    <3>2. QED
      BY <1>0, <2>1, <2>2, <3>1 DEF StopInv, BornAreListed, SweepTakesAll, JoinsAll,
                     OneStop, StopWhileRunning
  <2>5. CASE StopJoins(t)
    <3>1. pc' = [pc EXCEPT ![t] = "idle"] /\ joining' = [joining EXCEPT ![t] = {}]
          /\ workers' = workers
      BY <2>5 DEF StopJoins
    <3>2. \A s \in Threads : pc'[s] \notin InStop
      BY <1>0, <2>2, <3>1
    <3>3. QED
      BY <1>0, <2>1, <3>1, <3>2 DEF StopInv, BornAreListed, SweepTakesAll, JoinsAll,
                     OneStop, StopWhileRunning
  <2>6. QED
    BY <1>5, <2>3, <2>4, <2>5 DEF Stop
<1>6. ASSUME NEW w \in Workers, Loop(w) \/ SpuriousWake(w) \/ HandlerReturns(w) PROVE StopInv'
  BY <1>0, <1>6, StopUntouched DEF Loop, Take, Exit, Doze, Block, SpuriousWake, HandlerReturns
<1>7. QED
  BY <1>1, <1>2, <1>3, <1>4, <1>5, <1>6 DEF Next

LEMMA HeldUntouched ==
    ASSUME RequestsHeld, UNCHANGED <<queue, call>>,
           \A t \in Threads : pc[t] \in InCall => pc'[t] \in InCall
    PROVE  RequestsHeld'
BY DEF RequestsHeld, Queued, queue

\* Without exceptions a request leaves the queue into a call, and its call only once
\* it is erased.
LEMMA StepRequestsHeld == TypeOK /\ PoolInv /\ [Next]_vars => RequestsHeld'
<1> SUFFICES ASSUME TypeOK, PoolInv, [Next]_vars PROVE RequestsHeld'
  OBVIOUS
<1> USE DEF ctor, queue, frames, answers, Goto, MayCall, Free, InStop
<1>0. /\ RequestsHeld /\ CalledInCall /\ CallsRegistered /\ TasksRegistered /\ QueuedOnce
      /\ pc \in [Threads -> WorkerPC] /\ call \in [Threads -> Reqs \cup {NoReq}]
      /\ tasks \in Seq(AsyncReqs) /\ requests \subseteq Reqs
      /\ Workers \subseteq Threads /\ NoReq \notin Reqs
  BY PoolAssumption DEF PoolInv, RunsInv, RegistryInv, TypeOK, Threads
<1>1. CASE UNCHANGED vars
  BY <1>0, <1>1, HeldUntouched DEF vars
<1>2. CASE Construct
  BY <1>0, <1>2, HeldUntouched DEF Construct, Spawn, SpawnFails, FailedStartNotifies,
                                   FailedStartJoins, Waiting, InCall
<1>3. ASSUME NEW t \in Threads, Submit(t) PROVE RequestsHeld'
  <2>1. ASSUME NEW r \in AsyncReqs, AcceptAsync(t, r) PROVE RequestsHeld'
    <3>1. requests' = requests \cup {r} /\ r \notin Queued
      BY <1>0, <2>1 DEF AcceptAsync, Fresh, TasksRegistered
    <3>2. Queued' = Queued \cup {r}
      BY <1>0, <2>1, <3>1, TasksAppended DEF AcceptAsync
    <3>3. call' = call /\ \A s \in Threads : pc[s] \in InCall => pc'[s] = pc[s]
      BY <1>0, <2>1 DEF AcceptAsync, NotifyOne, Waiting, InCall
    <3>4. QED
      BY <1>0, <3>1, <3>2, <3>3 DEF RequestsHeld
  <2>2. ASSUME NEW r \in AsyncReqs, RejectAsync(t, r) \/ Cancel(t, r) PROVE RequestsHeld'
    BY <1>0, <2>2, HeldUntouched DEF RejectAsync, Cancel
  <2>3. ASSUME NEW r \in SyncReqs, BeginSync(t, r) PROVE RequestsHeld'
    <3>1. /\ requests' = requests \cup {r} /\ call' = [call EXCEPT ![t] = r]
          /\ pc' = [pc EXCEPT ![t] = "run"] /\ pc[t] = "idle" /\ Queued' = Queued
      BY <2>3 DEF BeginSync, Queued
    <3>2. call'[t] = r /\ pc'[t] \in InCall
      BY <1>0, <3>1 DEF InCall
    <3>3. \A s \in Threads : pc[s] \in InCall => s # t /\ pc'[s] = pc[s] /\ call'[s] = call[s]
      BY <1>0, <3>1 DEF InCall
    <3>4. QED
      BY <1>0, <3>1, <3>2, <3>3 DEF RequestsHeld
  <2>4. ASSUME NEW r \in SyncReqs, RejectSync(t, r) \/ RejectMethod(t, r) PROVE RequestsHeld'
    BY <1>0, <2>4, HeldUntouched DEF RejectSync, RejectMethod
  <2>5. QED
    BY <1>3, <2>1, <2>2, <2>3, <2>4 DEF Submit
<1>4. ASSUME NEW t \in Threads, Run(t) PROVE RequestsHeld'
  <2>1. CASE RunEndsEarly(t) \/ RunGoesOut(t) \/ RunComesBack(t)
    BY <1>0, <2>1, HeldUntouched DEF RunEndsEarly, RunGoesOut, RunComesBack, InCall
  <2>2. CASE RunThrows(t)
    BY <2>2 DEF RunThrows, RequestsHeld
  <2>3. CASE Finish(t)
    <3>1. /\ requests' = requests \ {call[t]} /\ Queued' = Queued
          /\ \A s \in Threads \ {t} : pc'[s] = pc[s] /\ call'[s] = call[s]
      BY <1>0, <2>3 DEF Finish, Erased, Queued
    <3>2. QED
      BY <1>0, <3>1 DEF RequestsHeld
  <2>4. QED
    BY <1>4, <2>1, <2>2, <2>3 DEF Run
<1>5. ASSUME NEW t \in Threads, StopCall(t) \/ Stop(t) \/ Release(t) PROVE RequestsHeld'
  BY <1>0, <1>5, HeldUntouched DEF StopCall, Stop, StopSweeps, StopNotifies, StopJoins, Release,
                                   Woken, Waiting, InCall
<1>6. ASSUME NEW w \in Workers, Loop(w) \/ SpuriousWake(w) \/ HandlerReturns(w)
      PROVE  RequestsHeld'
  <2>1. CASE Take(w)
    <3>1. Head(tasks) \in Queued /\ Queued' = Queued \ {Head(tasks)}
      BY <1>0, <2>1, TaskTaken DEF Take, Popped
    <3>2. /\ call'[w] = Head(tasks) /\ pc'[w] \in InCall /\ pc[w] \notin InCall
          /\ requests' = requests
          /\ \A s \in Threads \ {w} : pc'[s] = pc[s] /\ call'[s] = call[s]
      BY <1>0, <2>1 DEF Take, InCall
    <3>3. QED
      BY <1>0, <3>1, <3>2 DEF RequestsHeld
  <2>2. CASE Exit(w) \/ Doze(w) \/ Block(w) \/ SpuriousWake(w) \/ HandlerReturns(w)
    BY <1>0, <2>2, HeldUntouched DEF Exit, Doze, Block, SpuriousWake, HandlerReturns, InCall
  <2>3. QED
    BY <1>6, <2>1, <2>2 DEF Loop
<1>7. QED
  BY <1>1, <1>2, <1>3, <1>4, <1>5, <1>6 DEF Next

LEMMA RunsUntouched ==
    ASSUME RunsInv, UNCHANGED <<queue, call, completions, result>>,
           \A t \in Threads : pc[t] \in InCall \/ pc'[t] \in InCall => pc'[t] = pc[t]
    PROVE  RunsInv'
BY DEF RunsInv, CalledInCall, UnrunUnanswered, Running, Fresh, Queued, queue, InCall

\* A request gets its answer where it is refused or at the end of its run, and is
\* not run again.
LEMMA StepRunsInv == TypeOK /\ PoolInv /\ [Next]_vars => RunsInv'
<1> SUFFICES ASSUME TypeOK, PoolInv, [Next]_vars PROVE RunsInv'
  OBVIOUS
<1> USE DEF ctor, queue, frames, answers, Goto, MayCall, Free, InStop
<1>0. /\ RunsInv /\ TasksRegistered /\ CallsRegistered /\ PendingUnanswered /\ QueuedOnce
      /\ pc \in [Threads -> WorkerPC] /\ call \in [Threads -> Reqs \cup {NoReq}]
      /\ result \in [Reqs -> Answers \cup {"none"}] /\ completions \in [Reqs -> Nat]
      /\ tasks \in Seq(AsyncReqs) /\ requests \subseteq Reqs
      /\ Workers \subseteq Threads /\ AsyncReqs \subseteq Reqs /\ SyncReqs \subseteq Reqs
      /\ NoReq \notin Reqs
  BY PoolAssumption DEF PoolInv, RegistryInv, TypeOK, Threads, Reqs
<1>1. CASE UNCHANGED vars
  BY <1>0, <1>1, RunsUntouched DEF vars
<1>2. CASE Construct
  BY <1>0, <1>2, RunsUntouched DEF Construct, Spawn, SpawnFails, FailedStartNotifies,
                                   FailedStartJoins, Waiting, InCall
<1>3. ASSUME NEW t \in Threads, Submit(t) PROVE RunsInv'
  <2>1. ASSUME NEW r \in AsyncReqs, AcceptAsync(t, r) PROVE RunsInv'
    <3>1. Fresh(r) /\ tasks' = Append(tasks, r) /\ r \notin Queued
      BY <1>0, <2>1 DEF AcceptAsync, Fresh, TasksRegistered
    <3>2. Queued' = Queued \cup {r}
      BY <1>0, <3>1, TasksAppended
    <3>3. \A s \in Threads : pc[s] \in InCall \/ pc'[s] \in InCall => pc'[s] = pc[s]
      BY <1>0, <2>1 DEF AcceptAsync, NotifyOne, Waiting, InCall
    <3>4. CalledInCall'
      BY <1>0, <2>1, <3>3 DEF AcceptAsync, RunsInv, CalledInCall
    <3>5. \A q \in Reqs : (Fresh(q)' => Fresh(q)) /\ (Running(q)' => Running(q))
      BY <1>0, <2>1, <3>3 DEF AcceptAsync, Fresh, Running, InCall
    <3>6. UnrunUnanswered'
      BY <1>0, <2>1, <3>1, <3>2, <3>5 DEF AcceptAsync, RunsInv, UnrunUnanswered
    <3>7. QED
      BY <3>4, <3>6 DEF RunsInv
  <2>2. ASSUME NEW r \in Reqs, NEW answer, Fresh(r), Answer(r, answer),
               UNCHANGED <<queue, pc, call>>
        PROVE  RunsInv'
    <3>1. completions'[r] # 0 /\ \A q \in Reqs \ {r} : completions'[q] = completions[q]
      BY <1>0, <2>2 DEF Answer, Fresh
    <3>2. \A q \in Reqs \ {r} : result'[q] = result[q]
      BY <1>0, <2>2 DEF Answer
    <3>3. r \notin Queued /\ ~Running(r)
      BY <1>0, <2>2 DEF TasksRegistered, CallsRegistered, Fresh, Running, InCall
    <3>4. QED
      BY <1>0, <2>2, <3>1, <3>2, <3>3 DEF RunsInv, CalledInCall, UnrunUnanswered, Running,
                                          Fresh, Queued
  <2>3. ASSUME NEW r \in AsyncReqs, RejectAsync(t, r) PROVE RunsInv'
    BY <1>0, <2>2, <2>3 DEF RejectAsync
  <2>4. ASSUME NEW r \in AsyncReqs, Cancel(t, r) PROVE RunsInv'
    BY <1>0, <2>4, RunsUntouched DEF Cancel
  <2>5. ASSUME NEW r \in SyncReqs, BeginSync(t, r) PROVE RunsInv'
    <3>1. Fresh(r) /\ result[r] = "none" /\ UNCHANGED <<tasks, result, completions>>
      BY <1>0, <2>5 DEF BeginSync, RunsInv, UnrunUnanswered
    <3>2. call' = [call EXCEPT ![t] = r] /\ pc' = [pc EXCEPT ![t] = "run"]
          /\ requests' = requests \cup {r}
      BY <2>5 DEF BeginSync
    <3>3. CalledInCall'
      BY <1>0, <3>2 DEF RunsInv, CalledInCall, InCall
    <3>4. \A q \in Reqs : (Fresh(q)' => Fresh(q)) /\ (Running(q)' => Running(q) \/ q = r)
      BY <1>0, <3>1, <3>2 DEF Fresh, Running
    <3>5. UnrunUnanswered'
      BY <1>0, <3>1, <3>4 DEF RunsInv, UnrunUnanswered, Queued
    <3>6. QED
      BY <3>3, <3>5 DEF RunsInv
  <2>6. ASSUME NEW r \in SyncReqs, RejectSync(t, r) \/ RejectMethod(t, r) PROVE RunsInv'
    BY <1>0, <2>2, <2>6 DEF RejectSync, RejectMethod
  <2>7. QED
    BY <1>3, <2>1, <2>3, <2>4, <2>5, <2>6 DEF Submit
<1>4. ASSUME NEW t \in Threads, Run(t) PROVE RunsInv'
  <2>1. /\ pc[t] \in InCall /\ call[t] \in Reqs /\ call[t] \in requests \ Queued
        /\ completions[call[t]] = 0
        /\ \A s \in Threads : call[s] = call[t] => s = t
    BY <1>0, <1>4 DEF Run, RunEndsEarly, RunGoesOut, RunComesBack, RunThrows, Finish, InCall,
                      CallsRegistered, PendingUnanswered, RunsInv, CalledInCall
  <2>2. CASE RunEndsEarly(t) \/ RunComesBack(t)
    <3>1. /\ pc' = [pc EXCEPT ![t] = "erase"] /\ UNCHANGED <<queue, call, completions>>
          /\ \A q \in Reqs \ {call[t]} : result'[q] = result[q]
      BY <1>0, <2>1, <2>2 DEF RunEndsEarly, RunComesBack
    <3>2. CalledInCall'
      BY <1>0, <3>1 DEF RunsInv, CalledInCall, InCall
    <3>4. \A q \in Reqs : (Fresh(q)' => Fresh(q)) /\ (Running(q)' => Running(q))
      BY <1>0, <3>1 DEF Fresh, Running
    <3>5. UnrunUnanswered'
      <4> SUFFICES ASSUME NEW q \in Reqs, Fresh(q)' \/ q \in Queued' \/ Running(q)'
                   PROVE  result'[q] = "none"
        BY DEF UnrunUnanswered
      <4>1. q # call[t]
        BY <1>0, <2>1, <3>1 DEF Fresh, Queued, Running
      <4>2. QED
        BY <1>0, <3>1, <3>4, <4>1 DEF RunsInv, UnrunUnanswered, Queued
    <3>6. QED
      BY <3>2, <3>5 DEF RunsInv
  <2>3. CASE RunGoesOut(t)
    BY <1>0, <2>3 DEF RunGoesOut, RunsInv, CalledInCall, UnrunUnanswered, Running, Fresh,
                      Queued, InCall
  <2>4. CASE RunThrows(t)
    BY <1>0, <2>1, <2>4 DEF RunThrows, RunsInv, CalledInCall, UnrunUnanswered, Running, Fresh,
                      Queued, InCall
  <2>5. CASE Finish(t)
    <3>1. /\ pc' = [pc EXCEPT ![t] = "idle"] /\ call' = [call EXCEPT ![t] = NoReq]
          /\ requests' = requests \ {call[t]} /\ UNCHANGED <<tasks, result>>
          /\ completions' = [completions EXCEPT ![call[t]] = @ + 1]
      BY <2>5 DEF Finish, Erased
    <3>2. CalledInCall'
      BY <1>0, <3>1 DEF RunsInv, CalledInCall, InCall
    <3>3. completions'[call[t]] # 0
      BY <1>0, <2>1, <3>1
    <3>4. \A q \in Reqs : (Fresh(q)' => Fresh(q)) /\ (Running(q)' => Running(q))
      BY <1>0, <2>1, <3>1, <3>3 DEF Fresh, Running
    <3>5. UnrunUnanswered'
      BY <1>0, <3>1, <3>4 DEF RunsInv, UnrunUnanswered, Queued
    <3>6. QED
      BY <3>2, <3>5 DEF RunsInv
  <2>6. QED
    BY <1>4, <2>2, <2>3, <2>4, <2>5 DEF Run
<1>5. ASSUME NEW t \in Threads, StopCall(t) \/ Stop(t) \/ Release(t) PROVE RunsInv'
  BY <1>0, <1>5, RunsUntouched DEF StopCall, Stop, StopSweeps, StopNotifies, StopJoins, Release,
                                   Woken, Waiting, InCall
<1>6. ASSUME NEW w \in Workers, Loop(w) \/ SpuriousWake(w) \/ HandlerReturns(w)
      PROVE  RunsInv'
  <2>1. CASE Take(w)
    <3>1. Head(tasks) \in Queued /\ Queued' = Queued \ {Head(tasks)}
      BY <1>0, <2>1, TaskTaken DEF Take, Popped
    <3>2. /\ call' = [call EXCEPT ![w] = Head(tasks)] /\ pc' = [pc EXCEPT ![w] = "run"]
          /\ UNCHANGED <<requests, result, completions>>
      BY <2>1 DEF Take
    <3>3. CalledInCall'
      BY <1>0, <3>2 DEF RunsInv, CalledInCall, InCall
    <3>4. \A q \in Reqs : (Fresh(q)' => Fresh(q)) /\ (Running(q)' => Running(q) \/ q \in Queued)
      BY <1>0, <3>1, <3>2 DEF Fresh, Running
    <3>5. UnrunUnanswered'
      BY <1>0, <3>1, <3>2, <3>4 DEF RunsInv, UnrunUnanswered
    <3>6. QED
      BY <3>3, <3>5 DEF RunsInv
  <2>2. CASE Exit(w) \/ Doze(w) \/ Block(w) \/ SpuriousWake(w) \/ HandlerReturns(w)
    BY <1>0, <2>2, RunsUntouched DEF Exit, Doze, Block, SpuriousWake, HandlerReturns, InCall
  <2>3. QED
    BY <1>6, <2>1, <2>2 DEF Loop
<1>7. QED
  BY <1>1, <1>2, <1>3, <1>4, <1>5, <1>6 DEF Next

LEMMA Invariant == Spec => [](TypeOK /\ PoolInv)
<1>1. Init => TypeOK /\ PoolInv
  BY InitTypeOK, InitPoolInv
<1>2. TypeOK /\ PoolInv /\ [Next]_vars => TypeOK' /\ PoolInv'
  BY StepTypeOK, StepThreadsInv, StepRegistryInv, StepStopInv, StepRunsInv, StepRequestsHeld
     DEF PoolInv
<1>3. QED
  BY <1>1, <1>2, PTL DEF Spec

\* An answer is final: nothing touches it once its caller has it.
LEMMA AnswersAreFinal ==
    TypeOK /\ PoolInv /\ [Next]_vars =>
        \A r \in Reqs : completions[r] # 0 =>
            completions'[r] = completions[r] /\ result'[r] = result[r]
<1> SUFFICES ASSUME TypeOK, PoolInv, [Next]_vars, NEW r \in Reqs, completions[r] # 0
             PROVE  completions'[r] = completions[r] /\ result'[r] = result[r]
  OBVIOUS
<1> USE DEF ctor, queue, frames, answers, Goto
<1>0. /\ CallsRegistered /\ PendingUnanswered
      /\ result \in [Reqs -> Answers \cup {"none"}] /\ completions \in [Reqs -> Nat]
  BY DEF PoolInv, RegistryInv, TypeOK
<1>1. CASE UNCHANGED vars
  BY <1>1 DEF vars
<1>2. CASE Construct
  BY <1>2 DEF Construct, Spawn, SpawnFails, FailedStartNotifies, FailedStartJoins
<1>3. ASSUME NEW t \in Threads, Submit(t)
      PROVE  completions'[r] = completions[r] /\ result'[r] = result[r]
  BY <1>0, <1>3 DEF Submit, AcceptAsync, RejectAsync, Cancel, BeginSync, RejectSync, RejectMethod,
                    Answer, Fresh
<1>4. ASSUME NEW t \in Threads, Run(t)
      PROVE  completions'[r] = completions[r] /\ result'[r] = result[r]
  <2>1. call[t] # r
    BY <1>0, <1>4 DEF Run, RunEndsEarly, RunGoesOut, RunComesBack, RunThrows, Finish, InCall,
                      CallsRegistered, PendingUnanswered
  <2>2. QED
    BY <1>0, <1>4, <2>1 DEF Run, RunEndsEarly, RunGoesOut, RunComesBack, RunThrows, Finish
<1>5. ASSUME NEW t \in Threads, StopCall(t) \/ Stop(t) \/ Release(t)
      PROVE  completions'[r] = completions[r] /\ result'[r] = result[r]
  BY <1>5 DEF StopCall, Stop, StopSweeps, StopNotifies, StopJoins, Release
<1>6. ASSUME NEW w \in Workers, Loop(w) \/ SpuriousWake(w) \/ HandlerReturns(w)
      PROVE  completions'[r] = completions[r] /\ result'[r] = result[r]
  BY <1>6 DEF Loop, Take, Exit, Doze, Block, SpuriousWake, HandlerReturns
<1>7. QED
  BY <1>1, <1>2, <1>3, <1>4, <1>5, <1>6 DEF Next

\* Type correctness.  In particular no caller is answered twice, and no program
\* thread ever executes an asynchronous request: tasks run on workers only.
THEOREM TypeCorrect == Spec => []TypeOK
<1>1. QED
  BY Invariant, PTL

\* The bookkeeping of the pool is right in every state.
THEOREM PoolInvariant == Spec => []PoolInv
<1>1. QED
  BY Invariant, PTL

\* No answer is given twice, and none is changed: a request that was completed, or
\* turned away, stays as it is.
THEOREM AnswersStay ==
    Spec => [][\A r \in Reqs : completions[r] # 0 =>
                   completions'[r] = completions[r] /\ result'[r] = result[r]]_vars
<1>1. ASSUME TypeOK, PoolInv, [Next]_vars
      PROVE  [\A r \in Reqs : completions[r] # 0 =>
                 completions'[r] = completions[r] /\ result'[r] = result[r]]_vars
  BY <1>1, AnswersAreFinal
<1>2. QED
  BY <1>1, Invariant, PTL DEF Spec

\* Unless run() throws, an accepted request is in the queue or in the hands of a
\* thread until it is answered.
THEOREM NobodyIsForgotten == Spec => []RequestsHeld
<1>1. PoolInv => RequestsHeld
  BY DEF PoolInv
<1>2. QED
  BY <1>1, Invariant, PTL

\* However many workers there are, a queued task is never left to sleeping ones:
\* notify_one() is enough.
THEOREM QueuedTasksAreServed == Spec => []QueuedTaskHasAwakeWorker
<1>1. PoolInv => QueuedTaskHasAwakeWorker
  BY DEF PoolInv, ThreadsInv
<1>2. QED
  BY <1>1, Invariant, PTL

\* No submission slips past stop(): after its pass every registered request is
\* cancelled.
THEOREM StopMissesNobody == Spec => []SweepMissesNobody
<1>1. PoolInv => SweepMissesNobody
  BY DEF PoolInv, RegistryInv
<1>2. QED
  BY <1>1, Invariant, PTL

\* Workers that have returned from worker_loop() left an empty queue for good.
THEOREM ExitedWorkersLeftNothing == Spec => []ExitLeavesNothingQueued
<1>1. PoolInv => ExitLeavesNothingQueued
  BY DEF PoolInv, ThreadsInv
<1>2. QED
  BY <1>1, Invariant, PTL

\* No wakeup of stop() is lost: nobody sleeps, or is about to, under the joins.
THEOREM StopLosesNoWakeup == Spec => []JoinFindsNobodyAsleep
<1>1. PoolInv => JoinFindsNobodyAsleep
  BY DEF PoolInv, ThreadsInv
<1>2. QED
  BY <1>1, Invariant, PTL

\* stop() comes out of its joins only when every worker has exited but its caller's
\* own thread: it took over all there are.
THEOREM StopJoinsTheRest == Spec => StopLeavesOnlyItsCaller
<1> DEFINE Alone ==
        \A t \in Threads : pc[t] = "join" /\ pc'[t] # "join" =>
            \A w \in Workers \ {t} : pc[w] = "exited"
<1>1. ASSUME TypeOK, PoolInv, [Next]_vars PROVE [Alone]_vars
  <2> SUFFICES ASSUME vars' # vars, NEW t \in Threads, pc[t] = "join", pc'[t] # "join"
               PROVE  \A w \in Workers \ {t} : pc[w] = "exited"
    OBVIOUS
  <2>1. pc \in [Threads -> WorkerPC] /\ Workers \subseteq Threads
    BY <1>1 DEF TypeOK, Threads
  <2>2. StopJoins(t)
    <3> USE <1>1, <2>1 DEF Goto
    <3>1. ~Construct
      BY DEF Construct, Spawn, SpawnFails, FailedStartNotifies, FailedStartJoins, Waiting
    <3>2. ASSUME NEW s \in Threads PROVE ~Submit(s)
      BY DEF Submit, AcceptAsync, NotifyOne, Waiting, RejectAsync, Cancel, BeginSync,
             RejectSync, RejectMethod, MayCall, Free
    <3>3. ASSUME NEW s \in Threads PROVE ~Run(s)
      BY DEF Run, RunEndsEarly, RunGoesOut, RunComesBack, RunThrows, Finish
    <3>4. ASSUME NEW s \in Threads PROVE ~StopCall(s) /\ ~Release(s)
      BY DEF StopCall, Release, MayCall, Free
    <3>5. ASSUME NEW s \in Threads, Stop(s) PROVE StopJoins(t)
      BY <3>5 DEF Stop, StopSweeps, StopNotifies, StopJoins, Woken, Waiting
    <3>6. ASSUME NEW w \in Workers PROVE ~Loop(w) /\ ~SpuriousWake(w) /\ ~HandlerReturns(w)
      BY DEF Loop, Take, Exit, Doze, Block, SpuriousWake, HandlerReturns
    <3>7. QED
      BY <3>1, <3>2, <3>3, <3>4, <3>5, <3>6 DEF Next, vars
  <2>3. joining[t] = Workers
    BY <1>1 DEF PoolInv, StopInv, JoinsAll
  <2>4. QED
    BY <2>2, <2>3 DEF StopJoins, Joinable
<1>2. QED
  BY <1>1, Invariant, PTL DEF Spec, StopLeavesOnlyItsCaller

\* After stop()'s pass no request starts on the network, queued, called or to come.
THEOREM NothingGoesOut == Spec => NothingGoesOutAfterSweep
<1> DEFINE Quiet == \A t \in Threads : pc[t] # "network" /\ pc'[t] = "network" => ~Swept
<1>1. ASSUME TypeOK, PoolInv, [Next]_vars PROVE [Quiet]_vars
  <2> SUFFICES ASSUME [Next]_vars, vars' # vars, NEW t \in Threads,
                      pc[t] # "network", pc'[t] = "network"
               PROVE  ~Swept
    BY <1>1
  <2>1. pc \in [Threads -> WorkerPC] /\ Workers \subseteq Threads
    BY <1>1 DEF TypeOK, Threads
  <2>2. RunGoesOut(t)
    <3> USE <2>1 DEF Goto
    <3>1. ~Construct
      BY DEF Construct, Spawn, SpawnFails, FailedStartNotifies, FailedStartJoins
    <3>2. ASSUME NEW s \in Threads PROVE ~Submit(s)
      BY DEF Submit, AcceptAsync, NotifyOne, Waiting, RejectAsync, Cancel, BeginSync,
             RejectSync, RejectMethod
    <3>3. ASSUME NEW s \in Threads, Run(s) PROVE RunGoesOut(t)
      BY <3>3 DEF Run, RunEndsEarly, RunGoesOut, RunComesBack, RunThrows, Finish
    <3>4. ASSUME NEW s \in Threads PROVE ~StopCall(s) /\ ~Stop(s) /\ ~Release(s)
      BY DEF StopCall, Stop, StopSweeps, StopNotifies, StopJoins, Release
    <3>5. ASSUME NEW w \in Workers PROVE ~Loop(w) /\ ~SpuriousWake(w) /\ ~HandlerReturns(w)
      BY DEF Loop, Take, Exit, Doze, Block, SpuriousWake, HandlerReturns
    <3>6. QED
      BY <3>1, <3>2, <3>3, <3>4, <3>5 DEF Next, vars
  <2>3. call[t] \in requests /\ call[t] \notin cancelled
    BY <1>1, <2>2 DEF RunGoesOut, Goto, PoolInv, RegistryInv, CallsRegistered, InCall
  <2>4. QED
    BY <1>1, <2>3 DEF PoolInv, RegistryInv, SweepMissesNobody
<1>2. QED
  BY <1>1, Invariant, PTL DEF Spec, NothingGoesOutAfterSweep

-----------------------------------------------------------------------------
(* The pool implements the contract, as far as safety goes.                *)

\* What ClientContract calls the outcome.
Outcome == [r \in Reqs |-> IF completions[r] = 0 THEN "none" ELSE result[r]]

LEMMA InitRefines == Init => Contract!Init
BY DEF Init, Contract!Init, Contract!Unanswered

\* Answers that stay invisible until the request is completed do not count.
LEMMA ContractUnmoved ==
    ASSUME UNCHANGED <<stopped, requests, completions, result>>
    PROVE  UNCHANGED Contract!vars
BY DEF Contract!vars

LEMMA StepRefines == TypeOK /\ PoolInv /\ [Next]_vars => [Contract!Next]_Contract!vars
<1> SUFFICES ASSUME TypeOK, PoolInv, [Next]_vars PROVE [Contract!Next]_Contract!vars
  OBVIOUS
<1> USE DEF ctor, queue, frames, answers, Goto, MayCall, Free
<1>0. /\ RegistryInv
      /\ pc \in [Threads -> WorkerPC] /\ requests \subseteq Reqs /\ stopped \in BOOLEAN
      /\ completions \in [Reqs -> Nat] /\ result \in [Reqs -> Answers \cup {"none"}]
      /\ AsyncReqs \subseteq Reqs /\ SyncReqs \subseteq Reqs
  BY DEF PoolInv, TypeOK, Reqs
<1>1. CASE UNCHANGED vars
  BY <1>1, ContractUnmoved DEF vars
<1>2. CASE Construct
  <2>1. CASE SpawnFails
    <3>1. CASE stopped
      BY <2>1, <3>1, ContractUnmoved DEF SpawnFails
    <3>2. CASE ~stopped
      BY <1>0, <2>1, <3>2 DEF SpawnFails, Contract!Next, Contract!Close
    <3>3. QED
      BY <3>1, <3>2
  <2>2. QED
    BY <1>2, <2>1, ContractUnmoved DEF Construct, Spawn, FailedStartNotifies, FailedStartJoins
<1>3. ASSUME NEW t \in Threads, Submit(t) PROVE [Contract!Next]_Contract!vars
  <2>1. ASSUME NEW r \in Reqs, Fresh(r), ~stopped, requests' = requests \cup {r},
               UNCHANGED <<stopped, completions, result>>
        PROVE  Contract!Accept(r)
    BY <2>1 DEF Contract!Accept, Contract!Fresh, Fresh
  <2>2. ASSUME NEW r \in Reqs, Fresh(r), NEW answer \in Contract!Refusals,
               answer = "client_stopped" => stopped,
               Answer(r, answer), UNCHANGED <<stopped, requests>>
        PROVE  Contract!Refuse(r)
    <3>1. Outcome' = [Outcome EXCEPT ![r] = answer]
      <4>1. completions[r] = 0 /\ 0 + 1 # 0
        BY <2>2 DEF Fresh
      <4>2. completions'[r] # 0 /\ result'[r] = answer
        BY <1>0, <2>2, <4>1 DEF Answer
      <4>3. \A q \in Reqs \ {r} : completions'[q] = completions[q] /\ result'[q] = result[q]
        BY <1>0, <2>2 DEF Answer
      <4>4. QED
        BY <4>2, <4>3 DEF Outcome
    <3>2. QED
      BY <2>2, <3>1 DEF Contract!Refuse, Contract!Fresh, Contract!Answer, Fresh, Answer, Outcome
  <2>3. ASSUME NEW r \in AsyncReqs, AcceptAsync(t, r) \/ RejectAsync(t, r)
        PROVE  Contract!Accept(r) \/ Contract!Refuse(r)
    BY <1>0, <2>1, <2>2, <2>3 DEF AcceptAsync, RejectAsync, Accepting, Contract!Refusals
  <2>4. ASSUME NEW r \in AsyncReqs, Cancel(t, r) PROVE UNCHANGED Contract!vars
    BY <2>4, ContractUnmoved DEF Cancel
  <2>5. ASSUME NEW r \in SyncReqs, BeginSync(t, r) \/ RejectSync(t, r) \/ RejectMethod(t, r)
        PROVE  Contract!Accept(r) \/ Contract!Refuse(r)
    BY <1>0, <2>1, <2>2, <2>5 DEF BeginSync, RejectSync, RejectMethod, Accepting,
                                  Contract!Refusals
  <2>6. QED
    BY <1>0, <1>3, <2>3, <2>4, <2>5 DEF Submit, Contract!Next
<1>4. ASSUME NEW t \in Threads, Run(t) PROVE [Contract!Next]_Contract!vars
  <2>1. ASSUME pc[t] \in InCall, NEW answer, result' = [result EXCEPT ![call[t]] = answer],
               UNCHANGED <<stopped, requests, completions>>
        PROVE  UNCHANGED Contract!vars
    <3>1. completions[call[t]] = 0
      BY <1>0, <2>1 DEF RegistryInv, CallsRegistered, PendingUnanswered
    <3>2. Outcome' = Outcome
      BY <1>0, <2>1, <3>1 DEF Outcome
    <3>3. QED
      BY <2>1, <3>2 DEF Contract!vars, Outcome
  <2>2. CASE RunEndsEarly(t)
    BY <2>1, <2>2 DEF RunEndsEarly, InCall
  <2>3. CASE RunComesBack(t)
    BY <2>1, <2>3 DEF RunComesBack, InCall
  <2>4. CASE RunGoesOut(t) \/ RunThrows(t)
    BY <2>4, ContractUnmoved DEF RunGoesOut, RunThrows
  <2>5. CASE Finish(t)
    <3> DEFINE r == call[t]
    <3>1. r \in requests /\ r \in Reqs /\ completions[r] = 0 /\ result[r] \in Contract!Served
      BY <1>0, <2>5 DEF Finish, RegistryInv, CallsRegistered, PendingUnanswered, AnswerReady, InCall
    <3>2. Outcome' = [Outcome EXCEPT ![r] = result[r]]
      <4>1. completions'[r] # 0 /\ result' = result
        BY <1>0, <2>5, <3>1 DEF Finish
      <4>2. \A q \in Reqs \ {r} : completions'[q] = completions[q]
        BY <1>0, <2>5 DEF Finish
      <4>3. \A q \in Reqs : Outcome'[q] = IF q = r THEN result[r] ELSE Outcome[q]
        BY <4>1, <4>2 DEF Outcome
      <4>4. QED
        BY <3>1, <4>3 DEF Outcome
    <3>3. Contract!Complete(r)
      BY <2>5, <3>1, <3>2 DEF Finish, Erased, Contract!Complete, Contract!Answer, Outcome
    <3>4. QED
      BY <3>1, <3>3 DEF Contract!Next
  <2>6. QED
    BY <1>4, <2>2, <2>3, <2>4, <2>5 DEF Run
<1>5. ASSUME NEW t \in Threads, StopCall(t) \/ Stop(t) \/ Release(t) PROVE [Contract!Next]_Contract!vars
  <2>1. CASE StopCall(t)
    BY <2>1 DEF StopCall, FirstStop, Contract!Next, Contract!Close
  <2>2. CASE Stop(t)
    BY <2>2, ContractUnmoved DEF Stop, StopSweeps, StopNotifies, StopJoins
  <2>3. CASE Release(t)
    BY <2>3, ContractUnmoved DEF Release
  <2>4. QED
    BY <1>5, <2>1, <2>2, <2>3
<1>6. ASSUME NEW w \in Workers, Loop(w) \/ SpuriousWake(w) \/ HandlerReturns(w)
      PROVE  [Contract!Next]_Contract!vars
  BY <1>6, ContractUnmoved DEF Loop, Take, Exit, Doze, Block, SpuriousWake, HandlerReturns
<1>7. QED
  BY <1>1, <1>2, <1>3, <1>4, <1>5, <1>6 DEF Next

\* Whatever the pool does, its callers see the contract's safety: requests are
\* accepted or refused for the right reason and answered at most once.
THEOREM PoolKeepsContract == Spec => KeepsContract
<1>1. QED
  BY Invariant, InitRefines, StepRefines, PTL DEF Spec, KeepsContract, Contract!SafeSpec
-----------------------------------------------------------------------------
(* The run() of each request keeps its contract.                           *)

LEMMA InitRefinesRuns == Init => \A r \in Reqs : RunOf(r)!Init
BY PoolAssumption DEF Init, RunOf!Init, StageOf, Queued

\* A step that leaves the answer of a request alone, who calls it and whether it is
\* queued, leaves its run alone but for the flag.
LEMMA RunUnmoved ==
    ASSUME NEW r \in Reqs, result'[r] = result[r],
           (r \in requests \ Queued)' <=> r \in requests \ Queued,
           \A t \in Threads : call'[t] = r <=> call[t] = r,
           \A t \in Threads : call[t] = r => (pc'[t] = "network" <=> pc[t] = "network"),
           r \in cancelled => r \in cancelled'
    PROVE  [RunOf(r)!Next]_(RunOf(r)!vars)
<1>1. StageOf(r)' = StageOf(r)
  BY DEF StageOf
<1>2. QED
  BY <1>1 DEF RunOf!Next, RunOf!SetFlag, RunOf!vars

\* The flag is only ever set.
LEMMA FlagsStay == [Next]_vars => cancelled \subseteq cancelled'
<1> SUFFICES ASSUME [Next]_vars PROVE cancelled \subseteq cancelled'
  OBVIOUS
<1>1. CASE UNCHANGED vars
  BY <1>1 DEF vars
<1>2. CASE Construct
  BY <1>2 DEF Construct, Spawn, SpawnFails, FailedStartNotifies, FailedStartJoins
<1>3. ASSUME NEW t \in Threads, Submit(t) \/ Release(t) PROVE cancelled \subseteq cancelled'
  BY <1>3 DEF Submit, AcceptAsync, RejectAsync, Cancel, BeginSync, RejectSync, RejectMethod,
              Release
<1>4. ASSUME NEW t \in Threads, Run(t) PROVE cancelled \subseteq cancelled'
  BY <1>4 DEF Run, RunEndsEarly, RunGoesOut, RunComesBack, RunThrows, Finish
<1>5. ASSUME NEW t \in Threads, StopCall(t) \/ Stop(t) PROVE cancelled \subseteq cancelled'
  BY <1>5 DEF StopCall, Stop, StopSweeps, StopNotifies, StopJoins
<1>6. ASSUME NEW w \in Workers, Loop(w) \/ SpuriousWake(w) \/ HandlerReturns(w)
      PROVE  cancelled \subseteq cancelled'
  BY <1>6 DEF Loop, Take, Exit, Doze, Block, SpuriousWake, HandlerReturns
<1>7. QED
  BY <1>1, <1>2, <1>3, <1>4, <1>5, <1>6 DEF Next

\* What a step of one request's run is to all others: nothing.
LEMMA StepRefinesRuns ==
    TypeOK /\ PoolInv /\ [Next]_vars => \A r \in Reqs : [RunOf(r)!Next]_(RunOf(r)!vars)
<1> SUFFICES ASSUME TypeOK, PoolInv, [Next]_vars, NEW r \in Reqs
             PROVE  [RunOf(r)!Next]_(RunOf(r)!vars)
  OBVIOUS
<1> USE DEF ctor, queue, frames, answers, Goto, MayCall, Free
<1>0. /\ RunsInv /\ TasksRegistered /\ CallsRegistered /\ QueuedOnce
      /\ pc \in [Threads -> WorkerPC] /\ call \in [Threads -> Reqs \cup {NoReq}]
      /\ result \in [Reqs -> Answers \cup {"none"}] /\ completions \in [Reqs -> Nat]
      /\ tasks \in Seq(AsyncReqs) /\ requests \subseteq Reqs
      /\ Workers \subseteq Threads /\ AsyncReqs \subseteq Reqs /\ SyncReqs \subseteq Reqs
      /\ NoReq \notin Reqs
      /\ r \in cancelled => r \in cancelled'
  BY PoolAssumption, FlagsStay DEF PoolInv, RegistryInv, TypeOK, Threads, Reqs
<1>1. CASE UNCHANGED vars
  BY <1>0, <1>1, RunUnmoved DEF vars, Queued
<1>2. CASE Construct
  BY <1>0, <1>2, RunUnmoved DEF Construct, Spawn, SpawnFails, FailedStartNotifies,
                                FailedStartJoins, Waiting, Queued
\* A request nobody has submitted is not in the way of anything.
<1>3. ASSUME Fresh(r)
      PROVE  /\ StageOf(r) = "run" /\ result[r] = "none"
             /\ r \notin requests /\ r \notin Queued /\ \A s \in Threads : call[s] # r
  <2>1. result[r] = "none" /\ r \notin requests /\ r \notin Queued
    BY <1>0, <1>3 DEF RunsInv, UnrunUnanswered, Fresh, TasksRegistered
  <2>2. \A s \in Threads : call[s] # r
    BY <1>0, <2>1 DEF RunsInv, CalledInCall, CallsRegistered
  <2>3. QED
    BY <2>1, <2>2 DEF StageOf
<1>4. ASSUME NEW t \in Threads, Submit(t) PROVE [RunOf(r)!Next]_(RunOf(r)!vars)
  <2>1. ASSUME NEW q \in AsyncReqs, AcceptAsync(t, q) PROVE [RunOf(r)!Next]_(RunOf(r)!vars)
    <3>1. Fresh(q) /\ requests' = requests \cup {q} /\ q \notin Queued
      BY <1>0, <2>1 DEF AcceptAsync, Fresh, TasksRegistered
    <3>2. Queued' = Queued \cup {q}
      BY <1>0, <2>1, <3>1, TasksAppended DEF AcceptAsync
    <3>3. (r \in requests \ Queued)' <=> r \in requests \ Queued
      BY <3>1, <3>2 DEF Fresh
    <3>4. \A s \in Threads : pc'[s] = "network" <=> pc[s] = "network"
      BY <1>0, <2>1 DEF AcceptAsync, NotifyOne, Waiting
    <3>5. QED
      BY <1>0, <2>1, <3>3, <3>4, RunUnmoved DEF AcceptAsync
  <2>2. ASSUME NEW q \in Reqs, NEW answer \in {"client_stopped", "invalid_argument"},
               Fresh(q), Answer(q, answer), UNCHANGED <<queue, pc, call, cancelled>>
        PROVE  [RunOf(r)!Next]_(RunOf(r)!vars)
    <3>1. CASE r # q
      BY <1>0, <2>2, <3>1, RunUnmoved DEF Answer, Queued
    <3>2. CASE r = q
      <4>1. StageOf(r) = "run" /\ r \notin requests' /\ \A s \in Threads : call'[s] # r
        BY <1>3, <2>2, <3>2
      <4>2. result'[r] = answer
        BY <1>0, <2>2, <3>2 DEF Answer
      <4>3. CASE answer = "client_stopped"
        <5>1. StageOf(r)' = "run"
          BY <4>1, <4>2, <4>3 DEF StageOf
        <5>2. QED
          BY <2>2, <4>1, <5>1 DEF RunOf!vars
      <4>4. CASE answer = "invalid_argument"
        <5>1. StageOf(r)' = "back"
          BY <4>2, <4>4 DEF StageOf
        <5>2. QED
          BY <2>2, <4>1, <4>2, <4>4, <5>1 DEF RunOf!Next, RunOf!EndEarly, RunOf!EarlyAnswers
      <4>5. QED
        BY <4>3, <4>4
    <3>3. QED
      BY <3>1, <3>2
  <2>3. ASSUME NEW q \in AsyncReqs, RejectAsync(t, q) PROVE [RunOf(r)!Next]_(RunOf(r)!vars)
    BY <1>0, <2>2, <2>3 DEF RejectAsync
  <2>4. ASSUME NEW q \in AsyncReqs, Cancel(t, q) PROVE [RunOf(r)!Next]_(RunOf(r)!vars)
    BY <1>0, <2>4, RunUnmoved DEF Cancel, Queued
  <2>5. ASSUME NEW q \in SyncReqs, BeginSync(t, q) PROVE [RunOf(r)!Next]_(RunOf(r)!vars)
    <3>1. /\ Fresh(q) /\ requests' = requests \cup {q} /\ Queued' = Queued
          /\ pc' = [pc EXCEPT ![t] = "run"] /\ call' = [call EXCEPT ![t] = q]
          /\ pc[t] = "idle" /\ UNCHANGED <<result, cancelled>>
      BY <2>5 DEF BeginSync, Queued
    <3>2. call[t] = NoReq
      BY <1>0, <3>1 DEF RunsInv, CalledInCall, InCall
    <3>3. CASE r # q
      BY <1>0, <3>1, <3>2, <3>3, RunUnmoved
    <3>4. CASE r = q
      <4>1. result'[r] = "none" /\ call'[t] = r /\ \A s \in Threads : call'[s] = r => s = t
        BY <1>0, <1>3, <3>1, <3>4
      <4>2. StageOf(r)' = "run"
        BY <1>0, <3>1, <4>1 DEF StageOf
      <4>3. QED
        BY <1>3, <3>1, <3>4, <4>2 DEF RunOf!vars
    <3>5. QED
      BY <3>3, <3>4
  <2>6. ASSUME NEW q \in SyncReqs, RejectSync(t, q) \/ RejectMethod(t, q)
        PROVE  [RunOf(r)!Next]_(RunOf(r)!vars)
    BY <1>0, <2>2, <2>6 DEF RejectSync, RejectMethod
  <2>7. QED
    BY <1>4, <2>1, <2>3, <2>4, <2>5, <2>6 DEF Submit
<1>5. ASSUME NEW t \in Threads, Run(t) PROVE [RunOf(r)!Next]_(RunOf(r)!vars)
  <2>1. /\ pc[t] \in InCall /\ call[t] \in requests \ Queued
        /\ \A s \in Threads : call[s] = call[t] => s = t
    BY <1>0, <1>5 DEF Run, RunEndsEarly, RunGoesOut, RunComesBack, RunThrows, Finish, InCall,
                      CallsRegistered, RunsInv, CalledInCall
  <2>2. ASSUME call[t] = r, pc[t] \in {"run", "network"}
        PROVE  result[r] = "none" /\ StageOf(r) = pc[t]
    BY <1>0, <2>1, <2>2 DEF RunsInv, UnrunUnanswered, Running, StageOf
  <2>3. CASE RunEndsEarly(t)
    <3>1. CASE call[t] # r
      BY <1>0, <2>3, <3>1, RunUnmoved DEF RunEndsEarly, Queued
    <3>2. CASE call[t] = r
      <4>1. StageOf(r) = "run"
        BY <2>2, <2>3, <3>2 DEF RunEndsEarly
      <4>2. result'[r] \in RunOf(r)!EarlyAnswers /\ UNCHANGED cancelled
        BY <1>0, <2>3, <3>2 DEF RunEndsEarly, RunOf!EarlyAnswers
      <4>3. StageOf(r)' = "back"
        BY <4>2 DEF StageOf, RunOf!EarlyAnswers
      <4>4. QED
        BY <4>1, <4>2, <4>3 DEF RunOf!Next, RunOf!EndEarly
    <3>3. QED
      BY <3>1, <3>2
  <2>4. CASE RunGoesOut(t)
    <3>1. CASE call[t] # r
      BY <1>0, <2>4, <3>1, RunUnmoved DEF RunGoesOut, Queued
    <3>2. CASE call[t] = r
      <4>1. StageOf(r) = "run" /\ result[r] = "none" /\ r \notin cancelled
        BY <2>2, <2>4, <3>2 DEF RunGoesOut
      <4>2. call' = call /\ pc'[t] = "network" /\ UNCHANGED <<result, cancelled>>
        BY <1>0, <2>4 DEF RunGoesOut
      <4>3. StageOf(r)' = "network"
        BY <3>2, <4>1, <4>2 DEF StageOf
      <4>4. QED
        BY <4>1, <4>2, <4>3 DEF RunOf!Next, RunOf!GoOut
    <3>3. QED
      BY <3>1, <3>2
  <2>5. CASE RunComesBack(t)
    <3>1. CASE call[t] # r
      BY <1>0, <2>5, <3>1, RunUnmoved DEF RunComesBack, Queued
    <3>2. CASE call[t] = r
      <4>1. StageOf(r) = "network"
        BY <2>2, <2>5, <3>2 DEF RunComesBack
      <4>2. result'[r] \in RunOf(r)!LateAnswers /\ UNCHANGED cancelled
        BY <1>0, <2>5, <3>2 DEF RunComesBack, RunOf!LateAnswers
      <4>3. StageOf(r)' = "back"
        BY <4>2 DEF StageOf, RunOf!LateAnswers
      <4>4. QED
        BY <4>1, <4>2, <4>3 DEF RunOf!Next, RunOf!ComeBack
    <3>3. QED
      BY <3>1, <3>2
  <2>6. CASE RunThrows(t)
    <3>1. /\ call' = [call EXCEPT ![t] = NoReq] /\ UNCHANGED <<queue, result, cancelled>>
          /\ \A s \in Threads \ {t} : pc'[s] = pc[s]
          /\ pc[t] \in {"run", "network"}
      BY <1>0, <2>6 DEF RunThrows
    <3>2. CASE call[t] # r
      BY <1>0, <3>1, <3>2, RunUnmoved DEF Queued
    <3>3. CASE call[t] = r
      <4>1. StageOf(r) \in {"run", "network"} /\ result'[r] = "none"
        BY <2>2, <3>1, <3>3
      <4>2. r \in requests' \ Queued' /\ \A s \in Threads : call'[s] # r
        BY <1>0, <2>1, <3>1, <3>3 DEF Queued
      <4>3. StageOf(r)' = "thrown"
        BY <4>1, <4>2 DEF StageOf
      <4>4. QED
        BY <3>1, <4>1, <4>3 DEF RunOf!Next, RunOf!Throw
    <3>4. QED
      BY <3>2, <3>3
  <2>7. CASE Finish(t)
    <3>1. /\ call' = [call EXCEPT ![t] = NoReq] /\ requests' = requests \ {call[t]}
          /\ Queued' = Queued /\ UNCHANGED <<result, cancelled>>
          /\ pc[t] = "erase" /\ pc' = [pc EXCEPT ![t] = "idle"]
      BY <2>7 DEF Finish, Erased, Queued
    <3>2. CASE call[t] # r
      BY <1>0, <3>1, <3>2, RunUnmoved
    <3>3. CASE call[t] = r
      <4>1. result[r] \in Contract!Served
        BY <3>1, <3>3 DEF PoolInv, RegistryInv, AnswerReady
      <4>2. StageOf(r) = "back" /\ StageOf(r)' = "back"
        BY <3>1, <4>1 DEF StageOf, Contract!Served
      <4>3. QED
        BY <3>1, <4>2 DEF RunOf!vars
    <3>4. QED
      BY <3>2, <3>3
  <2>8. QED
    BY <1>5, <2>3, <2>4, <2>5, <2>6, <2>7 DEF Run
<1>6. ASSUME NEW t \in Threads, StopCall(t) \/ Stop(t) \/ Release(t)
      PROVE  [RunOf(r)!Next]_(RunOf(r)!vars)
  BY <1>0, <1>6, RunUnmoved DEF StopCall, Stop, StopSweeps, StopNotifies, StopJoins, Release,
                                Woken, Waiting, Queued
<1>7. ASSUME NEW w \in Workers, Loop(w) \/ SpuriousWake(w) \/ HandlerReturns(w)
      PROVE  [RunOf(r)!Next]_(RunOf(r)!vars)
  <2>1. CASE Take(w)
    <3>1. Head(tasks) \in Queued /\ Queued' = Queued \ {Head(tasks)}
      BY <1>0, <2>1, TaskTaken DEF Take, Popped
    <3>2. /\ call' = [call EXCEPT ![w] = Head(tasks)] /\ pc' = [pc EXCEPT ![w] = "run"]
          /\ pc[w] = "top" /\ UNCHANGED <<requests, result, cancelled>>
      BY <2>1 DEF Take
    <3>3. call[w] = NoReq
      BY <1>0, <3>2 DEF RunsInv, CalledInCall, InCall
    <3>4. CASE r # Head(tasks)
      BY <1>0, <3>1, <3>2, <3>3, <3>4, RunUnmoved
    <3>5. CASE r = Head(tasks)
      <4>1. result[r] = "none" /\ \A s \in Threads : call[s] # r
        BY <1>0, <3>1, <3>5 DEF RunsInv, UnrunUnanswered, CalledInCall, CallsRegistered
      <4>2. call'[w] = r /\ \A s \in Threads : call'[s] = r => s = w
        BY <1>0, <3>2, <3>5, <4>1
      <4>3. StageOf(r) = "run"
        BY <3>1, <3>5, <4>1 DEF StageOf
      <4>4. StageOf(r)' = "run"
        BY <1>0, <3>2, <4>1, <4>2 DEF StageOf
      <4>5. QED
        BY <3>2, <4>3, <4>4 DEF RunOf!vars
    <3>6. QED
      BY <3>4, <3>5
  <2>2. CASE Exit(w) \/ Doze(w) \/ Block(w) \/ SpuriousWake(w) \/ HandlerReturns(w)
    BY <1>0, <2>2, RunUnmoved DEF Exit, Doze, Block, SpuriousWake, HandlerReturns, Queued
  <2>3. QED
    BY <1>7, <2>1, <2>2 DEF Loop
<1>8. QED
  BY <1>1, <1>2, <1>4, <1>5, <1>6, <1>7 DEF Next

\* Each request is run at most once, by one thread, and the run() in it implements
\* RunContract: it gives no response to a request cancelled in time.
THEOREM RunsKeepContract == Spec => KeepsRunContract
<1>1. ASSUME TypeOK, PoolInv, [Next]_vars
      PROVE  [\A r \in Reqs : [RunOf(r)!Next]_(RunOf(r)!vars)]_vars
  BY <1>1, StepRefinesRuns
<1>2. QED
  BY <1>1, Invariant, InitRefinesRuns, PTL DEF Spec, KeepsRunContract
=============================================================================

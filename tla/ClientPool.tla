----------------------------- MODULE ClientPool -----------------------------
(***************************************************************************)
(* The concurrent half of src/client.cpp: Client::Impl with its mutex,     *)
(* condition variable, task queue, request registry and worker threads;    *)
(* the synchronous and asynchronous entry points; stop(); and cancellation *)
(* as the pool sees it, one flag per request.  What run() does between its *)
(* first and its last look at that flag is one stay in the state "network" *)
(* (module Attempt opens it up).                                           *)
(*                                                                         *)
(* A critical section under impl->mutex is one step, guarded by the mutex  *)
(* being free.  The one exception is the worker's wait: the predicate is   *)
(* evaluated, and the thread put to sleep, in two steps with the mutex     *)
(* held in between, because stop() and start() write `stopped` without the *)
(* mutex and may do so exactly there.                                      *)
(***************************************************************************)
EXTENDS Naturals, Sequences, FiniteSets

CONSTANTS Workers,       \* threads made by start()
          Callers,       \* threads of the program that use the client
          AsyncReqs,     \* async_download and async_upload calls
          SyncReqs,      \* download and upload calls
          BadUploads,    \* the uploads among them whose method is neither PUT nor POST
          RunMayThrow,   \* run() may throw: std::random_device, or out of memory
          SpawnMayFail,  \* std::thread's constructor may throw
          NoThread, NoReq

Threads == Workers \cup Callers
Reqs == AsyncReqs \cup SyncReqs

ASSUME PoolAssumption ==
    /\ Workers # {}                 \* start() makes max(1, worker_threads)
    /\ Workers \cap Callers = {}
    /\ AsyncReqs \cap SyncReqs = {}
    /\ BadUploads \subseteq Reqs
    /\ RunMayThrow \in BOOLEAN
    /\ SpawnMayFail \in BOOLEAN
    /\ NoThread \notin Threads
    /\ NoReq \notin Reqs

VARIABLES phase,        \* the constructor: starting, then running, or failing
          owned,        \* the Impl belongs to a Client
          stopped,      \* Impl::stopped
          mutex,        \* the worker that holds Impl::mutex between two steps
          tasks,        \* Impl::tasks
          requests,     \* Impl::requests
          workers,      \* Impl::workers, the threads stop() has not taken over
          pc,           \* where each thread is
          call,         \* the request whose run() a thread is executing
          handling,     \* the request whose completion handler a worker is in
          joining,      \* stop()'s local vector of threads to join
          cancelled,    \* the requests whose State::cancelled is set
          result,       \* what run(), or the refused call, gave
          completions   \* how often the caller of a request was answered

ctor == <<phase, owned, workers>>
queue == <<tasks, requests>>
frames == <<call, handling>>
answers == <<result, completions>>
vars == <<phase, owned, stopped, mutex, tasks, requests, workers, pc, call, handling,
          joining, cancelled, result, completions>>

Contract == INSTANCE ClientContract WITH
    open <- ~stopped, pending <- requests, completions <- completions,
    outcome <- [r \in Reqs |-> IF completions[r] = 0 THEN "none" ELSE result[r]]

Answers == {"response", "failure", "cancelled", "client_stopped", "invalid_argument"}

\* Where a thread is.  A caller between two calls, and a worker inside a
\* completion handler, are "idle": both may call into the client.
InCall == {"run", "network", "erase"}
InStop == {"sweep", "notify", "join"}
CallerPC == {"idle"} \cup InCall \cup InStop
WorkerPC == {"unborn", "top", "blocking", "waiting", "exited"} \cup CallerPC

\* No request is answered twice, and no caller executes an asynchronous one.
TypeOK ==
    /\ phase \in {"starting", "running", "failNotify", "failJoin", "failed"}
    /\ owned \in BOOLEAN
    /\ stopped \in BOOLEAN
    /\ mutex \in Workers \cup {NoThread}
    /\ tasks \in Seq(AsyncReqs)
    /\ requests \in SUBSET Reqs
    /\ workers \in SUBSET Workers
    /\ pc \in [Threads -> WorkerPC]
    /\ \A c \in Callers : pc[c] \in CallerPC
    /\ call \in [Threads -> Reqs \cup {NoReq}]
    /\ \A c \in Callers : call[c] \notin AsyncReqs
    /\ handling \in [Workers -> AsyncReqs \cup {NoReq}]
    /\ joining \in [Threads -> SUBSET Workers]
    /\ cancelled \in SUBSET Reqs
    /\ result \in [Reqs -> Answers \cup {"none"}]
    /\ completions \in [Reqs -> 0..1]

Init ==
    /\ phase = "starting"
    /\ owned = TRUE
    /\ stopped = FALSE
    /\ mutex = NoThread
    /\ tasks = << >>
    /\ requests = {}
    /\ workers = {}
    /\ pc = [t \in Threads |-> IF t \in Workers THEN "unborn" ELSE "idle"]
    /\ call = [t \in Threads |-> NoReq]
    /\ handling = [w \in Workers |-> NoReq]
    /\ joining = [t \in Threads |-> {}]
    /\ cancelled = {}
    /\ result = [r \in Reqs |-> "none"]
    /\ completions = [r \in Reqs |-> 0]

-----------------------------------------------------------------------------
(* Helpers.                                                                *)

Queued == {tasks[i] : i \in DOMAIN tasks}
Waiting == {w \in Workers : pc[w] = "waiting"}
Unborn == {w \in Workers : pc[w] = "unborn"}
MutexFree == mutex = NoThread
Fresh(r) == r \notin requests /\ completions[r] = 0

\* A request's State lives while the registry, its task or its call holds it.
Alive(r) ==
    \/ r \in requests \cup Queued
    \/ \E t \in Threads : call[t] = r
    \/ \E w \in Workers : handling[w] = r

\* What RunContract sees of the run() of a request.
StageOf(r) ==
    IF result[r] \notin {"none", "client_stopped"} THEN "back"
    ELSE IF \E t \in Threads : call[t] = r /\ pc[t] = "network" THEN "network"
    ELSE IF r \in requests \ Queued /\ \A t \in Threads : call[t] # r THEN "thrown"
    ELSE "run"

RunOf(r) == INSTANCE RunContract WITH
    stage <- StageOf(r), flag <- r \in cancelled,
    answer <- IF StageOf(r) = "back" THEN result[r] ELSE "none"

\* stop() has made its pass: it took the threads out of Impl::workers.
Swept == phase = "running" /\ workers = {}

Goto(t, from, to) ==
    /\ pc[t] = from
    /\ pc' = [pc EXCEPT ![t] = to]

\* t is free to call a RequestHandle, and to call into a Client that holds the Impl.
Free(t) == phase = "running" /\ pc[t] = "idle"
MayCall(t) == owned /\ Free(t)

Answer(r, answer) ==
    /\ result' = [result EXCEPT ![r] = answer]
    /\ completions' = [completions EXCEPT ![r] = @ + 1]

\* wake.notify_one() and wake.notify_all(): a woken worker goes back for the mutex.
NotifyNobody == UNCHANGED pc
NotifyOne ==
    IF Waiting = {} THEN UNCHANGED pc
    ELSE \E w \in Waiting : pc' = [pc EXCEPT ![w] = "top"]

WakeNobody == {}
Woken == Waiting

\* The worker's predicate and its exit test.
ExitOnStop == stopped
MayExit == stopped /\ tasks = << >>

\* What taking a task leaves of the queue.
NotPopped == tasks
Popped == Tail(tasks)

\* What a submission tests under the mutex, what its completion erases there,
\* when stop() goes on, what it cancels under the mutex, and whom it joins.
AcceptAlways == TRUE
Accepting == ~stopped
Kept(r) == requests
Erased(r) == requests \ {r}
EveryStop == TRUE
FirstStop == ~stopped
SweepQueuedOnly == Queued
SweepTargets == requests
JoinAll(t) == joining[t]
Joinable(t) == joining[t] \ {t}

-----------------------------------------------------------------------------
(* Impl::start(), on the thread constructing the client.                   *)

Spawn(w) ==
    /\ phase = "starting"
    /\ Goto(w, "unborn", "top")
    /\ workers' = workers \cup {w}
    /\ phase' = IF Unborn = {w} THEN "running" ELSE phase
    /\ UNCHANGED <<owned, stopped, mutex, queue, frames, joining, cancelled, answers>>

\* The catch block writes `stopped` and notifies without taking the mutex.
SpawnFails ==
    /\ SpawnMayFail
    /\ phase = "starting"
    /\ phase' = "failNotify"
    /\ stopped' = TRUE
    /\ UNCHANGED <<owned, workers, mutex, queue, pc, frames, joining, cancelled, answers>>

FailedStartNotifies ==
    /\ phase = "failNotify"
    /\ phase' = "failJoin"
    /\ pc' = [t \in Threads |-> IF t \in Waiting THEN "top" ELSE pc[t]]
    /\ UNCHANGED <<owned, workers, stopped, mutex, queue, frames, joining, cancelled, answers>>

FailedStartJoins ==
    /\ phase = "failJoin"
    /\ \A w \in workers : pc[w] = "exited"
    /\ phase' = "failed"
    /\ owned' = FALSE
    /\ workers' = {}
    /\ UNCHANGED <<stopped, mutex, queue, pc, frames, joining, cancelled, answers>>

-----------------------------------------------------------------------------
(* The entry points, called by a program thread or from a handler.  Stop   *)
(* tested, request registered and task queued are one critical section.    *)

AcceptAsync(t, r) ==
    /\ MayCall(t)
    /\ MutexFree
    /\ Accepting
    /\ Fresh(r)
    /\ requests' = requests \cup {r}
    /\ tasks' = Append(tasks, r)
    /\ NotifyOne
    /\ UNCHANGED <<ctor, stopped, mutex, frames, joining, cancelled, answers>>

\* A stopped client answers in the calling thread, before the call returns.
RejectAsync(t, r) ==
    /\ MayCall(t)
    /\ MutexFree
    /\ stopped
    /\ Fresh(r)
    /\ Answer(r, "client_stopped")
    /\ UNCHANGED <<ctor, stopped, mutex, queue, pc, frames, joining, cancelled>>

BeginSync(t, r) ==
    /\ MayCall(t)
    /\ MutexFree
    /\ Accepting
    /\ Fresh(r)
    /\ r \notin BadUploads
    /\ requests' = requests \cup {r}
    /\ call' = [call EXCEPT ![t] = r]
    /\ pc' = [pc EXCEPT ![t] = "run"]
    /\ UNCHANGED <<ctor, stopped, mutex, tasks, handling, joining, cancelled, answers>>

RejectSync(t, r) ==
    /\ MayCall(t)
    /\ MutexFree
    /\ stopped
    /\ Fresh(r)
    /\ r \notin BadUploads
    /\ Answer(r, "client_stopped")
    /\ UNCHANGED <<ctor, stopped, mutex, queue, pc, frames, joining, cancelled>>

\* upload() looks at the method before it looks at the client.
RejectMethod(t, r) ==
    /\ MayCall(t)
    /\ Fresh(r)
    /\ r \in BadUploads
    /\ Answer(r, "invalid_argument")
    /\ UNCHANGED <<ctor, stopped, mutex, queue, pc, frames, joining, cancelled>>

\* RequestHandle::cancel(): without effect once the State is gone.
Cancel(t, r) ==
    /\ Free(t)
    /\ Alive(r)
    /\ cancelled' = cancelled \cup {r}
    /\ UNCHANGED <<ctor, stopped, mutex, queue, pc, frames, joining, answers>>

-----------------------------------------------------------------------------
(* Impl::worker_loop().                                                    *)

Take(w) ==
    /\ MutexFree
    /\ tasks # << >>
    /\ Goto(w, "top", "run")
    /\ call' = [call EXCEPT ![w] = Head(tasks)]
    /\ tasks' = Popped
    /\ UNCHANGED <<ctor, stopped, mutex, requests, handling, joining, cancelled, answers>>

Exit(w) ==
    /\ MutexFree
    /\ MayExit
    /\ Goto(w, "top", "exited")
    /\ UNCHANGED <<ctor, stopped, mutex, queue, frames, joining, cancelled, answers>>

\* The predicate was false; the thread holds the mutex and is about to sleep.
Doze(w) ==
    /\ MutexFree
    /\ ~stopped
    /\ tasks = << >>
    /\ Goto(w, "top", "blocking")
    /\ mutex' = w
    /\ UNCHANGED <<ctor, stopped, queue, frames, joining, cancelled, answers>>

Block(w) ==
    /\ Goto(w, "blocking", "waiting")
    /\ mutex' = NoThread
    /\ UNCHANGED <<ctor, stopped, queue, frames, joining, cancelled, answers>>

SpuriousWake(w) ==
    /\ Goto(w, "waiting", "top")
    /\ UNCHANGED <<ctor, stopped, mutex, queue, frames, joining, cancelled, answers>>

-----------------------------------------------------------------------------
(* run(), for a task of a worker or for a synchronous call.                *)

\* Up to once()'s first look at the flag: invalid options and a task with a
\* bad method end here too, whether or not the request is cancelled.
RunEndsEarly(t) ==
    LET r == call[t] IN
    /\ Goto(t, "run", "erase")
    /\ \E answer \in {"invalid_argument", "failure", "cancelled"} :
          /\ answer = "cancelled" => r \in cancelled
          /\ r \in BadUploads => answer = "invalid_argument"
          /\ result' = [result EXCEPT ![r] = answer]
    /\ UNCHANGED <<ctor, stopped, mutex, queue, frames, joining, cancelled, completions>>

RunGoesOut(t) ==
    /\ call[t] \notin cancelled \cup BadUploads
    /\ Goto(t, "run", "network")
    /\ UNCHANGED <<ctor, stopped, mutex, queue, frames, joining, cancelled, answers>>

\* The last look at the flag decides; a redirect may still fail after it.
RunComesBack(t) ==
    LET r == call[t] IN
    /\ Goto(t, "network", "erase")
    /\ \E answer \in {"failure", IF r \in cancelled THEN "cancelled" ELSE "response"} :
          result' = [result EXCEPT ![r] = answer]
    /\ UNCHANGED <<ctor, stopped, mutex, queue, frames, joining, cancelled, completions>>

\* An exception leaves the request registered.  worker_loop swallows it, so
\* the handler is never called; a synchronous caller receives it.
RunThrows(t) ==
    /\ RunMayThrow
    /\ pc[t] \in {"run", "network"}
    /\ call[t] \notin BadUploads
    /\ pc' = [pc EXCEPT ![t] = IF call[t] \in AsyncReqs THEN "top" ELSE "idle"]
    /\ call' = [call EXCEPT ![t] = NoReq]
    /\ UNCHANGED <<ctor, stopped, mutex, queue, handling, joining, cancelled, answers>>

\* std::erase under the mutex, then the answer: the handler is entered on the
\* worker, or the call returns.
Finish(t) ==
    LET r == call[t] IN
    /\ MutexFree
    /\ Goto(t, "erase", "idle")
    /\ requests' = Erased(r)
    /\ call' = [call EXCEPT ![t] = NoReq]
    /\ handling' = IF r \in AsyncReqs THEN [handling EXCEPT ![t] = r] ELSE handling
    /\ completions' = [completions EXCEPT ![r] = @ + 1]
    /\ UNCHANGED <<ctor, stopped, mutex, tasks, joining, cancelled, result>>

\* The handler returns or throws; the task, and with it the State, is destroyed.
HandlerReturns(w) ==
    /\ Goto(w, "idle", "top")
    /\ handling' = [handling EXCEPT ![w] = NoReq]
    /\ UNCHANGED <<ctor, stopped, mutex, queue, call, joining, cancelled, answers>>

-----------------------------------------------------------------------------
(* Client::stop().  A second call finds the flag set and returns at once.  *)

StopCall(t) ==
    /\ MayCall(t)
    /\ FirstStop
    /\ stopped' = TRUE
    /\ pc' = [pc EXCEPT ![t] = "sweep"]
    /\ UNCHANGED <<ctor, mutex, queue, frames, joining, cancelled, answers>>

StopSweeps(t) ==
    /\ MutexFree
    /\ Goto(t, "sweep", "notify")
    /\ cancelled' = cancelled \cup SweepTargets
    /\ joining' = [joining EXCEPT ![t] = workers]
    /\ workers' = {}
    /\ UNCHANGED <<phase, owned, stopped, mutex, queue, frames, answers>>

StopNotifies(t) ==
    /\ pc[t] = "notify"
    /\ pc' = [s \in Threads |-> IF s = t THEN "join"
                                ELSE IF s \in Woken THEN "top" ELSE pc[s]]
    /\ UNCHANGED <<ctor, stopped, mutex, queue, frames, joining, cancelled, answers>>

\* The loop over the vector is over when every other thread has exited; the
\* calling worker, if it is one, detaches itself instead.
StopJoins(t) ==
    /\ \A w \in Joinable(t) : pc[w] = "exited"
    /\ Goto(t, "join", "idle")
    /\ joining' = [joining EXCEPT ![t] = {}]
    /\ UNCHANGED <<ctor, stopped, mutex, queue, frames, cancelled, answers>>

\* ~Client() and the move assignment, after their stop(): the Impl now belongs to
\* the threads that are inside it, each of which has a shared_ptr of its own.
Release(t) ==
    /\ MayCall(t)
    /\ stopped
    /\ owned' = FALSE
    /\ UNCHANGED <<phase, workers, stopped, mutex, queue, pc, frames, joining, cancelled, answers>>

-----------------------------------------------------------------------------
(* The specification.                                                      *)

Construct ==
    \/ \E w \in Workers : Spawn(w)
    \/ SpawnFails
    \/ FailedStartNotifies
    \/ FailedStartJoins

Submit(t) ==
    \/ \E r \in AsyncReqs : AcceptAsync(t, r) \/ RejectAsync(t, r) \/ Cancel(t, r)
    \/ \E r \in SyncReqs : BeginSync(t, r) \/ RejectSync(t, r) \/ RejectMethod(t, r)

Run(t) ==
    RunEndsEarly(t) \/ RunGoesOut(t) \/ RunComesBack(t) \/ RunThrows(t) \/ Finish(t)

Stop(t) == StopSweeps(t) \/ StopNotifies(t) \/ StopJoins(t)

Loop(w) == Take(w) \/ Exit(w) \/ Doze(w) \/ Block(w)

Next ==
    \/ Construct
    \/ \E t \in Threads : Submit(t) \/ Run(t) \/ StopCall(t) \/ Stop(t) \/ Release(t)
    \/ \E w \in Workers : Loop(w) \/ SpuriousWake(w) \/ HandlerReturns(w)

Spec == Init /\ [][Next]_vars

\* run() up to the network, and from its return on.
RunInside(t) == RunEndsEarly(t) \/ RunGoesOut(t) \/ Finish(t)

\* Threads run, and handlers return.  Nothing makes a caller call, a thread wake
\* spuriously, a server answer, or a request come back from the network.
SilentFairness ==
    /\ WF_vars(Construct)
    /\ \A w \in Workers : WF_vars(Loop(w)) /\ WF_vars(HandlerReturns(w))
    /\ \A t \in Threads : WF_vars(RunInside(t)) /\ WF_vars(Stop(t))

SilentSpec == Spec /\ SilentFairness

\* What the client needs of cancel(), and the platform need not give: a cancelled
\* request comes back from the network.  Module Attempt says when it does
\* (CancelEndsExchange) and that it need not (RunEnds is violated).
CancelledEnd == \A t \in Threads : WF_vars(call[t] \in cancelled /\ RunComesBack(t))

\* Every attempt also ends by itself, by an answer, an error or a timeout; and a
\* thread that finds the mutex free again and again gets it in the end, however
\* often idle workers wake spuriously and take it for a moment.
AttemptsEnd == \A t \in Threads : WF_vars(RunComesBack(t)) /\ SF_vars(Finish(t))

-----------------------------------------------------------------------------
(* Safety.                                                                 *)

\* A queued task is never left to sleeping workers: while one waits in the
\* queue of a client whose constructor has returned, some worker will come by
\* the queue again.  This is what notify_one() under the submission lock, and
\* re-testing the queue before every wait, are for.
QueuedTaskHasAwakeWorker ==
    tasks # << >> =>
        \E w \in Workers : pc[w] \notin {"unborn", "blocking", "waiting", "exited"}

\* stop() misses nobody: once it has made its pass every registered request is
\* cancelled, whatever submissions raced with it, and none can appear later.
SweepMissesNobody == Swept => requests \subseteq cancelled

\* A registered request is never forgotten, except by an exception: it is queued, or
\* a thread is in its call and will erase and answer it.
RequestsHeld ==
    ~RunMayThrow =>
        \A r \in requests : r \in Queued \/ \E t \in Threads : call[t] = r /\ pc[t] \in InCall

\* A worker only exits when nothing is queued and nothing ever will be, so no
\* accepted request is left behind in the queue.
ExitLeavesNothingQueued ==
    (\E w \in Workers : pc[w] = "exited") => stopped /\ tasks = << >>

\* When stop() starts to join, no worker sleeps or is about to: the mutex taken
\* between setting `stopped` and notify_all() closes the window in which a
\* worker has seen the old flag and is not yet waiting.
JoinFindsNobodyAsleep ==
    (\E t \in Threads : pc[t] = "join") =>
        \A w \in Workers : pc[w] \notin {"blocking", "waiting"}

\* The stop() that found the flag clear returns only when every worker has exited but
\* the one, if any, whose completion handler called it.  (A second stop() returns at
\* once and promises nothing of the kind.)
StopLeavesOnlyItsCaller ==
    [][\A t \in Threads :
          pc[t] = "join" /\ pc'[t] # "join" =>
              \A w \in Workers \ {t} : pc[w] = "exited"]_vars

\* After stop()'s pass no request reaches the network any more: those queued,
\* or called and not yet under way, see their flag first.
NothingGoesOutAfterSweep ==
    [][\A t \in Threads :
          pc[t] # "network" /\ pc'[t] = "network" => ~Swept]_vars

\* The client keeps its contract, as far as safety goes: every request accepted
\* or turned away for the right reason, answered at most once, and registered
\* exactly until it is answered.
KeepsContract == Contract!SafeSpec

\* A request is run at most once, by one thread, and run() keeps its contract
\* there; its answer, once known, stays the same until its caller gets it.
KeepsRunContract ==
    /\ \A r \in Reqs : RunOf(r)!Init
    /\ [][\A r \in Reqs : [RunOf(r)!Next]_(RunOf(r)!vars)]_vars

-----------------------------------------------------------------------------
(* What the safety properties rest on.                                     *)

\* A worker keeps the mutex between two steps only to fall asleep.
MutexHeldToSleep == \A w \in Workers : pc[w] = "blocking" => mutex = w

AllBorn == phase = "running" => Unborn = {}

StopIsSet == (Swept \/ \E t \in Threads : pc[t] \in InStop) => stopped

\* StopSweeps waited for the mutex, and nobody dozes off once `stopped` is set.
SweepOutlastsDozing ==
    (\E t \in Threads : pc[t] = "notify") => \A w \in Workers : pc[w] # "blocking"

\* A request is queued once, and then called once, while it is registered.
QueuedOnce == \A i, j \in DOMAIN tasks : tasks[i] = tasks[j] => i = j

TasksRegistered == Queued \subseteq requests

CallsRegistered ==
    \A t \in Threads : pc[t] \in InCall =>
        /\ call[t] \in requests \ Queued
        /\ \A s \in Threads : pc[s] \in InCall /\ call[s] = call[t] => s = t

PendingUnanswered == \A r \in requests : completions[r] = 0

AnswerReady == \A t \in Threads : pc[t] = "erase" => result[call[t]] \in Contract!Served

\* Every worker is asleep, awake or gone for a reason ...
ThreadsInv ==
    /\ MutexHeldToSleep
    /\ AllBorn
    /\ StopIsSet
    /\ SweepOutlastsDozing
    /\ QueuedTaskHasAwakeWorker
    /\ ExitLeavesNothingQueued
    /\ JoinFindsNobodyAsleep

\* ... and every request in the registry is in at most one place, not answered
\* yet, and cancelled if stop() has made its pass.
RegistryInv ==
    /\ QueuedOnce
    /\ TasksRegistered
    /\ CallsRegistered
    /\ PendingUnanswered
    /\ AnswerReady
    /\ SweepMissesNobody

\* start() lists every thread it makes, and stop() takes over the whole list.
BornAreListed == phase = "starting" => workers = Workers \ Unborn

SweepTakesAll ==
    phase = "running" /\ (~stopped \/ \E t \in Threads : pc[t] = "sweep") => workers = Workers

JoinsAll == \A t \in Threads : pc[t] \in {"notify", "join"} => joining[t] = Workers

\* Only one call of stop() ever gets past the flag, and of a client that has started.
OneStop == \A s, t \in Threads : pc[s] \in InStop /\ pc[t] \in InStop => s = t

StopWhileRunning == (\E t \in Threads : pc[t] \in InStop) => phase = "running"

\* The one stop() there is has all the workers to join ...
StopInv ==
    /\ BornAreListed
    /\ SweepTakesAll
    /\ JoinsAll
    /\ OneStop
    /\ StopWhileRunning

\* ... and a thread has a request only while it is in its call, which is the only
\* place a registered request gets its answer.
CalledInCall == \A t \in Threads : call[t] # NoReq => pc[t] \in InCall

Running(r) == \E t \in Threads : call[t] = r /\ pc[t] \in {"run", "network"}

UnrunUnanswered ==
    \A r \in Reqs : Fresh(r) \/ r \in Queued \/ Running(r) => result[r] = "none"

RunsInv == CalledInCall /\ UnrunUnanswered

\* The inductive invariant: the pool's bookkeeping in every reachable state, with
\* std::thread failing and run() throwing, or not.
PoolInv == ThreadsInv /\ RegistryInv /\ StopInv /\ RunsInv /\ RequestsHeld

-----------------------------------------------------------------------------
(* Liveness.                                                               *)

\* If cancelled requests come back, stop() returns although no server ever answers,
\* from a caller's thread as well as from a handler, whose own thread it must not
\* wait for.
StopReturns ==
    CancelledEnd => \A t \in Threads : pc[t] \in InStop ~> pc[t] = "idle"

\* The client keeps its contract, and if cancelled requests come back, it answers
\* every request it had accepted when it was stopped.
FulfilsContract ==
    /\ Contract!SafeSpec
    /\ CancelledEnd => Contract!Answering

\* If attempts end by themselves, so does every accepted request, with nobody
\* calling stop(): exactly one completion for each.
AcceptedIsAnswered ==
    AttemptsEnd => \A r \in Reqs : r \in requests ~> completions[r] = 1

\* The Impl of a client that is gone is freed although nobody waits for it: no task
\* is left behind that would keep it, and itself, alive, and if cancelled requests
\* come back every thread inside finds its way out.
Freed ==
    /\ tasks = << >>
    /\ \A w \in Workers : pc[w] = "exited"
    /\ \A t \in Threads : pc[t] \notin InCall \cup InStop

ImplIsFreed == CancelledEnd => (~owned ~> Freed)

\* A constructor that could not start all its threads ends the ones it started
\* and reports the failure.
FailedStartEnds == phase = "failNotify" ~> phase = "failed"
=============================================================================

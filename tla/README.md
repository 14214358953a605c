# SteadyHttp in TLA+

TLA+ models of SteadyHttp, a C++20 HTTP client with a worker pool, and of the three
programs of `TestModule/` that exercise it; TLC configurations that check them; and
proofs, checked by TLAPS, of every safety property, action property and safety
refinement that the passing configurations check. Paths below are relative to the
repository (`src/client.cpp` is its `src/src/client.cpp` in `PROJECT.json`).

## 1. The system and its parts

| Part | Where | State | Operations | Model |
|---|---|---|---|---|
| Worker pool, `Client::Impl` | `src/client.cpp` 416-461, 463-610 | `stopped` (atomic), `mutex`, `wake`, `requests`, `tasks`, `workers` | `start`, `worker_loop`, `download`, `upload`, `async_download`, `async_upload`, `stop` | `ClientPool`, abstractly `ClientContract`, `RunContract` |
| One attempt, `once` and `exchange`, and `RequestHandle` | 35-48, 109-274 | `State`: `cancelled`, `mutex`, `cancel_active`; locals `resolver`, `stream`, `ec` | resolve, connect, handshake, write, read; `cancel`, `valid` | `Attempt` |
| Retries, redirects, total deadline, `run` | 276-413 | `visited`, `redirects`, `attempt`, `deadline`, `headers`, `url` | `run` | `RetryRun`, abstractly `RunContract` |
| `HttpTempFileServer` | `TestModule/HttpTempFileServer/server.py` | files of one directory; a thread per request | `do_GET`, `_upload`, `main` | `TempFileServer` |
| `SteadyHttpTester` | `TestModule/SteadyHttpTester/src/main.cpp` | `client`, one promise and handle per asynchronous transfer | `main` | `AcceptanceTester` on top of `ClientPool` |
| Ownership of a `Client` | `src/client.cpp` 463-474 | `impl_` | move, move assignment, destructor | `ClientPool` (`owned`, `Release`) |
| Delay and deadline arithmetic | 93-97, 281-292, 310, 347-366 | none | `remaining`, `retry_after` | `Durations`, used by `RetryRun`; without `remaining` and the backoff's formula |
| URL parsing | `src/url.cpp` | none | `parse_url` | `ParseUrl`, used by `RetryRun` |
| `SteadyGet` | `TestModule/SteadyGet/src/main.cpp` | output file and its `.part` | `main` | `SteadyGet` on top of `TempFileServer` |
| Error names, `Response::header`, value types | `src/error.cpp`, `include/` | none | lookups | not modelled (pure lookups) |

How they interact. A program thread calls a `Client`. A synchronous call registers a
`RequestHandle::State` in `requests`, executes `run()` on the caller's thread and
unregisters it. An asynchronous call registers the State, queues a task and wakes one
worker; the worker executes `run()`, unregisters the State and calls the completion
handler, which may call the client again. `run()` calls `once()` per attempt, which
stores in the State a function that aborts what it is waiting for. `cancel()` (from a
handle, or from `stop()` for every registered State) sets the flag and calls that
function. Locks are taken in one order only: `Impl::mutex` before `State::mutex`, by
`stop()`.

What is hard. `stopped` is written without the mutex; the predicate wait; a registry, a
queue and the frames of threads that must agree about a request; `stop()` from a handler,
whose thread is among those it joins; `cancel()` against each of once()'s replacements of
`cancel_active`; a socket that `connect()` reopens; synchronous operations that wait for
a silent peer; credentials across redirects that leave and return; retries of what may
have been processed. In the server: uploads, downloads and the end of the process around
one name. In `steady-get`: a file written in two stages, the second in a destructor. In
the tester: a promise on a stack that an exception may unwind. In the arithmetic: three
units of time in 64 bits.
`PROJECT.json` lists these hazards with their lines and the properties that cover them.

What correctness means, part by part:

- Pool: an accepted request is completed exactly once; nothing is accepted after
  `stop()`, and nothing refused as stopped before it; `stop()` reaches every registered
  request, loses no wakeup, returns, and leaves no worker but its caller behind; an `Impl`
  that no client owns any more is left by everybody inside. Returning and leaving depend
  on cancelled requests coming back, which is the attempt's part.
- Attempt: after a `cancel()` returned, nothing is sent and the request ends;
  `cancel_active` refers to live objects; every attempt ends.
- `run()`: bounded, within the deadline, non-idempotent requests once, credentials only
  to their host, and errors that say what happened.
- Server: a name leads to whole files; no temporary file outlives its answered upload.
- `steady-get`: the output holds all of what one process received, and that comes from
  one upload.
- Tester: a verdict always, PASS only when it is earned, no handler without its promise.

## 2. Modules

Each instance module `MC*` extends its specification, names the model values and gives
the sets the `.cfg` files refer to.

**`ClientContract`** says what a client promises, without threads or locks: `Accept`,
`Refuse`, `Complete`, `Close`. "client_stopped" is a reason only once the client is
closed, and a closed client completes what is pending (weak fairness of `Complete`).

**`RunContract`** says what `run()` promises about one request and its flag: it goes out
only if the flag was not set before, answers "cancelled" only if it was, and answers no
response if it was set by the last look. Three modules implement it, each with a mapping
of its own: `RetryRun` (the loops of `run()`), `Attempt` (the inside of `once()` under a
shortened `run()`) and, for each request (`RunOf(r)`), `ClientPool`, whose abstract
`run()` is thereby held to what the detailed ones do.

**`ClientPool`** has one variable per field of `Impl` (`requests`, `tasks`, `workers`,
`stopped`, `mutex`), the program counters of the workers and callers, and per thread the
request it is executing (`call`), the handler it is in (`handling`) and `stop()`'s local
vector (`joining`). A critical section is one step guarded by `MutexFree`. The exception
is the worker's wait, which is three: `Doze` evaluates the predicate and keeps the mutex,
`Block` goes to sleep and gives the mutex up, and a notification or `SpuriousWake` sends
the worker back to the top. That is where `stop()` and the failing `start()` may write
`stopped` without the mutex. Workers in a completion handler are "idle" like callers and
may do all a caller may, `stop()` included. `run()` is the three states before its last
look at the flag, on the network, and before the erase. Two switches enable faults:
`RunMayThrow` (for example `std::random_device`, line 311) and `SpawnMayFail`
(`std::thread`'s constructor). `owned` says that a `Client` holds the `Impl`; `Release`
is the destructor, or the move assignment that puts another `Impl` in its place, after
their `stop()`. From then on nobody calls in, while the threads inside still have
shared pointers, and handles may still be cancelled.

**`Attempt`** is one thread in `once()`/`exchange()`, attempt after attempt, against any
number of threads in `cancel()`. Each critical section under `State::mutex` is a step;
destroying the stream, destroying the resolver and `~ClearActive` are three steps in that
order, the reverse of their declarations. A socket is open, closed, or "cut": closed by a
`cancel()` while an operation was under way on it. The next operation fails on a closed
socket at once; whether one under way notices the cut is the platform's (`CloseEnds`, of
which section 4 says what is assumed). `connect()` opens the socket whether or not a
`cancel()` closed it before, and again for every endpoint. The constant `ExpiryFires` says whether
`expires_after()` ends a synchronous operation. It does not in this code, because the
`io_context` whose timer it arms is only run during `async_resolve`; setting it to TRUE
adds the outcome that it did.

**`RetryRun`** is the two nested loops of `run()` with a clock that ticks at any moment,
a flag that may be set at any moment, and responses and failures chosen from what
`once()` can return. An attempt is two stays: "connecting", which begins with once()'s only
look at the deadline (`OnceBegins`), and "network", which begins when the request is
written (`OnceGoesOut`), at whatever time that is. Delays are chosen from what the backoff with jitter can give, or are
a server's Retry-After. The clock counts milliseconds, and what `run()` computes from it,
it computes in the integers of **`Durations`**: milliseconds become nanoseconds, and a
sum that leaves the range wraps around. A location is a record of the parts Boost.URL
yields, and **`ParseUrl`** says whether `parse_url()` takes it and which Host field a
request to it carries. The
history variables `tries`, `shownTo`, `late` and `asked` remember the attempts, to whom
credentials were shown, how many requests were written at or after the deadline, and when
a server wants the next. Credentials stand for the three headers line 406 erases.

**`TempFileServer`** has uploads (create, receive, close, replace, unlink, reply), and
downloads that look the name up three times (`is_file`, `stat`, `open`), any of which may
fail on the way, and `Restart`, which kills the daemon threads where they are and leaves
the directory. An opened file keeps its content after the name is led elsewhere.

**`SteadyGet`** extends `TempFileServer`: each download of the server belongs to one
process of `steady-get`, which takes from the connection what was announced, or the 404
page, and saves it; attempts that `run()` repeated before that leave nothing. `FILE.part` and `FILE` are directory entries (`part`, `output`) with
their content and who wrote it. The stream of a small body writes nothing before its
destructor (`WriteBody` goes to "buffered"), whose failure (`CloseFails`) is remembered in
`lost`. Processes may be killed anywhere, and may all download at once; one writes at a
time.

**`AcceptanceTester`** extends `ClientPool`: each call of `main()` into the client is the
pool's own action for the tester's thread, conjoined with the tester's step. `mode` is
"tls" with `--expect-tls-failure`, when one download has to fail with one of two codes
(`TlsCodes`), and "transfers" without. Of a failure the pool only says that it is one;
`main()` finds its code when it looks (`CodesOf`).

Seven modules hold proofs and extend what they are about: **`ClientPoolProofs`**,
**`AttemptProofs`**, **`DurationsProofs`**, **`RetryRunProofs`**, **`TempFileServerProofs`**, **`SteadyGetProofs`** (which also extends
`TempFileServerProofs`, as `SteadyGet` extends the server) and
**`AcceptanceTesterProofs`** (which also extends `ClientPoolProofs`). The inductive
invariants they rest on stand at the end of the specifications, under "What the
properties rest on", where a reader of the model finds them: `PoolInv`, `AttemptInv`,
`RunInv`, `TimedInv`, `ServerInv`, `GetInv`, `TesterInv`.

Next to some helpers stands a slip of the same shape: `NotifyNobody` before `NotifyOne`,
`AcceptAlways` before `Accepting`, `NeverExpired` before `Expired`. No specification uses
them. `PROJECT.json` ("mutants") names, for every property, the one that breaks it when it
takes its neighbour's place.

## 3. Runs

`CHECK_DEADLOCK FALSE` is in every configuration: the program stops for good when all
calls are made, the client is stopped or `run()` has returned.

| Run | Properties | Shows |
|---|---|---|
| `pool_safety` | `TypeOK`, `QueuedTaskHasAwakeWorker`, `SweepMissesNobody`, `ExitLeavesNothingQueued`, `JoinFindsNobodyAsleep`, `PoolInv`, `StopLeavesOnlyItsCaller`, `NothingGoesOutAfterSweep`, `KeepsContract`, `KeepsRunContract` | two workers and two callers lose no wakeup, `stop()` misses no request and returns to no worker but the one that called it, nothing goes out after its pass, each request is run once, the inductive invariant and the safety of both contracts hold, also with `run()` throwing, threads failing to start and bad upload methods |
| `pool_contract` | `RequestsHeld`, `StopReturns`, `FulfilsContract`, `ImplIsFreed`, `AcceptedIsAnswered` | with no exception, a registered request is always queued or in a thread's hands (`RequestsHeld`); with no server answering, and provided that cancelled requests come back (`CancelledEnd`), `stop()` returns from a caller and from a handler, the pool implements `ClientContract` with its liveness (a stopped client completes what it accepted), and a released `Impl` is left by all its threads; if attempts end by themselves, every accepted request is answered |
| `attempt_safety` | `TypeOK`, `ExchangeIsCutOff`, `DanglesOnlyWhileUnwinding`, `NothingSentAfterCancel`, `CancelEndsExchange`, `KeepsRunContract` | two cancelling threads against three attempts, http and https: nothing is sent after a `cancel()`; with a silent peer and no expiry, an exchange ends whose socket was closed between two operations, and where `close()` wakes what is blocked, every http request ends and https ones from the handshake's end on |
| `run_retries` | `TypeOK`, `UploadsAreNotRepeated`, `CredentialsStayHome`, `SendsAreBounded`, `RetryableMeansExhausted`, `AtMostOneGoesOutLate`, `RetryAfterRespected`, `KeepsRunContract` | what `run()` sends where, how often and when, with durations in range |
| `server_files` | `TypeOK`, `FileIsWhole`, `NoTemporaryLeft`, `DownloadSendsOneFile`, `GetTypeOK`, `OutputIsWhole`, `OutputComesFromUpload` | two uploads to one name and two processes that download it to one output, failing or killed anywhere |
| `tester_verdict` | `TesterTypeOK`, `PassIsEarned`, `HandlerFindsPromise`, `TesterEnds` | the acceptance test on top of the pool, in both modes |

`PoolInv` is checked here because it says most about the pool. The other inductive
invariants are conjunctions of the properties above and of what they need; each holds in
the run of its module, and is in no configuration because the theorems of section 5 say
it of every instance. They are what to give TLC first when a specification changes.

Runs in which TLC finds what the code or its documents deny:

| Run | Property | What happens |
|---|---|---|
| `pool_throws` | `AcceptedIsAnswered` | `run()` throws, `worker_loop` swallows the exception, and the handler is never called (`client.hpp:10` promises exactly one completion) |
| `pool_failed_start` | `FailedStartEnds` | a later `std::thread` fails; the catch block's unlocked write and notification fall between an earlier worker's test and its sleep, and the join hangs |
| `attempt_dangling` | `CancelCallsTheLiving` | a `cancel()` while `once()` returns calls into the destroyed stream or resolver |
| `attempt_silent_peer` | `RunEnds` | no timer ends a synchronous operation, against the README's per-stage and total deadlines; and a `cancel()` after line 196 and before `connect()` closes nothing or a socket that `connect()` opens again (line 247), while https looks at the flag only after the handshake: with a silent peer the call never returns, nor does the `stop()` that joins it, although every canceller calls and `close()` wakes what is blocked |
| `run_retry_after` | `RetryAfterRespected` | a Retry-After too long for milliseconds is saturated (line 290), overflows as nanoseconds (line 360) to -1 ms, passes the check against the deadline and repeats the request at once, where line 362 was to give up |
| `server_partial` | `NeverPartialContent` | `stat` and `open` see different files: a shorter length is announced than the file has |

`run_retry_after` has integers of four bits, two nanoseconds to the millisecond and two
milliseconds to the second; the product of the longest duration and an even factor wraps
to minus that factor in any width. `run_retries` has the same arithmetic in seven bits,
where its durations fit: the property holds of every Retry-After that fits, and fails of
those that do not.

`OutputIsWhole` makes an exception for the last write, in the stream's destructor
(`lost`): its failure goes unnoticed and `steady-get` reports success. Nothing in the
repository says otherwise, so it is no finding.

Three more races are in the models and are no run of their own, because no document
speaks against them at its word. `RetryRun` has a request written after the total
deadline: `once()` looks at the clock before it connects (line 165) and never again, and
`AtMostOneGoesOutLate` says how far that goes. It shows also that an error's `request_may_have_been_processed`
describes the last attempt only (`Noted`): a retried 503 followed by a failed connection
reports false. `AcceptanceTester` shows that `handle.valid()` is false when the worker
has already finished the request (`CheckHandle`), so that the test may fail although
the transfer succeeded.

### Bounds, and why they are enough

- Pool: two workers, so that one may sleep while another serves, one may be joined while
  another calls `stop()`, and a second `std::thread` may fail; two callers, so that two
  submissions, a submission and a `stop()`, or a `stop()` and a release race; two
  asynchronous requests (a queue of two, one queued while one is served, and one on the
  network while the handler of the other stops the client). `pool_safety` has two
  synchronous requests besides. The liveness run has none, for its size: they end in the
  same steps (`Run`) and wait for nothing else, and `tester_verdict` waits for two of
  them. Each request stands for one call.
- Attempt: two cancelling threads (a handle and `stop()`), three attempts (`MaxRounds`):
  enough for a `cancel()` in one attempt to take effect in a later one.
- `run()`: three locations on two hosts, so that a redirect leaves and returns, and three
  that `parse_url()` refuses, for what is no URL, for the scheme and for the port; at most two attempts and two redirects per request; four
  ticks to the deadline (`Total`), longer than the longest wait, so that waits end before,
  at and after it. Every option is changed once from the defaults (`AllOptions`). The
  clock stops at `Total` because `run()` compares times with nothing later.
- Server and `steady-get`: bodies of one and two chunks, so that an announcement may be
  shorter or longer than the file and a `FILE.part` left behind longer than the body
  written over it; two processes, interchangeable.
- Tester: the four transfers of `main()` in order (`FourTransfers`), or its one download.

What section 5 proves rests on none of these bounds, here or in the items above: they
matter to the temporal properties and to the runs that find a violation.

Symmetry is used in `pool_safety` (workers, callers) and `server_files` (downloads),
never with liveness.

## 4. Fairness

- `SilentFairness` (pool): threads run (weak fairness of `Construct`, `Loop`, `Stop` and
  of the steps of `run()` that wait for nothing outside) and handlers return. No fairness
  for calls, for spurious wakeups or for servers.
- `CancelledEnd` is the premise of `StopReturns`, `ImplIsFreed` and the liveness of
  `FulfilsContract`: a cancelled request comes back from the network. The code does not
  give it by itself, so it is written into these properties and not into the
  specification: what they show is that the pool adds no wait of its own. `Attempt` says
  when the premise holds.
- `Fairness` (attempt): the thread runs, the name service answers or is aborted in the
  end, a TCP connect ends by the kernel's own limit (`pc = "connecting" /\ PeerEnds`), and
  an operation begun on a closed socket fails. None for the peer otherwise, none for an
  expiry, and none for an operation under way whose socket is closed: the code calls
  `close()` without `shutdown()` from another thread, which on Linux does not wake a
  blocked `recv`. A cancelled read of a silent peer need not end then, and `stop()` with it.
- `CloseWakes` is the premise that it does wake it. `CancelEndsExchange` says what holds
  without it and what with it. With it an https request cancelled before its `connect()`
  still waits in the handshake for a silent peer (`attempt_silent_peer`, whose
  `HelpedSpec` grants the premise, the expiries and the calls of `cancel()`). So `CancelledEnd`, and with it the return of `stop()`,
  holds for http where `close()` wakes, and otherwise depends on peers that answer, close
  or reset.
- `AttemptsEnd`, the condition in `AcceptedIsAnswered`, adds that attempts end by
  themselves, and strong fairness of `Finish`: the erase needs the mutex, which idle
  workers may take again and again when they wake spuriously; a mutex that is free
  infinitely often is had in the end. The claim therefore depends on peers that do not
  stay silent (`attempt_silent_peer`).
- `TesterFairness`: the tester's threads run and its attempts end, as in `AttemptsEnd`,
  and strong fairness for `Main`, whose submissions need the same mutex.

## 5. Proofs

Every invariant, action property and safety refinement of the passing runs is a theorem
of its specification, for every value of the constants that the module's assumption
allows: any sets of threads, requests, uploads and URLs, finite or not, files of any
size, any set of options, integers of any width.

| Module | Theorem | States |
|---|---|---|
| `ClientPoolProofs` | `TypeCorrect`, `PoolInvariant` | `TypeOK`, `PoolInv` |
| | `QueuedTasksAreServed`, `StopMissesNobody`, `ExitedWorkersLeftNothing`, `StopLosesNoWakeup` | `QueuedTaskHasAwakeWorker`, `SweepMissesNobody`, `ExitLeavesNothingQueued`, `JoinFindsNobodyAsleep` |
| | `StopJoinsTheRest`, `NobodyIsForgotten` | `StopLeavesOnlyItsCaller`, `RequestsHeld` |
| | `NothingGoesOut`, `AnswersStay` | `NothingGoesOutAfterSweep`; the answer of a request that was completed or turned away never changes |
| | `PoolKeepsContract`, `RunsKeepContract` | the pool implements the safety of `ClientContract` (`KeepsContract`), and each request in it `RunContract` |
| `AttemptProofs` | `TypeCorrect`, `AttemptInvariant` | `TypeOK`, `AttemptInv` |
| | `CancelCutsExchange`, `DanglesBriefly`, `CancelStopsSending` | `ExchangeIsCutOff`, `DanglesOnlyWhileUnwinding`, `NothingSentAfterCancel` |
| | `AttemptKeepsContract` | `once()` under cancellation implements `RunContract` |
| `DurationsProofs` | `RetryAfterSaturates` | `retry_after()` gives the seconds in milliseconds, or the longest duration, and never wraps |
| `RetryRunProofs` | `TypeCorrect`, `RunInvariant`, `TimedInvariant` | `TypeOK`, `RunInv`, `TimedInv` |
| | `UploadsGoOutOnce`, `CredentialsAreKept`, `LoopsAreBounded` | `UploadsAreNotRepeated`, `CredentialsStayHome`, `SendsAreBounded` |
| | `DeadlineHolds` | `AtMostOneGoesOutLate` |
| | `BudgetsAreUsedUp`, `ServersGetTheirTime` | `RetryableMeansExhausted`, `RetryAfterRespected`, if `TimesFit` |
| | `RunKeepsContract` | `run()` implements `RunContract` |
| `TempFileServerProofs` | `TypeCorrect`, `ServerInvariant` | `TypeOK`, `ServerInv` |
| | `FilesAreWhole`, `TemporariesGo`, `DownloadsAreWhole` | `FileIsWhole`, `NoTemporaryLeft`, `DownloadSendsOneFile` |
| `SteadyGetProofs` | `ServerInside` | `GetSpec => Spec`: a behaviour of the processes is one of the server |
| | `GetTypeCorrect`, `GetInvariant` | `GetTypeOK`, `GetInv` |
| | `OutputsAreWhole`, `OutputsComeFromUploads` | `OutputIsWhole`, `OutputComesFromUpload` |
| `AcceptanceTesterProofs` | `ClientInside` | `TesterSpec => Spec`: a behaviour of the tester is one of the pool |
| | `TesterTypeCorrect`, `TesterInvariant` | `TesterTypeOK`, `TesterInv` |
| | `VerdictIsEarned`, `PromiseIsThere` | `PassIsEarned`, `HandlerFindsPromise` |

### Assumptions

`PoolAssumption`: kinds of threads and of requests are disjoint, there is at least one
worker, as `start()` sees to. `AttemptAssumption` and `DurationAssumption` say that
their numbers are positive. `RunAssumption`: the first location is one of the locations,
and backoffs are durations milliseconds can hold. `ServerAssumption`: sizes are natural
numbers. `TesterAssumption`: there is a plan, and the tester is the client's only caller.
TLC evaluates them in the runs.

`TimesFit` is a premise of three theorems of `RetryRunProofs` and no assumption of the
module: the total deadline and any one delay together do not overflow the clock. Without
it the three are false, which is the finding of `run_retry_after`. `run_retries` meets
it, with waits that end before, at and after the deadline. The rest of
`RetryRunProofs` does without it, `DeadlineHolds` (for which `SendsLate` is the part of
`RunInv`) too: the clock of the model stops at
the deadline, and there `run()` reads off it the value it computed for the deadline, both
wrapped around or neither (`ExpiredAtTotal`), so that the equality at the deadline is
what counts.

### The arguments

**Pool.** None of the invariants is inductive. `PoolInv` is, together with `TypeOK`.
`ThreadsInv` says why every worker is asleep, awake or gone: a worker holds the mutex
between two steps only to fall asleep (`MutexHeldToSleep`), `stopped` is set before
anybody sweeps (`StopIsSet`), and a `stop()` that has swept has outlasted every worker
about to sleep (`SweepOutlastsDozing`), so that its `notify_all` reaches all there are.
`RegistryInv` says where a registered request is: queued once (`QueuedOnce`,
`TasksRegistered`) or executed by one thread (`CallsRegistered`) and not answered yet
(`PendingUnanswered`); `AnswerReady` is what the refinement needs when the erase becomes
`Complete`. `StopInv` says that the one `stop()` that gets past the flag (`OneStop`)
takes over all of `workers` (`SweepTakesAll`, `JoinsAll`): the lists agree because
`start()` pushes every thread it makes (`BornAreListed`). So when the last join is done
every worker has exited, except the caller when it is one (`StopLeavesOnlyItsCaller`). `RunsInv` says that a thread has a request
only while it is in a call, and that nothing fresh, queued or running has a result yet
(`UnrunUnanswered`): a result is set once. Each part is a lemma of its own
(`StepThreadsInv`, `StepRegistryInv`, `StepStopInv`, `StepRunsInv`, `StepRequestsHeld`),
with a step per action; lemmas about `Append` and `Tail` on the queue (`TasksAppended`,
`TaskTaken`) and one for the many actions that leave the registry alone
(`RegistryUntouched`) keep them short. In the refinement of `ClientContract`, `requests`
maps to `pending` and `~stopped` to `open`; submissions, completions, refusals and
`StopCall` map to the contract's actions, everything else to a stutter
(`ContractUnmoved`). `Release` disturbs none of it: `owned` only guards calls.

**Attempt.** `AttemptInv` ties `cancel_active` to the objects it captured at each point
of `once()` (`ActiveFits`): that is `DanglesOnlyWhileUnwinding`. `CancelCloses` says that
from the last look at the flag on, a `cancel()` that has returned has closed the socket,
which nothing opens again: a `connect()` that reopens it lies before that look. It gives
`ExchangeIsCutOff` and, with the looks themselves, `NothingSentAfterCancel`. `FlagFirst`
(nobody answers "cancelled" before the flag is set) and `UnwoundWentOut` are for the
refinement. The inner points of `once()` map to one stage of `RunContract` each side of
handing the request over; a look at the flag that finds it set is `EndEarly` or part of
`ComeBack`.

**run().** `RunInv` needs nothing of the arithmetic. `CountersFit` and `VisitsCount`
count a visit for each redirect and never more than `max_redirects + 1`; `TriesCount`
holds the attempts at each location under the counter of the inner loop, and 0 for what
was not visited, so that coming back is refused with the budget spent; `TravelsLight`
says that an upload never leaves `Home` and that credentials still there mean the host
never changed. `ErrorOfOnce` says which errors `once()` can have left for the
refinement. `SendsLate` says that no attempt is past its look at the deadline that began
at it, and that a late request means the deadline has come: after one no other begins,
which is `AtMostOneGoesOutLate`. `TimedInv` adds the clock: `BudgetSpent` counts each attempt from its
beginning to its judgement and excepts only one that began at the deadline, and
`WaitsLongEnough` carries what the server asked for from the judgement over pause and
wait to the next attempt. `InClockFits` and `LaterFits` turn the wrapped sums of
`Durations` into sums of milliseconds where they fit, `QuotientDecides` the guard of
`retry_after()` into the product it avoids.

**Server.** A temporary file is in use until its upload is answered (`TemporariesInUse`),
only a whole body is renamed (`RenamesWhole`), and what a name or an open stream leads to
has landed (`FileLanded`, `StreamsLanded`), which no later step, a restart included,
takes back: so the content a download sends cannot change under it.

**steady-get.** `ServerInside` lets `GetInvariance` use the server's invariant in every
state. On top of it, what a process received before saving stays (`SavesWhatCame`), one
process is in the file (`OneWriter`), and `PartFits` follows the bytes of `FILE.part`
through opening, writing and closing: truncation is what makes the bytes of a killed
predecessor vanish. `OutputFits` keeps it after the rename.

**Tester.** `ClientInside` lets `TesterInvariance` use `PoolInv`. `AsyncPromised`: while
an asynchronous request is registered, `main()` is in the block that owns its promise.
`EarnedSoFar` and `ProbeFailed` record what was answered for each transfer behind it;
that an answer once read does not change again is the pool's `AnswersAreFinal`.

### Model-checked only

- Everything under fairness: `StopReturns`, `AcceptedIsAnswered`, `ImplIsFreed`,
  `CancelEndsExchange`, `TesterEnds`, and the liveness half of `FulfilsContract`
  (`KeepsContract` is its safety half). Liveness and ENABLED are out of the prover's
  reach.
- `StopReturns`, `ImplIsFreed` and the liveness of `FulfilsContract` under `CancelledEnd`,
  `CancelEndsExchange` in part under `CloseWakes` (section 4).
- The runs that find a violation, which are counterexamples.

## 6. Not modelled, and why

- Bytes: bodies, headers, TLS records, formatting and logging. Which headers count as
  credentials and which statuses are classes are kept.
- A Retry-After that is an HTTP date: `retry_after()` (line 287) takes digits only and the
  backoff stays, so `RetryAfterRespected` is about seconds.
- The platform: how long the name service, `connect` or the kernel take. A peer's answer,
  error or silence is a choice, and so is whether `close()` wakes a blocked operation.
- Copying of options and callbacks, and exceptions from registering a request (`push_back`
  without memory).
- Option combinations beyond one change from the defaults in `run_retries`.
- Completion handlers that never return or wait for another request of the same client:
  they can block every worker, and the API says nothing of them.
- Power loss and file systems that reorder a rename and its data: only the end of a
  process is modelled, for the server and for `steady-get`.
- Two `steady-get` processes that write one `FILE.part` at the same time: they mix their
  bytes, and nothing documents such use.
- `remaining()` and the formula of the backoff: the one arms timers that end nothing
  (`attempt_silent_peer`) and never refuses a stage, of the other `RetryRun` has the range of results. The range
  check of `--timeout-seconds`, and options near the end of the 64-bit range.
- A moved-from `Client`, which answers "client_stopped" without touching any `Impl`.
- Ports with leading zeros, user information and fragments of a URL.
- `src/error.cpp` and `Response::header`, lookups in tables; examples, build scripts and
  certificate generation, scripts without state.

## 7. Plan

Done, in this order: `ClientContract`, `ClientPool` with its proofs, `Attempt`,
`RetryRun`, `TempFileServer`, `AcceptanceTester`; then `SteadyGet`, `Durations` and
`ParseUrl` under `RetryRun`, `RunContract` with its three implementations, and ownership
in `ClientPool`. What is left of the code is listed above.

The proofs of section 5 followed in this order: pool, attempt, durations and `run()`,
server, `steady-get`, tester.

Next, in proofs:

1. What the runs do not check and the models allow to be said: whoever calls a second
   `stop()` may find workers still running.
2. `SteadyGet` without the exception for the last write: which bytes of `FILE` are there
   when `lost`.
3. `RunContract` as seen by `ClientContract`: that the outcomes the pool may report are
   those a `RunContract` answer gives.

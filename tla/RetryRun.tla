------------------------------ MODULE RetryRun ------------------------------
(***************************************************************************)
(* run() of src/client.cpp: one request, attempt after attempt and redirect*)
(* after redirect, under one total deadline, while somebody may cancel it  *)
(* and the clock advances at any moment.  An attempt, which module Attempt *)
(* opens up, is a stay in "connecting", where once() has made its checks   *)
(* and resolves, connects and shakes hands, and one in "network", where the*)
(* request is out; each ends in one of the ways once() can end there.  What*)
(* a response says besides its status (Location, Retry-After) is chosen    *)
(* when run() looks at it.                                                 *)
(*                                                                         *)
(* The clock counts milliseconds from the start of run() and stops at the  *)
(* deadline: run() compares times with the deadline and with the end of a  *)
(* wait, and no time at or past the deadline differs from any other.  What *)
(* run() computes from it, it computes in the integers of Durations.       *)
(***************************************************************************)
EXTENDS Durations, ParseUrl, FiniteSets

CONSTANTS Urls,      \* the locations a request can be led to
          Home,      \* the one the caller gave
          OptionSet, \* the method and options a caller may choose
          Total,     \* timeouts.total
          Backoffs,  \* delays the exponential backoff with jitter yields
          Wishes     \* values of Retry-After, in seconds

Methods == {"get", "put", "post"}
RetryClasses == {"408", "429", "5xx"}
Options == [method : Methods, maxAttempts : Nat, maxRedirects : Nat,
            retryNonIdempotent : BOOLEAN, retryTimeouts : BOOLEAN,
            retryConnection : BOOLEAN, retryStatus : SUBSET RetryClasses,
            follow : BOOLEAN, treatNon2xx : BOOLEAN]

ASSUME RunAssumption ==
    /\ Home \in Urls
    /\ Urls \subseteq Url(STRING, STRING)
    /\ OptionSet \subseteq Options
    /\ Total \in Nat \ {0}
    /\ Backoffs \subseteq 0..MaxCount
    /\ Wishes \subseteq Nat

VARIABLES pc,
          opt,         \* the method and the options
          url,         \* the current location
          credentials, \* Authorization, Cookie and the like are among the headers
          visited, redirects, attempt,
          result,      \* what once() gave last, then what run() returns
          now,         \* the clock
          delay,       \* the delay of the next wait ...
          until,       \* ... and its end
          cancelled,   \* State::cancelled
          tries,       \* attempts per location that passed once()'s checks
          shownTo,     \* Host fields of the requests that carried the credentials
          late,        \* requests written at or after the deadline
          asked        \* the earliest time a server allowed for the next attempt

target == <<url, credentials, visited, redirects>>
waiting == <<delay, until>>
history == <<tries, shownTo, late, asked>>
vars == <<pc, opt, target, attempt, result, now, waiting, cancelled, history>>

\* 302 stands for every redirect run() follows, 404 for every status it neither
\* follows nor retries.
Statuses == {200, 302, 404, 408, 429, 500, 503}

\* How once() refuses to begin, and how it fails before the request is written and
\* from the write on.  (A flag that once() itself sees on the way changes nothing:
\* it stays set, and run() looks at it before it looks at the result.)
Refused == {<<"timeout", "none">>, <<"invalid_url", "parse_url">>,
            <<"unsupported_scheme", "parse_url">>}
Early == {<<"resolve_failed", "resolve">>, <<"timeout", "resolve">>,
          <<"connect_failed", "connect">>, <<"timeout", "connect">>,
          <<"tls_configuration_failed", "tls_handshake">>,
          <<"tls_handshake_failed", "tls_handshake">>,
          <<"certificate_verification_failed", "tls_handshake">>,
          <<"invalid_argument", "write_request">>}
Late == {<<"write_failed", "write_request">>, <<"timeout", "write_request">>,
         <<"read_failed", "read_response">>, <<"timeout", "read_response">>,
         <<"response_too_large", "read_response">>,
         <<"tls_configuration_failed", "tls_handshake">>}
OwnFailures == {<<"internal_error", "none">>, <<"cancelled", "none">>,
                <<"cancelled", "retry_wait">>, <<"timeout", "retry_wait">>,
                <<"invalid_argument", "none">>, <<"too_many_redirects", "redirect">>,
                <<"redirect_missing_location", "redirect">>, <<"invalid_url", "redirect">>,
                <<"http_status_error", "read_response">>}

Failure(error) ==
    [status |-> 0, error |-> error, retryable |-> FALSE, processed |-> FALSE]
Response(status) ==
    [status |-> status, error |-> <<"none", "none">>, retryable |-> FALSE, processed |-> FALSE]
IsResponse(r) == r.status # 0

PC == {"validate", "visit", "once", "connecting", "network", "judge", "pause", "wait",
       "deliver", "done"}

TypeOK ==
    /\ pc \in PC
    /\ opt \in OptionSet
    /\ url \in Urls
    /\ credentials \in BOOLEAN
    /\ visited \in SUBSET Urls
    /\ redirects \in 0..(opt.maxRedirects + 1)
    /\ attempt \in 0..opt.maxAttempts
    /\ result \in [status : Statuses \cup {0},
                   error : Refused \cup Early \cup Late \cup OwnFailures \cup {<<"none", "none">>},
                   retryable : BOOLEAN, processed : BOOLEAN]
    /\ now \in 0..Total
    /\ delay \in 0..MaxCount
    /\ until \in Counts
    /\ cancelled \in BOOLEAN
    /\ tries \in [Urls -> Nat]
    /\ shownTo \in SUBSET {HostHeader(u) : u \in Urls}
    /\ late \in Nat
    /\ asked \in 0..Total

Init ==
    /\ pc = "validate"
    /\ opt \in OptionSet
    /\ url = Home
    /\ credentials = TRUE
    /\ visited = {}
    /\ redirects = 0
    /\ attempt = 0
    /\ result = Failure(<<"internal_error", "none">>)
    /\ now = 0
    /\ delay = 0
    /\ until = 0
    /\ cancelled = FALSE
    /\ tries = [u \in Urls |-> 0]
    /\ shownTo = {}
    /\ late = 0
    /\ asked = 0

-----------------------------------------------------------------------------
(* Helpers.                                                                *)

Goto(from, to) == pc = from /\ pc' = to

\* run() returns; the fields a failure() does not set are cleared.
Return(from, error) ==
    /\ Goto(from, "done")
    /\ result' = Failure(error)

AtMostTotal(t) == IF t > Total THEN Total ELSE t

\* What the code reads off the clock, and the deadline it computes at the start.
Time == InClock(now)
Deadline == Later(0, Total)

AnyMethod(method) == TRUE
Idempotent(method) == method \in {"get", "put"}
RetryMethod == Idempotent(opt.method) \/ opt.retryNonIdempotent

StatusRetryable(status) ==
    \/ status = 408 /\ "408" \in opt.retryStatus
    \/ status = 429 /\ "429" \in opt.retryStatus
    \/ status \in 500..599 /\ "5xx" \in opt.retryStatus

ErrorRetryable(error) ==
    /\ RetryMethod
    /\ \/ error[1] = "timeout" /\ opt.retryTimeouts
       \/ /\ error[1] \in {"resolve_failed", "connect_failed", "write_failed", "read_failed"}
          /\ opt.retryConnection

Retryable ==
    IF IsResponse(result) THEN StatusRetryable(result.status) ELSE ErrorRetryable(result.error)

\* run() looks at the flag, once() at the clock; the visited set and the attempt
\* budget bound the loops; the credentials follow a redirect to the same host.
\* Before each, the same with the test left out, or the wrong one.
NeverSeen == FALSE
Seen == cancelled
NeverExpired == FALSE
Expired == Time >= Deadline
NeverVisited == FALSE
Visited == url \in visited
SameBudget == IF attempt = 0 THEN 1 ELSE attempt
FreshBudget == 1
NoLimit == FALSE
LastAttempt == attempt = opt.maxAttempts
AlwaysKept(next) == credentials
KeptFor(next) == credentials /\ next.host = url.host
Follows == result.status = 302 /\ opt.method = "get" /\ opt.follow
StatusError == opt.treatNon2xx /\ result.status \notin 200..299

-----------------------------------------------------------------------------
(* Before the attempts.                                                    *)

\* max_attempts = 0 stands for all the options run() refuses.
Validate ==
    /\ \/ opt.maxAttempts = 0 /\ Return("validate", <<"invalid_argument", "none">>)
       \/ opt.maxAttempts # 0 /\ Goto("validate", "visit") /\ UNCHANGED result
    /\ UNCHANGED <<opt, target, attempt, now, waiting, cancelled, history>>

\* The head of the outer loop: a location is visited once, with a fresh budget.
Visit ==
    /\ \/ /\ Visited
          /\ Return("visit", <<"too_many_redirects", "redirect">>)
          /\ UNCHANGED <<visited, attempt>>
       \/ /\ ~Visited
          /\ Goto("visit", "once")
          /\ visited' = visited \cup {url}
          /\ attempt' = FreshBudget
          /\ result' = Failure(<<"internal_error", "none">>)
    /\ UNCHANGED <<opt, url, credentials, redirects, now, waiting, cancelled, history>>

-----------------------------------------------------------------------------
(* once().                                                                 *)

\* Flag, deadline and URL are looked at once, before anything goes out ...
OnceRefuses ==
    /\ Goto("once", "judge")
    /\ \/ cancelled /\ result' = Failure(<<"cancelled", "none">>)
       \/ ~cancelled /\ Expired /\ result' = Failure(<<"timeout", "none">>)
       \/ /\ ~cancelled
          /\ \E error \in UrlErrors(url) : result' = Failure(<<error, "parse_url">>)
    /\ UNCHANGED <<opt, target, attempt, now, waiting, cancelled, history>>

OnceBegins ==
    /\ ~cancelled
    /\ ~Expired
    /\ Accepted(url)
    /\ Goto("once", "connecting")
    /\ tries' = [tries EXCEPT ![url] = @ + 1]
    /\ UNCHANGED <<opt, target, attempt, result, now, waiting, cancelled, shownTo, late, asked>>

\* ... and when the connection stands the request is written whatever the time:
\* remaining() grants every stage another millisecond at least.
OnceGoesOut ==
    /\ Goto("connecting", "network")
    /\ shownTo' = IF credentials THEN shownTo \cup {HostHeader(url)} ELSE shownTo
    /\ late' = IF now = Total THEN late + 1 ELSE late
    /\ UNCHANGED <<opt, target, attempt, result, now, waiting, cancelled, tries, asked>>

OnceAnswers ==
    /\ Goto("network", "judge")
    /\ \E status \in Statuses : result' = Response(status)
    /\ UNCHANGED <<opt, target, attempt, now, waiting, cancelled, history>>

OnceFails ==
    /\ \/ Goto("connecting", "judge") /\ \E error \in Early : result' = Failure(error)
       \/ Goto("network", "judge") /\ \E error \in Late : result' = Failure(error)
    /\ UNCHANGED <<opt, target, attempt, now, waiting, cancelled, history>>

-----------------------------------------------------------------------------
(* After an attempt: cancelled, over, or another one after a wait.         *)

\* run()'s notes on an error; only a retry that is possible is written down.
Noted ==
    IF IsResponse(result) THEN result
    ELSE [result EXCEPT !.processed = result.error[2] = "read_response",
                        !.retryable = Retryable]

JudgeCancelled ==
    /\ Seen
    /\ Return("judge", <<"cancelled", "none">>)
    /\ UNCHANGED <<opt, target, attempt, now, waiting, cancelled, history>>

JudgeOver ==
    /\ ~Seen
    /\ ~Retryable \/ ~RetryMethod \/ LastAttempt
    /\ Goto("judge", "deliver")
    /\ result' = Noted
    /\ UNCHANGED <<opt, target, attempt, now, waiting, cancelled, history>>

\* Retry-After of a 429 or a 503 takes the place of the backoff.
IgnoresWish(wish, backoff) == backoff
DelayFor(wish, backoff) == RetryAfter(wish)

\* A wait that cannot end before the deadline is not begun.
WaitFor(d) ==
    /\ \/ Later(Time, d) >= Deadline /\ Return("judge", <<"timeout", "retry_wait">>)
       \/ Later(Time, d) < Deadline /\ Goto("judge", "pause") /\ result' = Noted
    /\ delay' = d
    /\ UNCHANGED <<opt, target, attempt, now, until, cancelled, tries, shownTo, late>>

JudgeRetry ==
    /\ ~Seen
    /\ Retryable /\ RetryMethod /\ ~LastAttempt
    /\ \E backoff \in Backoffs :
          \/ WaitFor(backoff) /\ UNCHANGED asked
          \/ /\ result.status \in {429, 503}
             /\ \E wish \in Wishes :
                   /\ WaitFor(DelayFor(wish, backoff))
                   /\ asked' = AtMostTotal(now + wish * MsPerSecond)

\* The wait counts from a later look at the clock than the check did.
StartWait ==
    /\ Goto("pause", "wait")
    /\ LET end == Later(Time, delay) IN until' = IF end > Deadline THEN Deadline ELSE end
    /\ UNCHANGED <<opt, target, attempt, result, now, delay, cancelled, history>>

WaitEnds ==
    /\ \/ Seen /\ Return("wait", <<"cancelled", "retry_wait">>) /\ UNCHANGED attempt
       \/ /\ ~Seen
          /\ Time >= until
          /\ Goto("wait", "once")
          /\ attempt' = attempt + 1
          /\ UNCHANGED result
    /\ UNCHANGED <<opt, target, now, waiting, cancelled, history>>

-----------------------------------------------------------------------------
(* The end of a location's attempts.                                       *)

Deliver ==
    /\ ~IsResponse(result) \/ ~Follows
    /\ Goto("deliver", "done")
    /\ result' = IF IsResponse(result) /\ StatusError
                 THEN [Failure(<<"http_status_error", "read_response">>) EXCEPT !.processed = TRUE]
                 ELSE result
    /\ UNCHANGED <<opt, target, attempt, now, waiting, cancelled, history>>

\* The count comes first, then Location, then the two URLs.
RedirectFails ==
    /\ IsResponse(result) /\ Follows
    /\ redirects' = redirects + 1
    /\ IF redirects' > opt.maxRedirects
       THEN Return("deliver", <<"too_many_redirects", "redirect">>)
       ELSE \/ Return("deliver", <<"redirect_missing_location", "redirect">>)
            \/ Return("deliver", <<"invalid_url", "redirect">>)
    /\ UNCHANGED <<opt, url, credentials, visited, attempt, now, waiting, cancelled, history>>

Redirect ==
    /\ IsResponse(result) /\ Follows
    /\ redirects' = redirects + 1
    /\ redirects' <= opt.maxRedirects
    /\ Goto("deliver", "visit")
    /\ \E next \in Urls :
          /\ url' = next
          /\ credentials' = KeptFor(next)
    /\ asked' = 0
    /\ UNCHANGED <<opt, visited, attempt, result, now, waiting, cancelled, tries, shownTo, late>>

-----------------------------------------------------------------------------
(* The environment, and the specification.                                 *)

Cancel ==
    /\ ~cancelled
    /\ cancelled' = TRUE
    /\ UNCHANGED <<pc, opt, target, attempt, result, now, waiting, history>>

Tick ==
    /\ now < Total
    /\ now' = now + 1
    /\ UNCHANGED <<pc, opt, target, attempt, result, waiting, cancelled, history>>

Once == OnceRefuses \/ OnceBegins \/ OnceGoesOut \/ OnceAnswers \/ OnceFails
Judge == JudgeCancelled \/ JudgeOver \/ JudgeRetry \/ StartWait \/ WaitEnds

Next ==
    \/ Validate \/ Visit \/ Once \/ Judge
    \/ Deliver \/ RedirectFails \/ Redirect
    \/ Cancel \/ Tick

Spec == Init /\ [][Next]_vars

-----------------------------------------------------------------------------
(* RunContract's view of run(): nothing goes out before an attempt has     *)
(* passed its checks, and the answer is known when "deliver" follows no    *)
(* redirect.                                                               *)

Back == pc = "done" \/ (pc = "deliver" /\ ~(IsResponse(result) /\ Follows))

AnswerOf ==
    IF IsResponse(result) THEN IF StatusError THEN "failure" ELSE "response"
    ELSE IF result.error[1] = "cancelled" THEN "cancelled"
    ELSE IF result.error = <<"invalid_argument", "none">> THEN "invalid_argument"
    ELSE "failure"

Contract == INSTANCE RunContract WITH
    stage <- IF Back THEN "back" ELSE IF \E u \in Urls : tries[u] > 0 THEN "network" ELSE "run",
    flag <- cancelled,
    answer <- IF Back THEN AnswerOf ELSE "none"

-----------------------------------------------------------------------------
(* Properties.                                                             *)

\* Through all loops run() keeps its contract: a request cancelled before its first
\* attempt sends nothing, and one cancelled by the last look at the flag never
\* gives a response.
KeepsRunContract == Contract!Spec

\* A request that must not be repeated is not: a POST is attempted at most once
\* unless its caller allowed more, and no upload is ever led to another location.
UploadsAreNotRepeated ==
    opt.method # "get" =>
        /\ opt.method = "post" /\ ~opt.retryNonIdempotent => tries[Home] <= 1
        /\ \A u \in Urls \ {Home} : tries[u] = 0

\* However redirects lead back and forth, credentials are only ever shown to the
\* host the caller addressed; once dropped they do not come back.
CredentialsStayHome == \A header \in shownTo : header.name = Home.host

\* The nested loops attempt no more than the options allow: each location gets one
\* attempt budget, and only as many locations as redirects permit get any.
SendsAreBounded ==
    /\ \A u \in Urls : tries[u] <= opt.maxAttempts
    /\ Cardinality({u \in Urls : tries[u] > 0}) <= opt.maxRedirects + 1

\* Every location gets its whole budget: a retryable error is only handed to the
\* caller when its location was tried as often as allowed, the last time possibly
\* foiled by the deadline.
RetryableMeansExhausted ==
    pc = "done" /\ result.retryable =>
        tries[url] + (IF now = Total THEN 1 ELSE 0) >= opt.maxAttempts

\* The total deadline is shared by all attempts and redirects, although a wait may
\* outlast it and an attempt may connect for any length of time after its only look at
\* the clock: at most one request, that of the attempt under way when the deadline
\* passes, is written at or after it.
AtMostOneGoesOutLate == late <= 1

\* A server that asks for time gets it: after a 429 or 503 with Retry-After the
\* location is left alone that long.
RetryAfterRespected == [][tries' # tries => now >= asked]_vars

-----------------------------------------------------------------------------
(* What the properties rest on.                                            *)

\* Where run() is in the inner loop, at one location.
AtLocation == {"once", "connecting", "network", "judge", "pause", "wait", "deliver"}
AfterAttempt == {"judge", "pause", "wait", "deliver"}

\* The two loop counters stay inside the options.
CountersFit ==
    /\ pc \notin {"validate", "done"} => opt.maxAttempts > 0 /\ redirects <= opt.maxRedirects
    /\ pc = "validate" => redirects = 0
    /\ pc \in AtLocation => attempt > 0
    /\ pc \in {"pause", "wait"} => attempt < opt.maxAttempts /\ RetryMethod
    /\ ~RetryMethod => attempt <= 1

\* A location was visited for each redirect, and none was tried before its visit.
VisitsCount ==
    /\ IsFiniteSet(visited)
    /\ Cardinality(visited) <= opt.maxRedirects + 1
    /\ pc # "done" => Cardinality(visited) <= redirects + (IF pc \in AtLocation THEN 1 ELSE 0)
    /\ pc \in AtLocation => url \in visited
    /\ \A u \in Urls \ visited : tries[u] = 0

\* The attempts at the current location are counted before they begin.
TriesCount ==
    /\ \A u \in Urls : tries[u] <= opt.maxAttempts
    /\ pc = "once" => tries[url] < attempt
    /\ pc \in AtLocation => tries[url] <= attempt
    /\ pc \in {"connecting", "network"} \/ (pc \in AfterAttempt /\ IsResponse(result)) =>
          tries[url] > 0

\* What travels with the request: an upload never moves, credentials never leave.
TravelsLight ==
    /\ opt.method # "get" => url = Home /\ visited \subseteq {Home}
    /\ credentials => url.host = Home.host

\* After an attempt the error, if any, is one of once()'s own.
ErrorOfOnce ==
    pc \in AfterAttempt /\ ~IsResponse(result) =>
        \/ result.error \in Refused \cup Early \cup Late
        \/ result.error = <<"cancelled", "none">> /\ cancelled

\* A late request is the last: no attempt passes its check at the deadline.
SendsLate ==
    /\ late <= 1
    /\ late > 0 => now = Total
    /\ pc = "connecting" => late = 0

\* The inductive invariant of the two loops, whatever the arithmetic does.
RunInv ==
    /\ CountersFit
    /\ VisitsCount
    /\ TriesCount
    /\ TravelsLight
    /\ ErrorOfOnce
    /\ SendsLate
    /\ UploadsAreNotRepeated
    /\ CredentialsStayHome

\* No time that run() computes with overflows: the premise of what follows.
TimesFit ==
    \A ms \in {0} \cup Backoffs \cup {wish * MsPerSecond : wish \in Wishes} :
        (Total + ms) * NsPerMs < Half

\* Every attempt of the budget was made, but one that came too late or to a URL that
\* is refused, which is not tried again.
BudgetSpent ==
    /\ pc = "once" => tries[url] = attempt - 1
    /\ pc \in {"connecting", "network", "pause", "wait"} => tries[url] = attempt
    /\ pc = "judge" =>
          \/ tries[url] = attempt
          \/ ~IsResponse(result) /\ tries[url] = attempt - 1 /\ (Retryable => now = Total)
    /\ pc = "judge" => ~result.retryable
    /\ pc \in {"deliver", "done"} /\ result.retryable =>
          tries[url] + (IF now = Total THEN 1 ELSE 0) >= opt.maxAttempts

\* A wait lasts until the time the server asked for, or until the deadline.
WaitsLongEnough ==
    /\ pc \notin {"pause", "wait", "done"} => now >= asked
    /\ pc = "pause" => now + delay >= asked /\ (Total + delay) * NsPerMs < Half
    /\ pc = "wait" => until >= asked * NsPerMs

\* The inductive invariant of the clock, on top of RunInv, for times that fit.
TimedInv == BudgetSpent /\ WaitsLongEnough
=============================================================================

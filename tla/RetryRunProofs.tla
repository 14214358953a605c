--------------------------- MODULE RetryRunProofs ---------------------------
(***************************************************************************)
(* Proofs about RetryRun, for every set of locations and of options, every *)
(* deadline, backoff and Retry-After, and clocks of any width.  Where the  *)
(* arithmetic must not overflow, a theorem says so (TimesFit).             *)
(***************************************************************************)
EXTENDS RetryRun, DurationsProofs, FiniteSetTheorems, TLAPS

-----------------------------------------------------------------------------
(* The types.                                                              *)

Errors == Refused \cup Early \cup Late \cup OwnFailures \cup {<<"none", "none">>}
Results == [status : Statuses \cup {0}, error : Errors, retryable : BOOLEAN, processed : BOOLEAN]

LEMMA OptionTypes ==
    ASSUME opt \in OptionSet
    PROVE  /\ opt \in Options
           /\ opt.maxAttempts \in Nat /\ opt.maxRedirects \in Nat
           /\ opt.retryNonIdempotent \in BOOLEAN /\ opt.treatNon2xx \in BOOLEAN
BY RunAssumption DEF Options

LEMMA FailureTyped ==
    ASSUME NEW error \in Errors
    PROVE  /\ Failure(error) \in Results
           /\ Failure(error).status = 0 /\ Failure(error).error = error
           /\ Failure(error).retryable = FALSE
BY DEF Failure, Results

LEMMA ResponseTyped ==
    ASSUME NEW status \in Statuses
    PROVE  /\ Response(status) \in Results
           /\ IsResponse(Response(status))
           /\ Response(status).retryable = FALSE
<1>1. status # 0 /\ <<"none", "none">> \in Errors
  BY DEF Statuses, Errors
<1>2. QED
  BY <1>1 DEF Response, Results, IsResponse

LEMMA OwnErrors ==
    /\ OwnFailures \subseteq Errors
    /\ Refused \subseteq Errors /\ Early \cup Late \subseteq Errors
    /\ <<"cancelled", "none">> \in Errors /\ <<"cancelled", "retry_wait">> \in Errors
    /\ <<"timeout", "none">> \in Errors /\ <<"timeout", "retry_wait">> \in Errors
    /\ <<"internal_error", "none">> \in Errors /\ <<"invalid_argument", "none">> \in Errors
    /\ <<"too_many_redirects", "redirect">> \in Errors
    /\ <<"redirect_missing_location", "redirect">> \in Errors
    /\ <<"invalid_url", "redirect">> \in Errors
    /\ <<"http_status_error", "read_response">> \in Errors
BY DEF Errors, OwnFailures, Refused

LEMMA UrlErrorsRefused == \A u, error : error \in UrlErrors(u) => <<error, "parse_url">> \in Refused
BY DEF UrlErrors, Refused

\* run()'s notes change neither the status nor the error.
LEMMA NotedTyped ==
    ASSUME result \in Results
    PROVE  /\ Noted \in Results
           /\ Noted.status = result.status /\ Noted.error = result.error
           /\ Noted.retryable = IF IsResponse(result) THEN result.retryable ELSE Retryable
<1>1. Retryable \in BOOLEAN /\ (result.error[2] = "read_response") \in BOOLEAN
  BY DEF Retryable, StatusRetryable, ErrorRetryable
<1>2. QED
  BY <1>1 DEF Noted, Results

\* The options and the starting point of a request never change.
LEMMA OptionsFixed == [Next]_vars => opt' = opt
BY DEF Next, vars, Once, Judge, Validate, Visit, OnceRefuses, OnceBegins, OnceGoesOut, OnceAnswers,
       OnceFails, JudgeCancelled, JudgeOver, JudgeRetry, WaitFor, StartWait, WaitEnds, Deliver,
       RedirectFails, Redirect, Cancel, Tick

LEMMA ResultTyped == TypeOK /\ [Next]_vars => result' \in Results
<1> SUFFICES ASSUME result \in Results, [Next]_vars PROVE result' \in Results
  BY DEF TypeOK, Results, Errors
<1> USE DEF Return, Goto
<1>1. CASE Validate
  BY <1>1, OwnErrors, FailureTyped DEF Validate
<1>2. CASE Visit
  BY <1>2, OwnErrors, FailureTyped DEF Visit
<1>3. CASE OnceRefuses
  BY <1>3, OwnErrors, FailureTyped, UrlErrorsRefused DEF OnceRefuses
<1>4. CASE OnceAnswers
  BY <1>4, ResponseTyped DEF OnceAnswers
<1>5. CASE OnceFails
  BY <1>5, OwnErrors, FailureTyped DEF OnceFails
<1>6. CASE JudgeCancelled
  BY <1>6, OwnErrors, FailureTyped DEF JudgeCancelled
<1>7. CASE JudgeOver
  BY <1>7, NotedTyped DEF JudgeOver
<1>8. CASE JudgeRetry
  BY <1>8, NotedTyped, OwnErrors, FailureTyped DEF JudgeRetry, WaitFor
<1>9. CASE WaitEnds
  BY <1>9, OwnErrors, FailureTyped DEF WaitEnds
<1>10. CASE Deliver
  <2>1. [Failure(<<"http_status_error", "read_response">>) EXCEPT !.processed = TRUE] \in Results
    BY OwnErrors, FailureTyped DEF Results
  <2>2. QED
    BY <1>10, <2>1 DEF Deliver
<1>11. CASE RedirectFails
  BY <1>11, OwnErrors, FailureTyped DEF RedirectFails
<1>12. CASE UNCHANGED result
  BY <1>12
<1>13. QED
  BY <1>1, <1>2, <1>3, <1>4, <1>5, <1>6, <1>7, <1>8, <1>9, <1>10, <1>11, <1>12
     DEF Next, vars, Once, Judge, OnceBegins, OnceGoesOut, StartWait, Redirect, Cancel, Tick

LEMMA InitTypeOK == Init => TypeOK
<1> SUFFICES ASSUME Init PROVE TypeOK
  OBVIOUS
<1>1. result \in Results
  BY OwnErrors, FailureTyped DEF Init
<1>2. opt.maxAttempts \in Nat /\ opt.maxRedirects \in Nat
  BY OptionTypes DEF Init
<1>3. 0 \in Counts /\ 0 \in 0..MaxCount /\ 0 \in 0..Total
  BY RunAssumption, DurationAssumption DEF Counts, MaxCount
<1>4. /\ redirects \in 0..(opt.maxRedirects + 1) /\ attempt \in 0..opt.maxAttempts
      /\ tries \in [Urls -> Nat]
  BY <1>2 DEF Init
<1>5. QED
  BY <1>1, <1>3, <1>4, RunAssumption DEF Init, TypeOK, Results, Errors, PC

\* Times are values of the clock's type, whatever overflowed.
LEMMA TimesTyped ==
    ASSUME now \in 0..Total
    PROVE  /\ Time \in Counts /\ Deadline \in Counts
           /\ \A ms \in Nat : Later(Time, ms) \in Counts
<1>1. now \in Nat /\ Total \in Nat /\ 0 \in Counts
  BY RunAssumption, DurationAssumption DEF Counts
<1>2. QED
  BY <1>1, InClockInRange, LaterInRange DEF Time, Deadline

LEMMA StepTypeOK == TypeOK /\ CountersFit /\ [Next]_vars => TypeOK'
<1> SUFFICES ASSUME TypeOK, CountersFit, [Next]_vars PROVE TypeOK'
  OBVIOUS
<1> USE DEF Goto, Return, target, waiting, history
<1>1. result' \in Results
  BY ResultTyped
<1>2. /\ opt' = opt /\ opt \in OptionSet
      /\ opt.maxAttempts \in Nat /\ opt.maxRedirects \in Nat
  BY OptionsFixed, OptionTypes DEF TypeOK
<1>3. pc' \in PC
  BY DEF TypeOK, PC, Next, vars, Once, Judge, Validate, Visit, OnceRefuses, OnceBegins, OnceGoesOut,
     OnceAnswers, OnceFails, JudgeCancelled, JudgeOver, JudgeRetry, WaitFor, StartWait,
     WaitEnds, Deliver, RedirectFails, Redirect, Cancel, Tick
<1>4. redirects' \in 0..(opt.maxRedirects + 1)
  <2>1. redirects \in 0..(opt.maxRedirects + 1)
    BY DEF TypeOK
  <2>2. CASE RedirectFails \/ Redirect
    BY <1>2, <2>1, <2>2 DEF RedirectFails, Redirect, CountersFit
  <2>3. QED
    BY <2>1, <2>2 DEF Next, vars, Once, Judge, Validate, Visit, OnceRefuses, OnceBegins, OnceGoesOut,
       OnceAnswers, OnceFails, JudgeCancelled, JudgeOver, JudgeRetry, WaitFor, StartWait,
       WaitEnds, Deliver, Cancel, Tick
<1>5. attempt' \in 0..opt.maxAttempts
  <2>1. attempt \in 0..opt.maxAttempts
    BY DEF TypeOK
  <2>2. CASE Visit
    BY <1>2, <2>1, <2>2 DEF Visit, FreshBudget, CountersFit
  <2>3. CASE WaitEnds
    BY <1>2, <2>1, <2>3 DEF WaitEnds, CountersFit
  <2>4. QED
    BY <2>1, <2>2, <2>3 DEF Next, vars, Once, Judge, Validate, OnceRefuses, OnceBegins, OnceGoesOut,
       OnceAnswers, OnceFails, JudgeCancelled, JudgeOver, JudgeRetry, WaitFor, StartWait,
       Deliver, RedirectFails, Redirect, Cancel, Tick
<1>6. delay' \in 0..MaxCount /\ until' \in Counts /\ now' \in 0..Total /\ asked' \in 0..Total
  <2>1. /\ delay \in 0..MaxCount /\ until \in Counts /\ now \in 0..Total /\ asked \in 0..Total
        /\ Total \in Nat /\ delay \in Nat
    BY RunAssumption, CountsAreIntegers DEF TypeOK
  <2>2. CASE JudgeRetry
    <3>1. UNCHANGED <<until, now>>
      BY <2>2 DEF JudgeRetry, WaitFor
    <3>2. \A wish \in Wishes : \A backoff : DelayFor(wish, backoff) \in 0..MaxCount
      BY RetryAfterSaturates, RunAssumption DEF DelayFor
    <3>3. delay' \in 0..MaxCount
      BY <2>2, <3>2, RunAssumption DEF JudgeRetry, WaitFor
    <3>4. ASSUME NEW wish \in Wishes PROVE AtMostTotal(now + wish * MsPerSecond) \in 0..Total
      <4>1. wish \in Nat /\ wish * MsPerSecond \in Nat
        BY RunAssumption, DurationAssumption
      <4>2. QED
        BY <2>1, <4>1 DEF AtMostTotal
    <3>5. asked' \in 0..Total
      BY <2>1, <2>2, <3>4 DEF JudgeRetry
    <3>6. QED
      BY <2>1, <3>1, <3>3, <3>5
  <2>3. CASE StartWait
    BY <2>1, <2>3, TimesTyped DEF StartWait
  <2>4. CASE Redirect
    BY <2>1, <2>4 DEF Redirect
  <2>5. CASE Tick
    BY <2>1, <2>5 DEF Tick
  <2>6. QED
    BY <2>1, <2>2, <2>3, <2>4, <2>5 DEF Next, vars, Once, Judge, Validate, Visit, OnceRefuses,
       OnceBegins, OnceGoesOut, OnceAnswers, OnceFails, JudgeCancelled, JudgeOver, WaitEnds, Deliver,
       RedirectFails, Cancel
<1>7. /\ tries' \in [Urls -> Nat] /\ shownTo' \in SUBSET {HostHeader(u) : u \in Urls}
      /\ late' \in Nat
  <2>1. /\ tries \in [Urls -> Nat] /\ shownTo \in SUBSET {HostHeader(u) : u \in Urls}
        /\ url \in Urls /\ late \in Nat
    BY DEF TypeOK
  <2>2. CASE OnceBegins
    BY <2>1, <2>2 DEF OnceBegins
  <2>3. CASE OnceGoesOut
    BY <2>1, <2>3 DEF OnceGoesOut
  <2>4. QED
    BY <2>1, <2>2, <2>3 DEF Next, vars, Once, Judge, Validate, Visit, OnceRefuses, OnceAnswers,
       OnceFails, JudgeCancelled, JudgeOver, JudgeRetry, WaitFor, StartWait, WaitEnds, Deliver,
       RedirectFails, Redirect, Cancel, Tick
<1>8. url' \in Urls /\ credentials' \in BOOLEAN /\ visited' \in SUBSET Urls /\ cancelled' \in BOOLEAN
  BY DEF TypeOK, Next, vars, Once, Judge, Validate, Visit, OnceRefuses, OnceBegins, OnceGoesOut,
     OnceAnswers, OnceFails, JudgeCancelled, JudgeOver, JudgeRetry, WaitFor, StartWait,
     WaitEnds, Deliver, RedirectFails, Redirect, KeptFor, Cancel, Tick
<1>9. QED
  BY <1>1, <1>2, <1>3, <1>4, <1>5, <1>6, <1>7, <1>8 DEF TypeOK, Results, Errors

-----------------------------------------------------------------------------
(* The inductive invariant of the loops.                                   *)

LEMMA InitRunInv == Init => RunInv
<1> SUFFICES ASSUME Init PROVE RunInv
  OBVIOUS
<1> USE DEF Init
<1>1. opt.maxAttempts \in Nat /\ opt.maxRedirects \in Nat
  BY OptionTypes
<1>2. IsFiniteSet(visited) /\ Cardinality(visited) = 0
  BY FS_EmptySet
<1>3. CountersFit /\ VisitsCount /\ TriesCount
  BY <1>1, <1>2 DEF CountersFit, VisitsCount, TriesCount, AtLocation, AfterAttempt
<1>4. TravelsLight /\ ErrorOfOnce
  BY DEF TravelsLight, ErrorOfOnce, AfterAttempt
<1>5. UploadsAreNotRepeated /\ CredentialsStayHome
  BY RunAssumption DEF UploadsAreNotRepeated, CredentialsStayHome
<1>6. SendsLate
  BY DEF SendsLate
<1>7. QED
  BY <1>3, <1>4, <1>5, <1>6 DEF RunInv

\* What every step needs of the types.
LEMMA PlainTypes ==
    ASSUME TypeOK
    PROVE  /\ opt.maxAttempts \in Nat /\ opt.maxRedirects \in Nat
           /\ attempt \in Nat /\ redirects \in Nat /\ url \in Urls /\ Home \in Urls
           /\ tries \in [Urls -> Nat] /\ visited \subseteq Urls
           /\ cancelled \in BOOLEAN /\ credentials \in BOOLEAN /\ result \in Results
BY OptionTypes, RunAssumption DEF TypeOK, Results, Errors

LEMMA StepCountersFit == TypeOK /\ RunInv /\ [Next]_vars => CountersFit'
<1> SUFFICES ASSUME TypeOK, RunInv, [Next]_vars PROVE CountersFit'
  OBVIOUS
<1> USE DEF CountersFit, AtLocation, RetryMethod, Goto, Return, target
<1>0. CountersFit /\ opt' = opt
  BY OptionsFixed DEF RunInv
<1>1. CASE Validate
  BY <1>0, <1>1, PlainTypes DEF Validate
<1>2. CASE Visit
  BY <1>0, <1>2, PlainTypes DEF Visit, FreshBudget
<1>3. CASE Once
  BY <1>0, <1>3 DEF Once, OnceRefuses, OnceBegins, OnceGoesOut, OnceAnswers, OnceFails
<1>4. CASE JudgeCancelled \/ JudgeOver \/ StartWait
  BY <1>0, <1>4 DEF JudgeCancelled, JudgeOver, StartWait
<1>5. CASE JudgeRetry
  <2>1. attempt < opt.maxAttempts
    BY <1>5, PlainTypes DEF JudgeRetry, LastAttempt, TypeOK
  <2>2. QED
    BY <1>0, <1>5, <2>1 DEF JudgeRetry, WaitFor
<1>6. CASE WaitEnds
  BY <1>0, <1>6, PlainTypes DEF WaitEnds
<1>7. CASE Deliver \/ RedirectFails
  BY <1>0, <1>7 DEF Deliver, RedirectFails
<1>8. CASE Redirect
  BY <1>0, <1>8, PlainTypes DEF Redirect
<1>9. CASE Cancel \/ Tick \/ UNCHANGED vars
  BY <1>0, <1>9 DEF Cancel, Tick, vars
<1>10. QED
  BY <1>1, <1>2, <1>3, <1>4, <1>5, <1>6, <1>7, <1>8, <1>9 DEF Next, Judge

\* Only a visit adds to the visited locations, and only a redirect asks for another.
LEMMA StepVisitsCount == TypeOK /\ RunInv /\ [Next]_vars => VisitsCount'
<1> SUFFICES ASSUME TypeOK, RunInv, [Next]_vars PROVE VisitsCount'
  OBVIOUS
<1> USE DEF VisitsCount, AtLocation, Goto, Return, target, history
<1>0. VisitsCount /\ CountersFit /\ opt' = opt
  BY OptionsFixed DEF RunInv
<1>00. Cardinality(visited) \in Nat
  BY <1>0, FS_CardinalityType
<1>1. CASE Validate
  BY <1>0, <1>1 DEF Validate
<1>2. CASE Visit
  <2>1. CASE UNCHANGED visited /\ pc' = "done"
    BY <1>0, <1>2, <2>1 DEF Visit
  <2>2. CASE visited' = visited \cup {url} /\ url \notin visited /\ pc' = "once"
    <3>1. IsFiniteSet(visited') /\ Cardinality(visited') = Cardinality(visited) + 1
      BY <1>0, <2>2, FS_AddElement
    <3>2. pc = "visit" /\ UNCHANGED <<url, tries, redirects>>
      BY <1>2 DEF Visit
    <3>3. Cardinality(visited) <= redirects /\ redirects <= opt.maxRedirects
      BY <1>0, <1>00, <3>2, PlainTypes DEF CountersFit
    <3>4. QED
      BY <1>0, <1>00, <2>2, <3>1, <3>2, <3>3, PlainTypes
  <2>3. QED
    BY <1>2, <2>1, <2>2 DEF Visit, Visited
<1>3. CASE OnceBegins
  BY <1>0, <1>3, PlainTypes DEF OnceBegins
<1>4. CASE OnceRefuses \/ OnceGoesOut \/ OnceAnswers \/ OnceFails
  BY <1>0, <1>4 DEF OnceRefuses, OnceGoesOut, OnceAnswers, OnceFails
<1>5. CASE Judge
  BY <1>0, <1>5 DEF Judge, JudgeCancelled, JudgeOver, JudgeRetry, WaitFor, StartWait, WaitEnds
<1>6. CASE Deliver \/ RedirectFails
  BY <1>0, <1>6 DEF Deliver, RedirectFails
<1>7. CASE Redirect
  BY <1>0, <1>00, <1>7, PlainTypes DEF Redirect
<1>8. CASE Cancel \/ Tick \/ UNCHANGED vars
  BY <1>0, <1>8 DEF Cancel, Tick, vars
<1>9. QED
  BY <1>1, <1>2, <1>3, <1>4, <1>5, <1>6, <1>7, <1>8 DEF Next, Once

LEMMA StepTriesCount == TypeOK /\ RunInv /\ [Next]_vars => TriesCount'
<1> SUFFICES ASSUME TypeOK, RunInv, [Next]_vars PROVE TriesCount'
  OBVIOUS
<1> USE DEF TriesCount, AtLocation, AfterAttempt, Goto, Return, target, history
<1>0. TriesCount /\ CountersFit /\ VisitsCount /\ opt' = opt
  BY OptionsFixed DEF RunInv
<1>1. CASE Validate
  BY <1>0, <1>1 DEF Validate
<1>2. CASE Visit
  <2>1. CASE pc' = "done"
    BY <1>0, <1>2, <2>1 DEF Visit
  <2>2. CASE pc' = "once"
    <3>1. url \notin visited /\ attempt' = 1 /\ UNCHANGED <<url, tries>>
      BY <1>2, <2>2 DEF Visit, Visited, FreshBudget
    <3>2. tries[url] = 0
      BY <1>0, <3>1, PlainTypes DEF VisitsCount
    <3>3. QED
      BY <1>0, <2>2, <3>1, <3>2
  <2>3. QED
    BY <1>2, <2>1, <2>2 DEF Visit
<1>3. CASE OnceBegins
  <2>1. /\ tries' = [tries EXCEPT ![url] = @ + 1] /\ UNCHANGED <<url, attempt, result>>
        /\ pc = "once" /\ pc' = "connecting"
    BY <1>3 DEF OnceBegins
  <2>2. tries[url] < attempt /\ attempt <= opt.maxAttempts
    BY <1>0, <2>1 DEF TypeOK
  <2>3. QED
    BY <1>0, <2>1, <2>2, PlainTypes
<1>4. CASE OnceRefuses
  <2>1. ~IsResponse(result')
    BY <1>4 DEF OnceRefuses, IsResponse, Failure
  <2>2. pc = "once" /\ pc' = "judge" /\ UNCHANGED <<url, tries, attempt>>
    BY <1>4 DEF OnceRefuses
  <2>3. QED
    BY <1>0, <2>1, <2>2, PlainTypes DEF IsResponse
<1>5. CASE OnceGoesOut \/ OnceAnswers \/ OnceFails
  BY <1>0, <1>5 DEF OnceGoesOut, OnceAnswers, OnceFails
<1>6. CASE JudgeCancelled
  BY <1>0, <1>6 DEF JudgeCancelled
<1>7. CASE JudgeOver
  BY <1>0, <1>7, PlainTypes, NotedTyped DEF JudgeOver, IsResponse
<1>8. CASE JudgeRetry
  BY <1>0, <1>8, PlainTypes, NotedTyped DEF JudgeRetry, WaitFor, IsResponse
<1>9. CASE StartWait
  BY <1>0, <1>9 DEF StartWait, IsResponse
<1>10. CASE WaitEnds
  BY <1>0, <1>10, PlainTypes DEF WaitEnds
<1>11. CASE Deliver \/ RedirectFails
  BY <1>0, <1>11 DEF Deliver, RedirectFails
<1>12. CASE Redirect
  BY <1>0, <1>12 DEF Redirect
<1>13. CASE Cancel \/ Tick \/ UNCHANGED vars
  BY <1>0, <1>13 DEF Cancel, Tick, vars, IsResponse
<1>14. QED
  BY <1>1, <1>2, <1>3, <1>4, <1>5, <1>6, <1>7, <1>8, <1>9, <1>10, <1>11, <1>12, <1>13
     DEF Next, Once, Judge

\* Redirects lead only downloads elsewhere, and credentials only along the host.
LEMMA StepTravelsLight == TypeOK /\ RunInv /\ [Next]_vars => TravelsLight' /\ CredentialsStayHome'
<1> SUFFICES ASSUME TypeOK, RunInv, [Next]_vars PROVE TravelsLight' /\ CredentialsStayHome'
  OBVIOUS
<1> USE DEF TravelsLight, CredentialsStayHome, target, history
<1>0. TravelsLight /\ CredentialsStayHome /\ opt' = opt
  BY OptionsFixed DEF RunInv
<1>1. CASE Visit
  BY <1>0, <1>1 DEF Visit
<1>2. CASE OnceGoesOut
  <2>1. HostHeader(url).name = url.host
    BY DEF HostHeader
  <2>2. QED
    BY <1>0, <1>2, <2>1 DEF OnceGoesOut
<1>3. CASE Redirect
  BY <1>0, <1>3 DEF Redirect, Follows, KeptFor
<1>4. CASE UNCHANGED <<target, shownTo>>
  BY <1>0, <1>4
<1>5. CASE RedirectFails
  BY <1>0, <1>5 DEF RedirectFails
<1>6. QED
  BY <1>1, <1>2, <1>3, <1>4, <1>5 DEF Next, vars, Once, Judge, Validate, OnceRefuses,
     OnceBegins, OnceAnswers, OnceFails, JudgeCancelled, JudgeOver, JudgeRetry, WaitFor, StartWait,
     WaitEnds, Deliver, Cancel, Tick

\* One attempt at the caller's own location, unless a repetition was allowed.
LEMMA StepUploads == TypeOK /\ RunInv /\ [Next]_vars => UploadsAreNotRepeated'
<1> SUFFICES ASSUME TypeOK, RunInv, [Next]_vars PROVE UploadsAreNotRepeated'
  OBVIOUS
<1> USE DEF UploadsAreNotRepeated, target, history
<1>0. /\ UploadsAreNotRepeated /\ TravelsLight /\ TriesCount /\ CountersFit /\ opt' = opt
  BY OptionsFixed DEF RunInv
<1>1. CASE OnceBegins
  <2>1. pc = "once" /\ tries' = [tries EXCEPT ![url] = @ + 1]
    BY <1>1 DEF OnceBegins, Goto
  <2>2. opt.method # "get" => url = Home
    BY <1>0 DEF TravelsLight
  <2>3. opt.method = "post" /\ ~opt.retryNonIdempotent => tries[url] = 0
    BY <1>0, <2>1, PlainTypes DEF TriesCount, CountersFit, RetryMethod, Idempotent
  <2>4. QED
    BY <1>0, <2>1, <2>2, <2>3, PlainTypes
<1>2. CASE UNCHANGED tries
  BY <1>0, <1>2
<1>3. QED
  BY <1>1, <1>2 DEF Next, vars, Once, Judge, Validate, Visit, OnceRefuses,
     OnceGoesOut, OnceAnswers, OnceFails, JudgeCancelled, JudgeOver, JudgeRetry, WaitFor, StartWait,
     WaitEnds, Deliver, RedirectFails, Redirect, Cancel, Tick

LEMMA StepErrorOfOnce == TypeOK /\ RunInv /\ [Next]_vars => ErrorOfOnce'
<1> SUFFICES ASSUME TypeOK, RunInv, [Next]_vars PROVE ErrorOfOnce'
  OBVIOUS
<1> USE DEF ErrorOfOnce, AfterAttempt, Goto, Return
<1>0. ErrorOfOnce /\ result \in Results
  BY PlainTypes DEF RunInv
<1>1. CASE OnceRefuses
  <2>1. UNCHANGED cancelled /\ <<"timeout", "none">> \in Refused
    BY <1>1 DEF OnceRefuses, Refused
  <2>2. CASE cancelled /\ result' = Failure(<<"cancelled", "none">>)
    BY <2>1, <2>2, FailureTyped, OwnErrors
  <2>3. CASE result' = Failure(<<"timeout", "none">>)
    BY <2>1, <2>3, FailureTyped, OwnErrors
  <2>4. ASSUME NEW error \in UrlErrors(url), result' = Failure(<<error, "parse_url">>)
        PROVE  ErrorOfOnce'
    <3>1. <<error, "parse_url">> \in Refused
      BY UrlErrorsRefused
    <3>2. QED
      BY <2>4, <3>1, FailureTyped, OwnErrors
  <2>5. QED
    BY <1>1, <2>2, <2>3, <2>4 DEF OnceRefuses
<1>2. CASE OnceAnswers
  BY <1>2, ResponseTyped DEF OnceAnswers
<1>3. CASE OnceFails
  <2>1. PICK error \in Early \cup Late : result' = Failure(error)
    BY <1>3 DEF OnceFails
  <2>2. QED
    BY <2>1, FailureTyped, OwnErrors
<1>4. CASE JudgeOver
  BY <1>0, <1>4, NotedTyped DEF JudgeOver, IsResponse
<1>5. CASE JudgeRetry
  BY <1>0, <1>5, NotedTyped DEF JudgeRetry, WaitFor, IsResponse
<1>6. CASE UNCHANGED <<pc, result>> \/ StartWait
  BY <1>0, <1>6 DEF StartWait, IsResponse, Next, vars, Once, Judge, Validate, Visit,
     OnceRefuses, OnceBegins, OnceGoesOut, OnceAnswers, OnceFails, JudgeCancelled, JudgeOver, JudgeRetry,
     WaitFor, WaitEnds, Deliver, RedirectFails, Redirect, Cancel, Tick
<1>7. CASE pc' \notin AfterAttempt
  BY <1>7
<1>8. QED
  BY <1>1, <1>2, <1>3, <1>4, <1>5, <1>6, <1>7 DEF Next, vars, Once, Judge, Validate, Visit,
     OnceBegins, OnceGoesOut, JudgeCancelled, WaitEnds, Deliver, RedirectFails, Redirect, Cancel, Tick

\* At the deadline run() reads off the clock what it computed for the deadline, even
\* when both wrapped around.
LEMMA ExpiredAtTotal == now = Total => Expired
<1> SUFFICES ASSUME now = Total PROVE Expired
  OBVIOUS
<1>1. InClock(Total) \in Counts /\ InClock(Total) \in Int
  BY RunAssumption, InClockInRange, CountsAreIntegers
<1>2. 0 + InClock(Total) = InClock(Total)
  BY <1>1
<1>3. Wrap(InClock(Total)) = InClock(Total)
  BY <1>1, WrapFits
<1>4. Deadline = InClock(Total)
  BY <1>2, <1>3 DEF Deadline, Later
<1>5. Time = InClock(Total)
  BY DEF Time
<1>6. Time >= Deadline
  BY <1>1, <1>4, <1>5
<1>7. QED
  BY <1>6 DEF Expired

\* Only an attempt under way when the deadline passes sends late, and none begins then.
LEMMA StepSendsLate == TypeOK /\ RunInv /\ [Next]_vars => SendsLate'
<1> SUFFICES ASSUME TypeOK, RunInv, [Next]_vars PROVE SendsLate'
  OBVIOUS
<1> USE DEF SendsLate, Goto, Return
<1>0. SendsLate /\ now \in 0..Total /\ Total \in Nat /\ late \in Nat
  BY RunAssumption DEF RunInv, TypeOK
<1>1. CASE OnceBegins
  <2>1. now # Total /\ UNCHANGED <<now, late>>
    BY <1>1, ExpiredAtTotal DEF OnceBegins
  <2>2. QED
    BY <1>0, <2>1
<1>2. CASE OnceGoesOut
  <2>1. late = 0 /\ pc' = "network" /\ now' = now
    BY <1>0, <1>2 DEF OnceGoesOut
  <2>2. late' = IF now = Total THEN 1 ELSE 0
    BY <1>2, <2>1 DEF OnceGoesOut
  <2>3. QED
    BY <1>0, <2>1, <2>2
<1>3. CASE Tick
  BY <1>0, <1>3 DEF Tick, history
<1>4. CASE UNCHANGED <<pc, now, late>>
  BY <1>0, <1>4
<1>5. CASE UNCHANGED <<now, late>> /\ pc' # "connecting"
  BY <1>0, <1>5
<1>6. QED
  BY <1>1, <1>2, <1>3, <1>4, <1>5 DEF Next, vars, history, Once, Judge, Validate, Visit,
     OnceRefuses, OnceAnswers, OnceFails, JudgeCancelled, JudgeOver, JudgeRetry, WaitFor,
     StartWait, WaitEnds, Deliver, RedirectFails, Redirect, Cancel

LEMMA Invariant == Spec => [](TypeOK /\ RunInv)
<1>1. Init => TypeOK /\ RunInv
  BY InitTypeOK, InitRunInv
<1>2. TypeOK /\ RunInv /\ [Next]_vars => TypeOK'
  BY StepTypeOK DEF RunInv
<1>3. TypeOK /\ RunInv /\ [Next]_vars => RunInv'
  BY StepCountersFit, StepVisitsCount, StepTriesCount, StepTravelsLight, StepUploads,
     StepErrorOfOnce, StepSendsLate DEF RunInv
<1>4. QED
  BY <1>1, <1>2, <1>3, PTL DEF Spec

\* Type correctness: both loop counters stay within the options, and every time is a
\* value of the clock's type whatever overflowed on the way.
THEOREM TypeCorrect == Spec => []TypeOK
<1>1. QED
  BY Invariant, PTL

\* The two loops of run() keep count, in every state.
THEOREM RunInvariant == Spec => []RunInv
<1>1. QED
  BY Invariant, PTL

\* A POST is not repeated unless its caller allowed it, and no upload is redirected.
THEOREM UploadsGoOutOnce == Spec => []UploadsAreNotRepeated
<1>1. RunInv => UploadsAreNotRepeated
  BY DEF RunInv
<1>2. QED
  BY <1>1, Invariant, PTL

\* Over any chain of redirects, credentials are only shown to the caller's host.
THEOREM CredentialsAreKept == Spec => []CredentialsStayHome
<1>1. RunInv => CredentialsStayHome
  BY DEF RunInv
<1>2. QED
  BY <1>1, Invariant, PTL

\* No location gets more than its budget, and no more locations than redirects allow
\* get any.
THEOREM LoopsAreBounded == Spec => []SendsAreBounded
<1>1. TypeOK /\ RunInv => SendsAreBounded
  <2> SUFFICES ASSUME TypeOK, RunInv PROVE SendsAreBounded
    OBVIOUS
  <2> DEFINE sent == {u \in Urls : tries[u] > 0}
  <2>1. VisitsCount /\ TriesCount
    BY DEF RunInv
  <2>2. sent \subseteq visited
    BY <2>1, PlainTypes DEF VisitsCount
  <2>3. IsFiniteSet(visited) /\ IsFiniteSet(sent) /\ Cardinality(sent) <= Cardinality(visited)
    BY <2>1, <2>2, FS_Subset DEF VisitsCount
  <2>4. Cardinality(sent) \in Nat /\ Cardinality(visited) \in Nat
    BY <2>3, FS_CardinalityType
  <2>5. Cardinality(sent) <= opt.maxRedirects + 1
    BY <2>1, <2>3, <2>4, PlainTypes DEF VisitsCount
  <2>6. QED
    BY <2>1, <2>5 DEF TriesCount, SendsAreBounded
<1>2. QED
  BY <1>1, Invariant, PTL

-----------------------------------------------------------------------------
(* The deadline.                                                           *)

\* The deadline is looked at once per attempt, before it connects, so a slow connection
\* may carry a request past it; but only one request of all the attempts and redirects
\* is written at or after the deadline, even when the clock's integers wrapped around.
THEOREM DeadlineHolds == Spec => []AtMostOneGoesOutLate
<1>1. RunInv => AtMostOneGoesOutLate
  BY DEF RunInv, SendsLate, AtMostOneGoesOutLate
<1>2. QED
  BY <1>1, Invariant, PTL

-----------------------------------------------------------------------------
(* RetryRun implements RunContract.                                        *)

\* What RunContract calls the stage and the answer.
WentOut == \E u \in Urls : tries[u] > 0
StageSeen == IF Back THEN "back" ELSE IF WentOut THEN "network" ELSE "run"
AnswerSeen == IF Back THEN AnswerOf ELSE "none"

LEMMA SeenUnmoved ==
    ASSUME UNCHANGED <<StageSeen, AnswerSeen, cancelled>>
    PROVE  UNCHANGED Contract!vars
BY DEF Contract!vars, StageSeen, AnswerSeen, WentOut

LEMMA InitRefines == Init => Contract!Init
<1> SUFFICES ASSUME Init PROVE Contract!Init
  OBVIOUS
<1>1. ~Back /\ ~WentOut
  BY DEF Init, Back, WentOut
<1>2. QED
  BY <1>1 DEF Init, Contract!Init, WentOut

\* A step that reaches no answer and sends nothing first is not seen.
LEMMA StillRunning ==
    ASSUME ~Back, ~Back', UNCHANGED cancelled, WentOut' = WentOut
    PROVE  UNCHANGED Contract!vars
BY SeenUnmoved DEF StageSeen, AnswerSeen

\* run() may end with a failure, or as cancelled when it is, at any time.
LEMMA EndsBadly ==
    ASSUME ~Back, Back', UNCHANGED cancelled, cancelled \in BOOLEAN,
           AnswerOf' = "failure" \/ (AnswerOf' = "cancelled" /\ cancelled)
    PROVE  Contract!EndEarly \/ Contract!ComeBack
<1>1. CASE WentOut
  <2>1. Contract!ComeBack
    BY <1>1 DEF Contract!ComeBack, Contract!LateAnswers, WentOut
  <2>2. QED
    BY <2>1
<1>2. CASE ~WentOut
  <2>1. Contract!EndEarly
    BY <1>2 DEF Contract!EndEarly, Contract!EarlyAnswers, WentOut
  <2>2. QED
    BY <2>1
<1>3. QED
  BY <1>1, <1>2

\* What Return leaves as an answer.
LEMMA ReturnedAnswer ==
    ASSUME NEW error \in OwnFailures, result' = Failure(error)
    PROVE  AnswerOf' = IF error[1] = "cancelled" THEN "cancelled"
                       ELSE IF error = <<"invalid_argument", "none">> THEN "invalid_argument"
                       ELSE "failure"
<1>1. ~IsResponse(result)' /\ result'.error = error
  BY OwnErrors, FailureTyped DEF IsResponse
<1>2. QED
  BY <1>1 DEF AnswerOf

LEMMA OwnFailuresNamed ==
    /\ {<<"cancelled", "none">>, <<"cancelled", "retry_wait">>, <<"timeout", "retry_wait">>,
        <<"invalid_argument", "none">>, <<"too_many_redirects", "redirect">>,
        <<"redirect_missing_location", "redirect">>, <<"invalid_url", "redirect">>,
        <<"http_status_error", "read_response">>} \subseteq OwnFailures
BY DEF OwnFailures

LEMMA StepRefines == TypeOK /\ RunInv /\ [Next]_vars => [Contract!Next]_Contract!vars
<1> SUFFICES ASSUME TypeOK, RunInv, [Next]_vars PROVE [Contract!Next]_Contract!vars
  OBVIOUS
<1> USE DEF Goto, Return, history
<1>0. /\ cancelled \in BOOLEAN /\ result \in Results /\ opt' = opt /\ tries \in [Urls -> Nat]
      /\ VisitsCount /\ TriesCount /\ ErrorOfOnce
  BY PlainTypes, OptionsFixed DEF RunInv
<1>1. ASSUME pc \notin {"deliver", "done"}, pc' \notin {"deliver", "done"},
             UNCHANGED <<cancelled, tries>>
      PROVE  UNCHANGED Contract!vars
  BY <1>1, StillRunning DEF Back, WentOut
<1>2. ASSUME ~Back, pc' = "done", UNCHANGED cancelled,
             NEW error \in OwnFailures, error # <<"invalid_argument", "none">>,
             error[1] = "cancelled" => cancelled, result' = Failure(error)
      PROVE  Contract!Next
  <2>1. AnswerOf' = "failure" \/ (AnswerOf' = "cancelled" /\ cancelled)
    BY <1>2, ReturnedAnswer
  <2>2. QED
    BY <1>0, <1>2, <2>1, EndsBadly DEF Back, Contract!Next
<1>3. CASE Validate
  <2>1. CASE pc' = "visit"
    BY <1>1, <1>3, <2>1 DEF Validate
  <2>2. CASE pc' = "done"
    <3>1. pc = "validate" /\ result' = Failure(<<"invalid_argument", "none">>) /\ UNCHANGED cancelled
      BY <1>3, <2>2 DEF Validate
    <3>2. ~Back /\ Back'
      BY <2>2, <3>1 DEF Back
    <3>3. ~WentOut
      <4>1. visited = {}
        <5>1. IsFiniteSet(visited) /\ Cardinality(visited) <= 0
          BY <1>0, <3>1, PlainTypes, FS_CardinalityType
             DEF VisitsCount, AtLocation, RunInv, CountersFit
        <5>2. QED
          BY <5>1, FS_CardinalityType, FS_EmptySet
      <4>2. QED
        BY <1>0, <4>1 DEF VisitsCount, WentOut
    <3>4. AnswerOf' = "invalid_argument"
      BY <3>1, ReturnedAnswer, OwnFailuresNamed
    <3>5. Contract!EndEarly
      BY <3>1, <3>2, <3>3, <3>4 DEF Contract!EndEarly, Contract!EarlyAnswers, WentOut
    <3>6. QED
      BY <3>5 DEF Contract!Next
  <2>3. QED
    BY <1>3, <2>1, <2>2 DEF Validate
<1>4. CASE Visit
  <2>1. CASE pc' = "once"
    BY <1>1, <1>4, <2>1 DEF Visit
  <2>2. CASE pc' = "done"
    <3>1. pc = "visit" /\ result' = Failure(<<"too_many_redirects", "redirect">>) /\ UNCHANGED cancelled
      BY <1>4, <2>2 DEF Visit
    <3>2. QED
      BY <1>2, <2>2, <3>1, OwnFailuresNamed DEF Back
  <2>3. QED
    BY <1>4, <2>1, <2>2 DEF Visit
<1>5. CASE OnceRefuses \/ OnceGoesOut \/ OnceAnswers \/ OnceFails
  BY <1>1, <1>5 DEF OnceRefuses, OnceGoesOut, OnceAnswers, OnceFails
<1>6. CASE OnceBegins
  <2>1. /\ pc = "once" /\ pc' = "connecting" /\ ~cancelled /\ UNCHANGED cancelled
        /\ tries' = [tries EXCEPT ![url] = @ + 1] /\ url \in Urls
    BY <1>6, PlainTypes DEF OnceBegins
  <2>2. ~Back /\ ~Back'
    BY <2>1 DEF Back
  <2>3. WentOut'
    BY <1>0, <2>1 DEF WentOut
  <2>4. CASE WentOut
    BY <2>1, <2>2, <2>3, <2>4, SeenUnmoved DEF StageSeen, AnswerSeen
  <2>5. CASE ~WentOut
    <3>1. Contract!GoOut
      BY <1>0, <2>1, <2>2, <2>3, <2>5 DEF Contract!GoOut, WentOut
    <3>2. QED
      BY <3>1 DEF Contract!Next
  <2>6. QED
    BY <2>4, <2>5
<1>7. CASE JudgeCancelled
  <2>1. /\ pc = "judge" /\ pc' = "done" /\ cancelled /\ UNCHANGED cancelled
        /\ result' = Failure(<<"cancelled", "none">>)
    BY <1>7 DEF JudgeCancelled, Seen
  <2>2. QED
    BY <1>2, <2>1, OwnFailuresNamed DEF Back
<1>8. CASE JudgeOver
  <2>1. /\ pc = "judge" /\ pc' = "deliver" /\ ~cancelled /\ UNCHANGED <<cancelled, tries>>
        /\ result' = Noted
    BY <1>8 DEF JudgeOver, Seen
  <2>2. result'.status = result.status /\ result'.error = result.error
    BY <1>0, <2>1, NotedTyped
  <2>3. CASE ~Back'
    BY <2>1, <2>3, StillRunning DEF Back, WentOut
  <2>4. CASE Back' /\ IsResponse(result)
    <3>1. WentOut
      BY <1>0, <2>1, <2>4, PlainTypes DEF TriesCount, AfterAttempt, WentOut
    <3>2. AnswerOf' \in {"failure", "response"}
      BY <2>2, <2>4 DEF AnswerOf, IsResponse
    <3>3. Contract!ComeBack
      BY <2>1, <2>4, <3>1, <3>2 DEF Contract!ComeBack, Contract!LateAnswers, WentOut, Back
    <3>4. QED
      BY <3>3 DEF Contract!Next
  <2>5. CASE Back' /\ ~IsResponse(result)
    <3>1. result.error \in Refused \cup Early \cup Late
      BY <1>0, <2>1, <2>5 DEF ErrorOfOnce, AfterAttempt
    <3>2. result.error[1] # "cancelled" /\ result.error # <<"invalid_argument", "none">>
      BY <3>1 DEF Refused, Early, Late
    <3>3. AnswerOf' = "failure"
      BY <2>2, <2>5, <3>2 DEF AnswerOf, IsResponse
    <3>4. QED
      BY <1>0, <2>1, <2>5, <3>3, EndsBadly DEF Back, Contract!Next
  <2>6. QED
    BY <2>3, <2>4, <2>5
<1>9. CASE JudgeRetry
  <2>1. pc = "judge" /\ UNCHANGED <<cancelled, tries>>
    BY <1>9 DEF JudgeRetry, WaitFor
  <2>2. CASE pc' = "pause"
    BY <1>1, <2>1, <2>2
  <2>3. CASE pc' = "done" /\ result' = Failure(<<"timeout", "retry_wait">>)
    BY <1>2, <2>1, <2>3, OwnFailuresNamed DEF Back
  <2>4. QED
    BY <1>9, <2>2, <2>3 DEF JudgeRetry, WaitFor
<1>10. CASE StartWait
  BY <1>1, <1>10 DEF StartWait
<1>11. CASE WaitEnds
  <2>1. pc = "wait" /\ UNCHANGED <<cancelled, tries>>
    BY <1>11 DEF WaitEnds
  <2>2. CASE pc' = "once"
    BY <1>1, <2>1, <2>2
  <2>3. CASE pc' = "done" /\ result' = Failure(<<"cancelled", "retry_wait">>) /\ cancelled
    BY <1>2, <2>1, <2>3, OwnFailuresNamed DEF Back
  <2>4. QED
    BY <1>11, <2>2, <2>3 DEF WaitEnds, Seen
<1>12. CASE Deliver
  <2>1. pc = "deliver" /\ pc' = "done" /\ Back /\ Back' /\ UNCHANGED <<cancelled, tries>>
    BY <1>12 DEF Deliver, Back
  <2>2. CASE IsResponse(result) /\ StatusError
    <3>1. ~IsResponse(result') /\ result'.error = <<"http_status_error", "read_response">>
      BY <1>12, <2>2, OwnErrors, FailureTyped DEF Deliver, IsResponse, Results
    <3>2. AnswerOf = "failure" /\ AnswerOf' = "failure"
      BY <2>2, <3>1 DEF AnswerOf, IsResponse
    <3>3. QED
      BY <2>1, <3>2, SeenUnmoved DEF StageSeen, AnswerSeen
  <2>3. CASE ~(IsResponse(result) /\ StatusError)
    <3>1. result' = result
      BY <1>12, <2>3 DEF Deliver
    <3>2. AnswerOf' = AnswerOf
      BY <1>0, <3>1 DEF AnswerOf, IsResponse, StatusError
    <3>3. QED
      BY <2>1, <3>2, SeenUnmoved DEF StageSeen, AnswerSeen
  <2>4. QED
    BY <2>2, <2>3
<1>13. CASE RedirectFails
  <2>1. pc = "deliver" /\ pc' = "done" /\ ~Back /\ UNCHANGED <<cancelled, tries>>
    BY <1>13 DEF RedirectFails, Back
  <2>2. PICK error \in {<<"too_many_redirects", "redirect">>, <<"redirect_missing_location", "redirect">>,
                        <<"invalid_url", "redirect">>} : result' = Failure(error)
    BY <1>13 DEF RedirectFails
  <2>3. QED
    BY <1>2, <2>1, <2>2, OwnFailuresNamed
<1>14. CASE Redirect
  <2>1. pc' = "visit" /\ ~Back /\ UNCHANGED <<cancelled, tries>>
    BY <1>14 DEF Redirect, Back
  <2>2. QED
    BY <2>1, StillRunning DEF Back, WentOut
<1>15. CASE Cancel
  <2>1. cancelled' = TRUE /\ UNCHANGED <<pc, opt, result, tries>>
    BY <1>15 DEF Cancel
  <2>2. UNCHANGED <<StageSeen, AnswerSeen>>
    BY <2>1 DEF StageSeen, AnswerSeen, Back, AnswerOf, WentOut, IsResponse, Follows, StatusError
  <2>3. Contract!SetFlag
    BY <2>1, <2>2 DEF Contract!SetFlag, StageSeen, AnswerSeen, WentOut
  <2>4. QED
    BY <2>3 DEF Contract!Next
<1>16. CASE Tick \/ UNCHANGED vars
  <2>1. UNCHANGED <<pc, opt, result, tries, cancelled>>
    BY <1>16 DEF Tick, vars
  <2>2. UNCHANGED <<StageSeen, AnswerSeen>>
    BY <2>1 DEF StageSeen, AnswerSeen, Back, AnswerOf, WentOut, IsResponse, Follows, StatusError
  <2>3. QED
    BY <2>1, <2>2, SeenUnmoved
<1>17. QED
  BY <1>3, <1>4, <1>5, <1>6, <1>7, <1>8, <1>9, <1>10, <1>11, <1>12, <1>13, <1>14, <1>15, <1>16
     DEF Next, Once, Judge

\* Through every retry and redirect run() keeps its contract: a request cancelled
\* before its first attempt sends nothing, a response is only given when the last look
\* found no flag, and "cancelled" only when one was set.
THEOREM RunKeepsContract == Spec => KeepsRunContract
<1>1. QED
  BY Invariant, InitRefines, StepRefines, PTL DEF Spec, KeepsRunContract, Contract!Spec

-----------------------------------------------------------------------------
(* Budgets and waits, when no time overflows.                              *)

LEMMA Scaled ==
    ASSUME NEW a \in Int, NEW b \in Int
    PROVE  a <= b <=> a * NsPerMs <= b * NsPerMs
<1>1. NsPerMs \in Int /\ NsPerMs > 0
  BY DurationAssumption
<1>2. a <= b => a * NsPerMs <= b * NsPerMs
  BY <1>1
<1>3. a > b => a * NsPerMs > b * NsPerMs
  BY <1>1
<1>4. QED
  BY <1>1, <1>2, <1>3

\* What run() computes from the clock, in numbers that do not wrap.
LEMMA ClockFits ==
    ASSUME TimesFit, now \in 0..Total
    PROVE  /\ Time = now * NsPerMs /\ Deadline = Total * NsPerMs
           /\ Expired <=> now = Total
           /\ \A ms \in Nat : (Total + ms) * NsPerMs < Half =>
                  Later(Time, ms) = (now + ms) * NsPerMs
<1>1. /\ now \in Nat /\ Total \in Nat /\ now <= Total
      /\ Half \in Int /\ NsPerMs \in Nat /\ Total * NsPerMs < Half
  BY RunAssumption, DurationAssumption DEF TimesFit
<1>2. now * NsPerMs <= Total * NsPerMs /\ now * NsPerMs \in Int /\ Total * NsPerMs \in Int
  BY <1>1, Scaled
<1>3. Time = now * NsPerMs
  BY <1>1, <1>2, InClockFits DEF Time
<1>4. Deadline = Total * NsPerMs
  <2>1. 0 * NsPerMs = 0 /\ (0 + Total) * NsPerMs = Total * NsPerMs
    BY <1>1
  <2>2. InClock(0) = 0 /\ Later(InClock(0), Total) = Total * NsPerMs
    BY <1>1, <2>1, InClockFits, LaterFits, DurationAssumption
  <2>3. QED
    BY <2>2 DEF Deadline
<1>5. Expired <=> now = Total
  <2>1. now >= Total <=> now * NsPerMs >= Total * NsPerMs
    BY <1>1, Scaled
  <2>2. QED
    BY <1>1, <1>2, <1>3, <1>4, <2>1 DEF Expired
<1>6. ASSUME NEW ms \in Nat, (Total + ms) * NsPerMs < Half
      PROVE  Later(Time, ms) = (now + ms) * NsPerMs
  <2>1. (now + ms) * NsPerMs <= (Total + ms) * NsPerMs
    BY <1>1, Scaled
  <2>2. (now + ms) * NsPerMs < Half
    BY <1>1, <1>6, <2>1
  <2>3. QED
    BY <1>1, <2>2, LaterFits DEF Time
<1>7. QED
  BY <1>3, <1>4, <1>5, <1>6

\* A delay run() may choose fits, and one asked for by a server is what it asked for.
LEMMA DelaysFit ==
    ASSUME TimesFit
    PROVE  /\ \A backoff \in Backoffs :
                  backoff \in Nat /\ (Total + backoff) * NsPerMs < Half
           /\ \A wish \in Wishes : \A backoff :
                      /\ wish * MsPerSecond \in Nat
                      /\ DelayFor(wish, backoff) = wish * MsPerSecond
                      /\ (Total + wish * MsPerSecond) * NsPerMs < Half
<1>1. ASSUME NEW backoff \in Backoffs
      PROVE  backoff \in Nat /\ (Total + backoff) * NsPerMs < Half
  <2>1. backoff \in Nat
    BY RunAssumption
  <2>2. QED
    BY <2>1 DEF TimesFit
<1>2. ASSUME NEW wish \in Wishes
      PROVE  /\ wish * MsPerSecond \in Nat
             /\ RetryAfter(wish) = wish * MsPerSecond
             /\ (Total + wish * MsPerSecond) * NsPerMs < Half
  <2> DEFINE ms == wish * MsPerSecond
  <2>1. wish \in Nat /\ ms \in Nat /\ Total \in Nat /\ NsPerMs \in Nat \ {0}
    BY RunAssumption, DurationAssumption
  <2>2. (Total + ms) * NsPerMs < Half
    BY DEF TimesFit
  <2>3. ms <= MaxCount
    <3>1. (Total + ms) * NsPerMs >= (Total + ms) * 1
      BY <2>1
    <3>2. QED
      BY <2>1, <2>2, <3>1, DurationAssumption DEF MaxCount
  <2>4. RetryAfter(wish) = ms
    BY <2>1, <2>3, RetryAfterSaturates
  <2>5. QED
    BY <2>1, <2>2, <2>4
<1>3. QED
  BY <1>1, <1>2 DEF DelayFor

LEMMA InitTimedInv == Init => TimedInv
BY DEF Init, TimedInv, BudgetSpent, WaitsLongEnough

\* Errors that end a request at its first look at the URL or the flag are not retried.
LEMMA RefusalsNotRetried ==
    ASSUME NEW error, NEW stage, error \in {"cancelled", "invalid_url", "unsupported_scheme"}
    PROVE  ~ErrorRetryable(<<error, stage>>)
BY DEF ErrorRetryable

LEMMA StepBudgetSpent ==
    TimesFit /\ TypeOK /\ RunInv /\ TimedInv /\ [Next]_vars => BudgetSpent'
<1> SUFFICES ASSUME TimesFit, TypeOK, RunInv, TimedInv, [Next]_vars PROVE BudgetSpent'
  OBVIOUS
<1> USE DEF BudgetSpent, Goto, Return, target, history
<1>0. /\ BudgetSpent /\ CountersFit /\ VisitsCount /\ opt' = opt
      /\ attempt \in Nat /\ tries \in [Urls -> Nat] /\ url \in Urls /\ result \in Results
      /\ now \in 0..Total /\ opt.maxAttempts \in Nat
  BY OptionsFixed, PlainTypes DEF RunInv, TimedInv, TypeOK
<1>1. CASE Visit
  <2>1. CASE pc' = "done"
    BY <1>1, <2>1, OwnErrors, FailureTyped DEF Visit
  <2>2. CASE pc' = "once"
    <3>1. url \notin visited /\ attempt' = 1 /\ UNCHANGED <<url, tries>>
      BY <1>1, <2>2 DEF Visit, Visited, FreshBudget
    <3>2. tries[url] = 0
      BY <1>0, <3>1 DEF VisitsCount
    <3>3. QED
      BY <2>2, <3>1, <3>2
  <2>3. QED
    BY <1>1, <2>1, <2>2 DEF Visit
<1>2. CASE OnceRefuses
  <2>1. /\ pc = "once" /\ pc' = "judge" /\ UNCHANGED <<opt, url, attempt, now, tries>>
        /\ tries[url] = attempt - 1
    BY <1>0, <1>2 DEF OnceRefuses
  <2>2. ASSUME NEW error \in Errors, result' = Failure(error),
               ErrorRetryable(error) => now = Total
        PROVE  BudgetSpent'
    <3>1. ~IsResponse(result)' /\ result'.error = error /\ result'.retryable = FALSE
      BY <2>2, FailureTyped DEF IsResponse
    <3>2. Retryable' => now' = Total
      BY <2>1, <2>2, <3>1 DEF Retryable, ErrorRetryable, RetryMethod, IsResponse
    <3>3. QED
      BY <2>1, <3>1, <3>2
  <2>3. CASE result' = Failure(<<"cancelled", "none">>)
    BY <2>2, <2>3, OwnErrors, RefusalsNotRetried
  <2>4. CASE result' = Failure(<<"timeout", "none">>) /\ Expired
    BY <1>0, <2>2, <2>4, OwnErrors, ClockFits
  <2>5. ASSUME NEW error \in UrlErrors(url), result' = Failure(<<error, "parse_url">>)
        PROVE  BudgetSpent'
    <3>1. <<error, "parse_url">> \in Errors /\ error \in {"invalid_url", "unsupported_scheme"}
      BY OwnErrors, UrlErrorsRefused DEF UrlErrors
    <3>2. QED
      BY <2>2, <2>5, <3>1, RefusalsNotRetried
  <2>6. QED
    BY <1>2, <2>3, <2>4, <2>5 DEF OnceRefuses
<1>3. CASE OnceBegins
  <2>1. /\ pc = "once" /\ pc' = "connecting" /\ UNCHANGED <<url, attempt>>
        /\ tries' = [tries EXCEPT ![url] = @ + 1]
    BY <1>3 DEF OnceBegins
  <2>2. QED
    BY <1>0, <2>1
<1>4. CASE OnceGoesOut \/ OnceAnswers \/ OnceFails
  <2>1. /\ pc \in {"connecting", "network"} /\ UNCHANGED <<url, attempt, tries>>
        /\ pc' = "network" \/ (pc' = "judge" /\ result'.retryable = FALSE)
    BY <1>4, OwnErrors, FailureTyped, ResponseTyped DEF OnceGoesOut, OnceAnswers, OnceFails
  <2>2. QED
    BY <1>0, <2>1
<1>5. CASE JudgeOver
  <2>1. /\ pc = "judge" /\ pc' = "deliver" /\ UNCHANGED <<url, attempt, tries, now>>
        /\ ~Retryable \/ ~RetryMethod \/ LastAttempt
        /\ result'.retryable = IF IsResponse(result) THEN result.retryable ELSE Retryable
    BY <1>0, <1>5, NotedTyped DEF JudgeOver
  <2>2. ASSUME result'.retryable
        PROVE  tries[url] + (IF now = Total THEN 1 ELSE 0) >= opt.maxAttempts
    <3>1. ~IsResponse(result) /\ Retryable
      BY <1>0, <2>1, <2>2
    <3>2. attempt = opt.maxAttempts
      BY <2>1, <3>1 DEF Retryable, ErrorRetryable, LastAttempt
    <3>3. QED
      BY <1>0, <2>1, <3>1, <3>2
  <2>3. QED
    BY <1>0, <2>1, <2>2
<1>6. CASE JudgeRetry
  <2>1. CASE pc' = "done"
    <3>1. result' = Failure(<<"timeout", "retry_wait">>)
      BY <1>6, <2>1 DEF JudgeRetry, WaitFor
    <3>2. result'.retryable = FALSE
      BY <3>1 DEF Failure
    <3>3. QED
      BY <2>1, <3>2
  <2>2. CASE pc' = "pause"
    <3>1. pc = "judge" /\ Retryable /\ UNCHANGED <<url, attempt, tries>>
      BY <1>6, <2>2 DEF JudgeRetry, WaitFor
    <3>2. tries[url] = attempt
      <4> SUFFICES ASSUME tries[url] # attempt PROVE FALSE
        OBVIOUS
      <4>1. now = Total /\ ~IsResponse(result)
        BY <1>0, <3>1
      <4>2. PICK backoff \in Backoffs : Later(Time, backoff) < Deadline
        BY <1>6, <2>2, <4>1 DEF JudgeRetry, WaitFor, IsResponse
      <4>3. backoff \in Nat /\ Later(Time, backoff) = (Total + backoff) * NsPerMs
        BY <1>0, <4>1, ClockFits, DelaysFit
      <4>4. Total * NsPerMs <= (Total + backoff) * NsPerMs
        BY <4>3, RunAssumption, Scaled
      <4>5. Total * NsPerMs \in Int /\ (Total + backoff) * NsPerMs \in Int
        BY <4>3, RunAssumption, DurationAssumption
      <4>6. QED
        BY <1>0, <4>2, <4>3, <4>4, <4>5, ClockFits
    <3>3. QED
      BY <2>2, <3>1, <3>2
  <2>3. QED
    BY <1>6, <2>1, <2>2 DEF JudgeRetry, WaitFor
<1>7. CASE StartWait
  BY <1>0, <1>7 DEF StartWait
<1>8. CASE WaitEnds
  <2>1. CASE pc' = "done"
    BY <1>8, <2>1, OwnErrors, FailureTyped DEF WaitEnds
  <2>2. CASE pc' = "once"
    BY <1>0, <1>8, <2>2 DEF WaitEnds
  <2>3. QED
    BY <1>8, <2>1, <2>2 DEF WaitEnds
<1>9. CASE Validate \/ JudgeCancelled \/ RedirectFails
  <2>1. pc' = "visit" \/ (pc' = "done" /\ result'.retryable = FALSE)
    BY <1>9, OwnErrors, FailureTyped DEF Validate, JudgeCancelled, RedirectFails
  <2>2. QED
    BY <2>1
<1>10. CASE Deliver
  <2>1. /\ pc = "deliver" /\ pc' = "done" /\ UNCHANGED <<url, tries, now>>
        /\ result' = result \/ result'.retryable = FALSE
    BY <1>10, OwnErrors, FailureTyped DEF Deliver, Results
  <2>2. QED
    BY <1>0, <2>1
<1>11. CASE Redirect
  BY <1>11 DEF Redirect
<1>12. CASE Cancel \/ UNCHANGED vars
  <2>1. UNCHANGED <<pc, opt, url, attempt, tries, now, result>>
    BY <1>12 DEF Cancel, vars
  <2>2. Retryable' = Retryable /\ IsResponse(result)' = IsResponse(result)
    BY <2>1 DEF Retryable, StatusRetryable, ErrorRetryable, RetryMethod, IsResponse
  <2>3. QED
    BY <1>0, <2>1, <2>2
<1>13. CASE Tick
  <2>1. UNCHANGED <<pc, opt, url, attempt, tries, result>> /\ now < Total
    BY <1>13 DEF Tick
  <2>2. Retryable' = Retryable /\ IsResponse(result)' = IsResponse(result)
    BY <2>1 DEF Retryable, StatusRetryable, ErrorRetryable, RetryMethod, IsResponse
  <2>3. now # Total
    BY <1>0, <2>1, RunAssumption
  <2>4. QED
    BY <1>0, <2>1, <2>2, <2>3
<1>14. QED
  BY <1>1, <1>2, <1>3, <1>4, <1>5, <1>6, <1>7, <1>8, <1>9, <1>10, <1>11, <1>12, <1>13
     DEF Next, Once, Judge

LEMMA StepWaitsLongEnough ==
    TimesFit /\ TypeOK /\ TimedInv /\ [Next]_vars => WaitsLongEnough'
<1> SUFFICES ASSUME TimesFit, TypeOK, TimedInv, [Next]_vars PROVE WaitsLongEnough'
  OBVIOUS
<1> USE DEF WaitsLongEnough, Goto, Return, waiting, history
<1>0. /\ WaitsLongEnough
      /\ now \in 0..Total /\ asked \in 0..Total /\ Total \in Nat /\ delay \in Nat
      /\ NsPerMs \in Nat /\ now \in Nat /\ asked \in Nat /\ until \in Int
  BY RunAssumption, DurationAssumption, CountsAreIntegers DEF TimedInv, TypeOK
<1>1. CASE Validate \/ Visit \/ Once
  BY <1>0, <1>1 DEF Validate, Visit, Once, OnceRefuses, OnceBegins, OnceGoesOut, OnceAnswers, OnceFails
<1>2. CASE JudgeCancelled \/ JudgeOver
  BY <1>0, <1>2 DEF JudgeCancelled, JudgeOver
<1>3. CASE JudgeRetry
  <2>1. pc = "judge" /\ pc' \in {"pause", "done"} /\ now' = now
    BY <1>3 DEF JudgeRetry, WaitFor
  <2>2. CASE delay' \in Backoffs /\ asked' = asked
    BY <1>0, <2>1, <2>2, DelaysFit
  <2>3. ASSUME NEW wish \in Wishes, NEW backoff, delay' = DelayFor(wish, backoff),
               asked' = AtMostTotal(now + wish * MsPerSecond)
        PROVE  WaitsLongEnough'
    <3>1. /\ wish * MsPerSecond \in Nat /\ delay' = wish * MsPerSecond
          /\ (Total + wish * MsPerSecond) * NsPerMs < Half
      BY <2>3, DelaysFit
    <3>2. asked' <= now + delay'
      BY <1>0, <2>3, <3>1 DEF AtMostTotal
    <3>3. now' + delay' >= asked' /\ (Total + delay') * NsPerMs < Half
      BY <1>0, <2>1, <2>3, <3>1, <3>2 DEF AtMostTotal
    <3>4. QED
      BY <2>1, <3>3
  <2>4. QED
    BY <1>3, <2>2, <2>3 DEF JudgeRetry, WaitFor
<1>4. CASE StartWait
  <2>1. pc = "pause" /\ pc' = "wait" /\ asked' = asked
    BY <1>4 DEF StartWait
  <2>2. Later(Time, delay) = (now + delay) * NsPerMs /\ Deadline = Total * NsPerMs
    BY <1>0, <2>1, ClockFits
  <2>3. until' \in {(now + delay) * NsPerMs, Total * NsPerMs}
    BY <1>4, <2>2 DEF StartWait
  <2>4. asked <= now + delay /\ asked <= Total
    BY <1>0, <2>1
  <2>5. asked * NsPerMs <= (now + delay) * NsPerMs /\ asked * NsPerMs <= Total * NsPerMs
    BY <1>0, <2>4, Scaled
  <2>6. until' >= asked' * NsPerMs
    BY <1>0, <2>1, <2>3, <2>5
  <2>7. QED
    BY <2>1, <2>6
<1>5. CASE WaitEnds
  <2>1. CASE pc' = "done"
    BY <2>1
  <2>2. CASE pc' = "once"
    <3>1. pc = "wait" /\ Time >= until /\ UNCHANGED <<now, asked>>
      BY <1>5, <2>2 DEF WaitEnds
    <3>2. now * NsPerMs >= asked * NsPerMs
      <4>1. Time = now * NsPerMs /\ until >= asked * NsPerMs
        BY <1>0, <3>1, ClockFits
      <4>2. now * NsPerMs \in Int /\ asked * NsPerMs \in Int
        BY <1>0
      <4>3. QED
        BY <1>0, <3>1, <4>1, <4>2
    <3>3. now >= asked
      BY <1>0, <3>2, Scaled
    <3>4. QED
      BY <2>2, <3>1, <3>3
  <2>3. QED
    BY <1>5, <2>1, <2>2 DEF WaitEnds
<1>6. CASE Deliver \/ RedirectFails
  BY <1>0, <1>6 DEF Deliver, RedirectFails
<1>7. CASE Redirect
  BY <1>0, <1>7 DEF Redirect
<1>8. CASE Cancel \/ UNCHANGED vars
  BY <1>0, <1>8 DEF Cancel, vars
<1>9. CASE Tick
  BY <1>0, <1>9 DEF Tick
<1>10. QED
  BY <1>1, <1>2, <1>3, <1>4, <1>5, <1>6, <1>7, <1>8, <1>9 DEF Next, Judge

LEMMA TimedInvariance ==
    ASSUME TimesFit
    PROVE  Spec => [](TypeOK /\ RunInv /\ TimedInv)
<1>1. Init => TypeOK /\ RunInv /\ TimedInv
  BY InitTypeOK, InitRunInv, InitTimedInv
<1>2. TypeOK /\ RunInv /\ TimedInv /\ [Next]_vars => TimedInv'
  BY TimesFit, StepBudgetSpent, StepWaitsLongEnough DEF TimedInv
<1>3. QED
  BY <1>1, <1>2, Invariant, PTL DEF Spec

\* Attempts are used up and waits are long enough in every state, if times fit.
THEOREM TimedInvariant ==
    ASSUME TimesFit
    PROVE  Spec => []TimedInv
<1>1. QED
  BY TimesFit, TimedInvariance, PTL

\* A retryable error is only handed out when the budget of its location is used up.
THEOREM BudgetsAreUsedUp ==
    ASSUME TimesFit
    PROVE  Spec => []RetryableMeansExhausted
<1>1. TimedInv => RetryableMeansExhausted
  BY DEF TimedInv, BudgetSpent, RetryableMeansExhausted
<1>2. QED
  BY <1>1, TimesFit, TimedInvariance, PTL

\* A location whose server asked for time is left alone that long.
THEOREM ServersGetTheirTime ==
    ASSUME TimesFit
    PROVE  Spec => RetryAfterRespected
<1>0. [Next]_vars => OnceBegins \/ tries' = tries
  BY DEF Next, vars, history, Once, Judge, Validate, Visit, OnceRefuses, OnceGoesOut,
     OnceAnswers, OnceFails, JudgeCancelled, JudgeOver, JudgeRetry, WaitFor, StartWait,
     WaitEnds, Deliver, RedirectFails, Redirect, Cancel, Tick
<1> DEFINE Patient == tries' # tries => now >= asked
<1>1. ASSUME TypeOK, TimedInv, [Next]_vars PROVE [Patient]_vars
  <2> SUFFICES ASSUME OnceBegins PROVE now >= asked
    BY <1>0, <1>1
  <2>1. pc = "once"
    BY DEF OnceBegins, Goto
  <2>2. QED
    BY <1>1, <2>1 DEF TimedInv, WaitsLongEnough
<1>2. QED
  BY <1>1, TimesFit, TimedInvariance, PTL DEF Spec, RetryAfterRespected

=============================================================================

----------------------- MODULE AcceptanceTesterProofs -----------------------
(***************************************************************************)
(* Proofs about AcceptanceTester, for any plan of transfers and any number *)
(* of workers.  The client inside is the pool of ClientPool, so all that   *)
(* ClientPoolProofs says of it holds here, and main()'s own invariant can  *)
(* rest on it.                                                             *)
(***************************************************************************)
EXTENDS AcceptanceTester, ClientPoolProofs

-----------------------------------------------------------------------------
(* The client inside.                                                      *)

LEMMA TesterThread == Tester \in Threads
BY TesterAssumption DEF Threads

LEMMA TesterStepsClient == [TesterNext]_tvars => [Next]_vars
<1> SUFFICES ASSUME [TesterNext]_tvars PROVE [Next]_vars
  OBVIOUS
<1>1. CASE UNCHANGED tvars
  BY <1>1 DEF tvars
<1>2. CASE Main
  <2>1. CASE TransferSync \/ TransferAsync
    BY <2>1, TesterThread DEF TransferSync, TransferAsync, Next, Submit
  <2>2. CASE DestroyClient
    BY <2>2, TesterThread DEF DestroyClient, Next
  <2>3. CASE ReadArguments \/ ReadFails \/ CheckHandle \/ GetResult
    BY <2>3 DEF ReadArguments, ReadFails, CheckHandle, GetResult
  <2>4. QED
    BY <1>2, <2>1, <2>2, <2>3 DEF Main
<1>3. CASE ClientStep
  BY <1>3 DEF ClientStep, MakeClient, Next
<1>4. QED
  BY <1>1, <1>2, <1>3 DEF TesterNext

\* Whatever main() does with its client, the client is the pool.
THEOREM ClientInside == TesterSpec => Spec
<1>1. TesterInit => Init
  BY DEF TesterInit
<1>2. QED
  BY <1>1, TesterStepsClient, PTL DEF TesterSpec, Spec

-----------------------------------------------------------------------------
(* Types.                                                                  *)

LEMMA PlanFacts ==
    /\ Len(Plan) \in Nat \ {0} /\ DOMAIN Plan = 1..Len(Plan)
    /\ \A i \in DOMAIN Plan : Plan[i] \in Reqs
BY TesterAssumption

LEMMA InitTesterTypeOK == TesterInit => TesterTypeOK
BY PlanFacts DEF TesterInit, TesterTypeOK, TesterPC

LEMMA StepTesterTypeOK == TesterTypeOK /\ [TesterNext]_tvars => TesterTypeOK'
<1> SUFFICES ASSUME TesterTypeOK, [TesterNext]_tvars PROVE TesterTypeOK'
  OBVIOUS
<1> USE DEF TesterTypeOK, TesterPC
<1>0. \A answer : CodesOf(answer) \subseteq TlsCodes \cup {"other", "none"}
  BY DEF CodesOf
<1>1. CASE UNCHANGED tester
  BY <1>1 DEF tester
<1>2. CASE GetResult
  <2>1. /\ mode' = mode /\ tpc' \in {"pass", "call", "fail"}
        /\ code' \in TlsCodes \cup {"other", "none"}
    BY <1>0, <1>2 DEF GetResult
  <2>2. stage' = stage \/ (stage' = stage + 1 /\ stage # Len(Plan))
    BY <1>2 DEF GetResult, LastStage
  <2>3. stage \in 1..Len(Plan) /\ Len(Plan) \in Nat
    BY PlanFacts
  <2>4. stage' \in 1..Len(Plan)
    BY <2>2, <2>3
  <2>5. QED
    BY <2>1, <2>4, PlanFacts
<1>3. CASE Main /\ ~GetResult
  BY <1>3 DEF Main, ReadArguments, ReadFails, TransferSync, TransferAsync, CheckHandle,
              DestroyClient
<1>4. QED
  BY <1>1, <1>2, <1>3 DEF TesterNext, ClientStep, tvars

-----------------------------------------------------------------------------
(* The inductive invariant.                                                *)

LEMMA CurrentIsRequest == TesterTypeOK => Current \in Reqs
BY PlanFacts, TesterAssumption DEF TesterTypeOK, Current, Reqs

LEMMA InitTesterInv == TesterInit => TesterInv
BY PlanFacts DEF TesterInit, Init, TesterInv, AsyncPromised, EarnedSoFar, ProbeFailed

\* The steps of the client's own threads register nothing.
LEMMA ClientStepsRegister ==
    ASSUME ClientStep PROVE requests' \subseteq requests
<1> USE DEF ctor, queue
<1>1. CASE MakeClient
  BY <1>1 DEF MakeClient, Construct, Spawn, SpawnFails, FailedStartNotifies, FailedStartJoins
<1>2. ASSUME NEW t \in Threads, Run(t) \/ Stop(t) PROVE requests' \subseteq requests
  BY <1>2 DEF Run, RunEndsEarly, RunGoesOut, RunComesBack, RunThrows, Finish, Erased,
              Stop, StopSweeps, StopNotifies, StopJoins
<1>3. ASSUME NEW w \in Workers, Loop(w) \/ SpuriousWake(w) \/ HandlerReturns(w)
      PROVE  requests' \subseteq requests
  BY <1>3 DEF Loop, Take, Exit, Doze, Block, SpuriousWake, HandlerReturns
<1>4. QED
  BY <1>1, <1>2, <1>3 DEF ClientStep

\* main() stays in the block of an asynchronous transfer until the client is done
\* with it: it leaves by the answer, or because the State is gone.
LEMMA StepAsyncPromised ==
    TypeOK /\ PoolInv /\ TesterTypeOK /\ TesterInv /\ [TesterNext]_tvars => AsyncPromised'
<1> SUFFICES ASSUME TypeOK, PoolInv, TesterTypeOK, TesterInv, [TesterNext]_tvars
             PROVE  AsyncPromised'
  OBVIOUS
<1> USE DEF queue
<1>0. AsyncPromised /\ PendingUnanswered /\ AsyncReqs \cap SyncReqs = {}
  BY PoolAssumption DEF TesterInv, PoolInv, RegistryInv
<1>1. ASSUME UNCHANGED tester, requests' \subseteq requests PROVE AsyncPromised'
  BY <1>0, <1>1 DEF AsyncPromised, PromiseOf, Current, tester
<1>2. CASE UNCHANGED tvars
  BY <1>1, <1>2 DEF tvars, vars
<1>3. CASE ClientStep
  BY <1>1, <1>3, ClientStepsRegister DEF ClientStep
<1>4. CASE TransferSync
  <2>1. requests \cap AsyncReqs = {}
    BY <1>0, <1>4 DEF TransferSync, AsyncPromised, PromiseOf
  <2>2. requests' = requests \cup {Current} /\ Current \in SyncReqs
    BY <1>4 DEF TransferSync, BeginSync
  <2>3. QED
    BY <1>0, <2>1, <2>2 DEF AsyncPromised
<1>5. CASE TransferAsync
  <2>1. requests \cap AsyncReqs = {}
    BY <1>0, <1>5 DEF TransferAsync, AsyncPromised, PromiseOf
  <2>2. requests' = requests \cup {Current} /\ tpc' = "check" /\ UNCHANGED <<mode, stage, code>>
    BY <1>5 DEF TransferAsync, AcceptAsync
  <2>3. QED
    BY <2>1, <2>2 DEF AsyncPromised, PromiseOf, Current
<1>6. CASE CheckHandle
  <2>1. requests' = requests /\ tpc = "check" /\ UNCHANGED <<mode, stage, code>>
        /\ tpc' = IF Current \in requests THEN "get" ELSE tpc'
    BY <1>6 DEF CheckHandle, Valid, Alive, vars
  <2>2. QED
    BY <1>0, <2>1 DEF AsyncPromised, PromiseOf, Current
<1>7. CASE GetResult
  <2>1. Current \notin requests /\ requests' = requests
    BY <1>0, <1>7 DEF GetResult, PendingUnanswered, vars
  <2>2. requests \cap AsyncReqs = {}
    BY <1>0, <2>1 DEF AsyncPromised, PromiseOf
  <2>3. QED
    BY <2>1, <2>2 DEF AsyncPromised
<1>8. CASE ReadArguments \/ ReadFails \/ DestroyClient
  <2>1. tpc \notin {"check", "get"} /\ requests' = requests
    BY <1>8 DEF ReadArguments, ReadFails, DestroyClient, StopCall, vars
  <2>2. QED
    BY <1>0, <2>1 DEF AsyncPromised, PromiseOf
<1>9. QED
  BY <1>2, <1>3, <1>4, <1>5, <1>6, <1>7, <1>8 DEF TesterNext, Main

\* An answer main() has seen stays what it was, and main() only goes on from one it
\* wants.
LEMMA StepEarned ==
    TypeOK /\ PoolInv /\ TesterTypeOK /\ TesterInv /\ [TesterNext]_tvars =>
        EarnedSoFar' /\ ProbeFailed'
<1> SUFFICES ASSUME TypeOK, PoolInv, TesterTypeOK, TesterInv, [TesterNext]_tvars
             PROVE  EarnedSoFar' /\ ProbeFailed'
  OBVIOUS
<1>0. EarnedSoFar /\ ProbeFailed /\ Probe \in Reqs /\ \A i \in DOMAIN Plan : Plan[i] \in Reqs
  BY PlanFacts, TesterAssumption DEF TesterInv, Reqs
<1>1. \A r \in Reqs : completions[r] = 1 => completions'[r] = 1 /\ result'[r] = result[r]
  BY TesterStepsClient, AnswersAreFinal
<1>2. ASSUME UNCHANGED <<mode, stage, code>>, tpc' \in {"pass", "PASS"} => tpc \in {"pass", "PASS"}
      PROVE  EarnedSoFar' /\ ProbeFailed'
  BY <1>0, <1>1, <1>2 DEF EarnedSoFar, ProbeFailed
<1>3. CASE UNCHANGED tester
  BY <1>2, <1>3 DEF tester
<1>4. CASE GetResult /\ Succeeded(code')
  <2>1. /\ tpc = "get" /\ mode' = mode /\ completions[Current] = 1
        /\ result[Current] = IF mode = "tls" THEN "failure" ELSE "response"
        /\ mode = "tls" => code' \in TlsCodes
        /\ UNCHANGED vars
    BY <1>4 DEF GetResult, Succeeded, CodesOf, TlsCodes
  <2>2. CASE mode = "tls"
    <3>1. Current = Probe
      BY <2>2 DEF Current
    <3>2. QED
      BY <1>1, <1>0, <2>1, <2>2, <3>1 DEF EarnedSoFar, ProbeFailed
  <2>3. CASE mode = "transfers"
    <3>1. Current = Plan[stage] /\ stage \in DOMAIN Plan
      BY <2>3 DEF Current, TesterTypeOK
    <3>2. \A i \in DOMAIN Plan : i <= stage =>
              completions'[Plan[i]] = 1 /\ result'[Plan[i]] = "response"
      BY <1>0, <1>1, <2>1, <2>3, <3>1, PlanFacts DEF EarnedSoFar
    <3>3. \/ stage' = stage + 1 /\ tpc' \notin {"pass", "PASS"}
          \/ stage' = stage /\ tpc' \notin {"pass", "PASS"}
          \/ stage' = stage /\ stage = Len(Plan)
      BY <1>4, <2>3 DEF GetResult, LastStage
    <3>4. EarnedSoFar'
      BY <3>1, <3>2, <3>3, PlanFacts DEF EarnedSoFar
    <3>5. ProbeFailed'
      BY <2>1, <2>3 DEF ProbeFailed
    <3>6. QED
      BY <3>4, <3>5
  <2>4. QED
    BY <2>2, <2>3 DEF TesterTypeOK
<1>5. CASE GetResult /\ ~Succeeded(code')
  <2>1. tpc' = "fail" /\ UNCHANGED <<mode, stage>>
    BY <1>5 DEF GetResult
  <2>2. QED
    BY <1>0, <1>1, <2>1 DEF EarnedSoFar, ProbeFailed
<1>6. CASE DestroyClient
  BY <1>2, <1>6 DEF DestroyClient
<1>7. CASE ReadArguments \/ ReadFails \/ TransferSync \/ TransferAsync \/ CheckHandle
  BY <1>2, <1>7 DEF ReadArguments, ReadFails, TransferSync, TransferAsync, CheckHandle
<1>8. QED
  BY <1>3, <1>4, <1>5, <1>6, <1>7 DEF TesterNext, Main, ClientStep, tvars

LEMMA TesterInvariance == TesterSpec => [](TypeOK /\ PoolInv /\ TesterTypeOK /\ TesterInv)
<1>1. TesterInit => TesterTypeOK /\ TesterInv
  BY InitTesterTypeOK, InitTesterInv
<1>2. TypeOK /\ PoolInv /\ TesterTypeOK /\ TesterInv /\ [TesterNext]_tvars
          => TesterTypeOK' /\ TesterInv'
  BY StepTesterTypeOK, StepAsyncPromised, StepEarned DEF TesterInv
<1>3. QED
  BY <1>1, <1>2, ClientInside, Invariant, PTL DEF TesterSpec

\* Type correctness: main() never runs past the end of its plan.
THEOREM TesterTypeCorrect == TesterSpec => []TesterTypeOK
<1>1. QED
  BY TesterInvariance, PTL

\* main() and its client agree in every state.
THEOREM TesterInvariant == TesterSpec => []TesterInv
<1>1. QED
  BY TesterInvariance, PTL

\* PASS is only printed when every transfer was answered as it should be: four times
\* with a response, or once with a failure of TLS.
THEOREM VerdictIsEarned == TesterSpec => []PassIsEarned
<1>1. TesterTypeOK /\ TesterInv => PassIsEarned
  BY DEF TesterTypeOK, TesterInv, EarnedSoFar, ProbeFailed, PassIsEarned
<1>2. QED
  BY <1>1, TesterInvariance, PTL

\* The promise a completion handler refers to is there when the handler is entered.
THEOREM PromiseIsThere == TesterSpec => HandlerFindsPromise
<1>1. ASSUME TypeOK, PoolInv, TesterTypeOK, TesterInv, [TesterNext]_tvars
      PROVE  [\A r \in AsyncReqs : completions'[r] > completions[r] => PromiseOf(r)]_tvars
  <2> SUFFICES ASSUME NEW r \in AsyncReqs, completions'[r] > completions[r] PROVE r \in requests
    BY <1>1 DEF TesterInv, AsyncPromised
  <2> USE DEF answers
  <2>1. completions \in [Reqs -> Nat] /\ r \in Reqs /\ ~(completions[r] > completions[r])
        /\ CallsRegistered
    BY <1>1 DEF TypeOK, Reqs, PoolInv, RegistryInv
  <2>2. completions' # completions
    BY <2>1
  <2>3. PICK t \in Threads : Finish(t)
    <3>1. ~UNCHANGED vars
      BY <2>2 DEF vars
    <3>2. ~Main
      BY <2>2, <3>1 DEF Main, ReadArguments, ReadFails, TransferSync, BeginSync, TransferAsync,
                        AcceptAsync, CheckHandle, GetResult, DestroyClient, StopCall
    <3>3. ~Construct
      BY <2>2 DEF Construct, Spawn, SpawnFails, FailedStartNotifies, FailedStartJoins
    <3>4. \A t \in Threads : (Run(t) => Finish(t)) /\ ~Stop(t)
      BY <2>2 DEF Run, RunEndsEarly, RunGoesOut, RunComesBack, RunThrows, Stop, StopSweeps,
                  StopNotifies, StopJoins
    <3>5. \A w \in Workers : ~Loop(w) /\ ~SpuriousWake(w) /\ ~HandlerReturns(w)
      BY <2>2 DEF Loop, Take, Exit, Doze, Block, SpuriousWake, HandlerReturns
    <3>6. QED
      BY <1>1, <3>1, <3>2, <3>3, <3>4, <3>5 DEF TesterNext, ClientStep, MakeClient, tvars
  <2>4. call[t] = r
    BY <2>1, <2>3 DEF Finish
  <2>5. QED
    BY <2>1, <2>3, <2>4 DEF Finish, Goto, CallsRegistered, InCall
<1>2. QED
  BY <1>1, TesterInvariance, PTL DEF TesterSpec, HandlerFindsPromise
=============================================================================

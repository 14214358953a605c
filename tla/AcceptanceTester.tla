-------------------------- MODULE AcceptanceTester --------------------------
(***************************************************************************)
(* SteadyHttpTester/src/main.cpp: a program thread that makes the client,  *)
(* transfers one file four times, synchronously and then asynchronously,   *)
(* and prints PASS or FAIL; or, told to expect a TLS failure, makes one    *)
(* download and prints PASS if that is how it fails.  The client is module *)
(* ClientPool: each step of the tester that calls it is that module's step *)
(* for the tester's thread.  An asynchronous transfer owns a promise on    *)
(* the stack of its block; its completion handler holds a reference to it. *)
(***************************************************************************)
EXTENDS ClientPool

CONSTANTS Tester,   \* the thread that runs main()
          Plan,     \* the four transfers, in order: upload, download, and again
          Probe     \* the download that is to fail

ASSUME TesterAssumption ==
    /\ Callers = {Tester}
    /\ Plan \in Seq(Reqs)
    /\ Plan # << >>
    /\ Probe \in SyncReqs

VARIABLES mode,     \* "tls" with --expect-tls-failure, "transfers" without
          stage,    \* which transfer
          code,     \* the code of the failure main() looked at last
          tpc       \* where main() is

tester == <<mode, stage, code, tpc>>
tvars == <<vars, tester>>

\* The pool tells a failure from a response; which code it has matters to the TLS
\* mode alone, which takes two of them for the failure it expects.
TlsCodes == {"certificate_verification_failed", "tls_handshake_failed"}
CodesOf(answer) == IF answer = "failure" THEN TlsCodes \cup {"other"} ELSE {"none"}

TesterPC == {"arguments", "call", "check", "get", "pass", "fail", "PASS", "FAIL", "usage"}
TesterTypeOK ==
    /\ mode \in {"transfers", "tls"}
    /\ stage \in DOMAIN Plan
    /\ code \in TlsCodes \cup {"other", "none"}
    /\ tpc \in TesterPC

TesterInit ==
    /\ Init
    /\ mode \in {"transfers", "tls"}
    /\ stage = 1
    /\ code = "none"
    /\ tpc = "arguments"

Current == IF mode = "tls" THEN Probe ELSE Plan[stage]
IsUpload == mode = "transfers" /\ stage % 2 = 1

\* The promise of an asynchronous transfer exists: main() is in its block.
PromiseOf(r) == r = Current /\ tpc \in {"check", "get"}

-----------------------------------------------------------------------------
(* Steps of main().                                                        *)

\* The arguments and the file are looked at before there is a client.
ReadArguments ==
    /\ tpc = "arguments"
    /\ tpc' \in {"call", "usage", "FAIL"}
    /\ UNCHANGED <<vars, mode, stage, code>>

\* read_file() throws before an upload.
ReadFails ==
    /\ tpc = "call"
    /\ IsUpload
    /\ MayCall(Tester)
    /\ tpc' = "fail"
    /\ UNCHANGED <<vars, mode, stage, code>>

TransferSync ==
    /\ tpc = "call"
    /\ Current \in SyncReqs
    /\ BeginSync(Tester, Current)
    /\ tpc' = "get"
    /\ UNCHANGED <<mode, stage, code>>

TransferAsync ==
    /\ tpc = "call"
    /\ Current \in AsyncReqs
    /\ AcceptAsync(Tester, Current)
    /\ tpc' = "check"
    /\ UNCHANGED <<mode, stage, code>>

\* RequestHandle::valid(): the weak pointer still finds the State.
NeverValid == FALSE
Valid == Alive(Current)

CheckHandle ==
    /\ tpc = "check"
    /\ tpc' = IF Valid THEN "get" ELSE "fail"
    /\ UNCHANGED <<vars, mode, stage, code>>

\* The call returned, or future.get() did.  require_success() throws on an error; the
\* TLS mode throws on a response and hands it every error but the two it expects.
AnySuccess(c) == TRUE
Succeeded(c) == IF mode = "tls" THEN c \in TlsCodes ELSE result[Current] = "response"

\* The transfer just done was the last.
NeverLast == FALSE
LastStage == mode = "tls" \/ stage = Len(Plan)

\* A download of another size than the file's FAILs as well.
GetResult ==
    /\ tpc = "get"
    /\ pc[Tester] = "idle"
    /\ completions[Current] = 1
    /\ code' \in CodesOf(result[Current])
    /\ \/ /\ Succeeded(code')
          /\ IF LastStage THEN tpc' = "pass" /\ UNCHANGED stage
             ELSE tpc' = "call" /\ stage' = stage + 1
       \/ /\ ~Succeeded(code') \/ (mode = "transfers" /\ ~IsUpload)
          /\ tpc' = "fail"
          /\ UNCHANGED stage
    /\ UNCHANGED <<vars, mode>>

\* The client is destroyed at the end of main(), or while an exception unwinds it.
DestroyClient ==
    /\ tpc \in {"pass", "fail"}
    /\ StopCall(Tester)
    /\ tpc' = IF tpc = "pass" THEN "PASS" ELSE "FAIL"
    /\ UNCHANGED <<mode, stage, code>>

-----------------------------------------------------------------------------
(* The client's own steps: its constructor, its workers, and what the      *)
(* tester's thread does inside a call.                                     *)

MakeClient == tpc = "call" /\ Construct

ClientStep ==
    /\ \/ MakeClient
       \/ \E t \in Threads : Run(t) \/ Stop(t)
       \/ \E w \in Workers : Loop(w) \/ SpuriousWake(w) \/ HandlerReturns(w)
    /\ UNCHANGED tester

Main ==
    \/ ReadArguments \/ ReadFails \/ TransferSync \/ TransferAsync
    \/ CheckHandle \/ GetResult \/ DestroyClient

TesterNext == Main \/ ClientStep

TesterSpec == TesterInit /\ [][TesterNext]_tvars

\* Threads run, attempts end, and the mutex is had in the end, by main()'s
\* submissions as well.
TesterFairness ==
    /\ SF_tvars(Main)
    /\ WF_tvars(MakeClient /\ UNCHANGED tester)
    /\ \A t \in Threads :
          /\ WF_tvars((Run(t) \/ Stop(t)) /\ UNCHANGED tester)
          /\ SF_tvars(Finish(t) /\ UNCHANGED tester)
    /\ \A w \in Workers : WF_tvars((Loop(w) \/ HandlerReturns(w)) /\ UNCHANGED tester)

FairTesterSpec == TesterSpec /\ TesterFairness

-----------------------------------------------------------------------------
(* Properties.                                                             *)

\* No completion handler is entered once its promise is gone, not even when main()
\* unwinds after a failed check: a handle that is no longer valid belongs to a
\* request whose handler has already returned.
HandlerFindsPromise ==
    [][\A r \in AsyncReqs : completions'[r] > completions[r] => PromiseOf(r)]_tvars

\* PASS is only printed after four answers that are responses or, when a TLS failure
\* is expected, after one that failed with a code that tells of it.
PassIsEarned ==
    tpc \in {"pass", "PASS"} =>
        IF mode = "tls" THEN result[Probe] = "failure" /\ code \in TlsCodes
        ELSE \A i \in DOMAIN Plan : completions[Plan[i]] = 1 /\ result[Plan[i]] = "response"

\* main() comes to a verdict and the client's destructor lets it return, if every
\* attempt ends by itself.
TesterEnds == <>(tpc \in {"PASS", "FAIL", "usage"} /\ pc[Tester] = "idle")

-----------------------------------------------------------------------------
(* What the safety properties rest on.                                     *)

\* As long as the client has an asynchronous request, main() is in its block.
AsyncPromised == \A r \in requests \cap AsyncReqs : PromiseOf(r)

\* main() got a response for every transfer behind it, and a failure where it wants one.
EarnedSoFar ==
    \A i \in DOMAIN Plan :
        mode = "transfers" /\ (i < stage \/ tpc \in {"pass", "PASS"}) =>
            completions[Plan[i]] = 1 /\ result[Plan[i]] = "response"

ProbeFailed ==
    mode = "tls" /\ tpc \in {"pass", "PASS"} =>
        completions[Probe] = 1 /\ result[Probe] = "failure" /\ code \in TlsCodes

\* The inductive invariant of main(), on top of the pool's.
TesterInv == AsyncPromised /\ EarnedSoFar /\ ProbeFailed
=============================================================================

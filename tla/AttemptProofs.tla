---------------------------- MODULE AttemptProofs ----------------------------
(***************************************************************************)
(* Proofs about Attempt, for any number of cancelling threads and of       *)
(* attempts, whether or not expiries reach synchronous operations.         *)
(***************************************************************************)
EXTENDS Attempt, TLAPS

-----------------------------------------------------------------------------
(* The types.                                                              *)

LEMMA InitTypeOK == Init => TypeOK
<1> SUFFICES ASSUME Init PROVE TypeOK
  OBVIOUS
<1>1. result \in [code : Codes, stage : Stages]
  BY DEF Init, Codes, Stages
<1>2. pc \in PC
  BY DEF Init, PC
<1>3. round \in 1..MaxRounds /\ onWire \in 0..MaxRounds
  BY AttemptAssumption DEF Init
<1>4. cpc \in [Cancellers -> {"idle", "flagged", "returned"}]
  BY DEF Init
<1>5. QED
  BY <1>1, <1>2, <1>3, <1>4 DEF Init, TypeOK

\* Every failure of once() and run() is a code with a stage.
LEMMA ResultTyped ==
    TypeOK /\ [Next]_vars => result' \in [code : Codes, stage : Stages]
<1> SUFFICES ASSUME result \in [code : Codes, stage : Stages], [Next]_vars
             PROVE  result' \in [code : Codes, stage : Stages]
  BY DEF TypeOK
<1> USE DEF Codes, Stages, Fails, FailsAs, network, cancellers
<1>1. CASE UNCHANGED vars
  BY <1>1 DEF vars
<1>2. CASE EnterFails \/ LookAfterResolve \/ TlsSetupFails
  BY <1>2 DEF EnterFails, LookAfterResolve, TlsSetupFails
<1>3. CASE Resolving
  BY <1>3 DEF Resolving, ResolveEnds, ResolveExpires, ResolveDrains
<1>4. CASE LookAfterConnect \/ LookAfterHandshake
  BY <1>4 DEF LookAfterConnect, LookAfterHandshake
<1>5. CASE PrepareRequest \/ LookAfterWrite
  BY <1>5 DEF PrepareRequest, LookAfterWrite
<1>6. CASE LookAfterRead \/ Throws
  BY <1>6 DEF LookAfterRead, Throws
<1>7. CASE RunLooks
  <2>1. RunFailures \subseteq [code : Codes, stage : Stages]
    BY DEF RunFailures
  <2>2. QED
    BY <1>7, <2>1 DEF RunLooks
<1>8. CASE RetryWaits
  BY <1>8 DEF RetryWaits
<1>9. CASE UNCHANGED result
  BY <1>9
<1>10. QED
  BY <1>1, <1>2, <1>3, <1>4, <1>5, <1>6, <1>7, <1>8, <1>9
     DEF Next, Own, Ending, Peer, Enter, SetResolver, StartResolve, MakeStream, SetStream,
         StartConnect, StartWrite, PeerEnds, ExpiryEnds, CloseEnds, OperationEnds,
         DestroyStream, DestroyResolver, ClearActive, Flag, CallActive

LEMMA StepTypeOK == TypeOK /\ RoundsCount /\ [Next]_vars => TypeOK'
<1> SUFFICES ASSUME TypeOK, RoundsCount, [Next]_vars PROVE TypeOK'
  OBVIOUS
<1> USE DEF state, cancellers, network, Goto
<1>1. result' \in [code : Codes, stage : Stages]
  BY ResultTyped
<1>2. pc' \in PC
  <2>1. pc \in PC
    BY DEF TypeOK
  <2>2. CASE Own
    BY <2>2 DEF PC, SocketOps, Looks, Unwind, AfterFailedWrite, Own, EnterFails, Enter,
       SetResolver, StartResolve, LookAfterResolve, MakeStream, TlsSetupFails, SetStream, LookAfterConnect,
       LookAfterHandshake, PrepareRequest, StartWrite, LookAfterWrite, LookAfterRead, Throws,
       DestroyStream, DestroyResolver, ClearActive, RunLooks, RetryWaits
  <2>3. CASE Resolving
    BY <2>3 DEF PC, Looks, Resolving, ResolveEnds, ResolveExpires, ResolveDrains
  <2>4. CASE Ending \/ Peer
    BY <2>4 DEF PC, SocketOps, Looks, Ending, Peer, ExpiryEnds, CloseEnds, PeerEnds,
       OperationEnds, LookOf, StartConnect
  <2>5. QED
    BY <2>1, <2>2, <2>3, <2>4 DEF Next, Flag, CallActive, vars
<1>3. round' \in 1..MaxRounds /\ onWire' \in 0..MaxRounds
  <2>1. round \in 1..MaxRounds /\ onWire \in 0..MaxRounds /\ MaxRounds \in Nat
    BY AttemptAssumption DEF TypeOK
  <2>2. CASE StartWrite
    BY <2>1, <2>2 DEF StartWrite, RoundsCount, SentBy
  <2>3. CASE RunLooks
    BY <2>1, <2>3 DEF RunLooks
  <2>4. CASE RetryWaits
    BY <2>1, <2>4 DEF RetryWaits, RoundsCount
  <2>5. CASE UNCHANGED <<round, onWire>>
    BY <2>1, <2>5
  <2>6. QED
    BY <2>2, <2>3, <2>4, <2>5
       DEF Next, vars, Own, Resolving, Ending, Peer, EnterFails, Enter, SetResolver,
       StartResolve, ResolveEnds, ResolveExpires, ResolveDrains, LookAfterResolve, MakeStream,
       TlsSetupFails, SetStream, StartConnect, LookAfterConnect, LookAfterHandshake,
       PrepareRequest, LookAfterWrite, LookAfterRead, Throws, PeerEnds, ExpiryEnds, CloseEnds,
       OperationEnds, DestroyStream, DestroyResolver, ClearActive, Flag, CallActive
<1>4. /\ cancelActive' \in {"none", "resolver", "stream"}
      /\ alive' \in SUBSET {"resolver", "stream"}
      /\ cpc' \in [Cancellers -> {"idle", "flagged", "returned"}]
  <2>1. CASE Own
    BY <2>1 DEF TypeOK, Own, EnterFails, Enter, SetResolver, StartResolve,
       LookAfterResolve, MakeStream, TlsSetupFails, SetStream, LookAfterConnect,
       LookAfterHandshake, PrepareRequest, StartWrite, LookAfterWrite, LookAfterRead, Throws,
       DestroyStream, DestroyResolver, ClearActive, Cleared, RunLooks, RetryWaits
  <2>2. CASE Resolving
    BY <2>2 DEF TypeOK, Resolving, ResolveEnds, ResolveExpires, ResolveDrains
  <2>3. CASE Ending \/ Peer
    BY <2>3 DEF TypeOK, Ending, Peer, ExpiryEnds, CloseEnds, PeerEnds, OperationEnds, StartConnect
  <2>4. ASSUME NEW c \in Cancellers, Flag(c) \/ CallActive(c)
        PROVE  /\ cancelActive' \in {"none", "resolver", "stream"}
               /\ alive' \in SUBSET {"resolver", "stream"}
               /\ cpc' \in [Cancellers -> {"idle", "flagged", "returned"}]
    BY <2>4 DEF TypeOK, Flag, CallActive, ClosedByCancel
  <2>5. QED
    BY <2>1, <2>2, <2>3, <2>4 DEF TypeOK, Next, vars
<1>5. /\ resolve' \in {"idle", "pending", "aborted"}
      /\ socket' \in {"closed", "open", "cut"}
      /\ ec' \in {"ok", "error", "timeout"}
  <2>1. CASE Own
    BY <2>1 DEF TypeOK, Own, EnterFails, Enter, SetResolver, StartResolve,
       LookAfterResolve, MakeStream, TlsSetupFails, SetStream, LookAfterConnect,
       LookAfterHandshake, PrepareRequest, StartWrite, LookAfterWrite, LookAfterRead, Throws,
       DestroyStream, DestroyResolver, ClearActive, Cleared, RunLooks, RetryWaits
  <2>2. CASE Resolving
    BY <2>2 DEF TypeOK, Resolving, ResolveEnds, ResolveExpires, ResolveDrains
  <2>3. CASE Ending \/ Peer
    BY <2>3 DEF TypeOK, Ending, Peer, ExpiryEnds, CloseEnds, PeerEnds, OperationEnds, StartConnect
  <2>4. ASSUME NEW c \in Cancellers, Flag(c) \/ CallActive(c)
        PROVE  /\ resolve' \in {"idle", "pending", "aborted"}
               /\ socket' \in {"closed", "open", "cut"}
               /\ ec' \in {"ok", "error", "timeout"}
    BY <2>4 DEF TypeOK, Flag, CallActive, ClosedByCancel
  <2>5. QED
    BY <2>1, <2>2, <2>3, <2>4 DEF TypeOK, Next, vars
<1>6. /\ scheme' \in {"http", "https"}
      /\ cancelled' \in BOOLEAN
      /\ dangling' \in BOOLEAN
  <2>1. CASE Own
    BY <2>1 DEF TypeOK, Own, EnterFails, Enter, SetResolver, StartResolve,
       LookAfterResolve, MakeStream, TlsSetupFails, SetStream, LookAfterConnect,
       LookAfterHandshake, PrepareRequest, StartWrite, LookAfterWrite, LookAfterRead, Throws,
       DestroyStream, DestroyResolver, ClearActive, Cleared, RunLooks, RetryWaits
  <2>2. CASE Resolving
    BY <2>2 DEF TypeOK, Resolving, ResolveEnds, ResolveExpires, ResolveDrains
  <2>3. CASE Ending \/ Peer
    BY <2>3 DEF TypeOK, Ending, Peer, ExpiryEnds, CloseEnds, PeerEnds, OperationEnds, StartConnect
  <2>4. ASSUME NEW c \in Cancellers, Flag(c) \/ CallActive(c)
        PROVE  /\ scheme' \in {"http", "https"}
               /\ cancelled' \in BOOLEAN
               /\ dangling' \in BOOLEAN
    BY <2>4 DEF TypeOK, Flag, CallActive, ClosedByCancel
  <2>5. QED
    BY <2>1, <2>2, <2>3, <2>4 DEF TypeOK, Next, vars
<1>7. QED
  BY <1>1, <1>2, <1>3, <1>4, <1>5, <1>6 DEF TypeOK

-----------------------------------------------------------------------------
(* The inductive invariant.                                                *)

LEMMA InitAttemptInv == Init => AttemptInv
BY AttemptAssumption
   DEF Init, AttemptInv, ActiveFits, FlagFirst, CancelCloses, CancelReturned, RoundsCount,
       UnwoundWentOut, HasResolver, HasStream, PastLastLook, SentBy, SocketOps, Looks

LEMMA StepAttemptInv == TypeOK /\ AttemptInv /\ [Next]_vars => AttemptInv'
<1> SUFFICES ASSUME TypeOK, AttemptInv, [Next]_vars PROVE AttemptInv'
  OBVIOUS
<1> USE AttemptAssumption DEF AttemptInv, ActiveFits, FlagFirst, CancelCloses, CancelReturned,
        RoundsCount, UnwoundWentOut, HasResolver, HasStream, PastLastLook, SentBy,
        SocketOps, Looks, state, cancellers, network, Goto, Fails, FailsAs, Unwind, AfterFailedWrite
<1>0. /\ round \in Nat /\ onWire \in Nat /\ cancelled \in BOOLEAN
      /\ result \in [code : Codes, stage : Stages]
      /\ cpc \in [Cancellers -> {"idle", "flagged", "returned"}]
  BY DEF TypeOK
<1>1. CASE UNCHANGED vars
  BY <1>1 DEF vars
<1>2. CASE EnterFails \/ Enter \/ SetResolver \/ StartResolve \/ LookAfterResolve
  BY <1>0, <1>2 DEF EnterFails, Enter, SetResolver, StartResolve, LookAfterResolve,
                    SeenAtStart, SeenAfterResolve
<1>3. CASE Resolving
  BY <1>0, <1>3 DEF Resolving, ResolveEnds, ResolveExpires, ResolveDrains
<1>4. CASE MakeStream \/ TlsSetupFails \/ SetStream \/ StartConnect
  BY <1>0, <1>4 DEF MakeStream, TlsSetupFails, SetStream, StartConnect
<1>5. CASE LookAfterConnect \/ LookAfterHandshake
  BY <1>0, <1>5 DEF LookAfterConnect, LookAfterHandshake, SeenAfterConnect, SeenAfterHandshake
<1>6. CASE LookAfterWrite \/ LookAfterRead
  BY <1>0, <1>6 DEF LookAfterWrite, LookAfterRead
<1>7. CASE PrepareRequest \/ StartWrite \/ Throws
  BY <1>0, <1>7 DEF PrepareRequest, StartWrite, Throws
<1>8. CASE PeerEnds \/ ExpiryEnds \/ CloseEnds
  BY <1>0, <1>8 DEF PeerEnds, ExpiryEnds, CloseEnds, OperationEnds, LookOf
<1>9. CASE DestroyStream \/ DestroyResolver \/ ClearActive
  BY <1>0, <1>9 DEF DestroyStream, DestroyResolver, ClearActive, Cleared
<1>10. CASE RunLooks
  BY <1>0, <1>10 DEF RunLooks, RunFailures, RetrySeesFlag
<1>11. CASE RetryWaits
  BY <1>0, <1>11 DEF RetryWaits, RetrySeesFlag
<1>12. ASSUME NEW c \in Cancellers, Flag(c) PROVE AttemptInv'
  BY <1>0, <1>12 DEF Flag
<1>13. ASSUME NEW c \in Cancellers, CallActive(c) PROVE AttemptInv'
  BY <1>0, <1>13 DEF CallActive, ClosedByCancel
<1>14. QED
  BY <1>1, <1>2, <1>3, <1>4, <1>5, <1>6, <1>7, <1>8, <1>9, <1>10, <1>11, <1>12, <1>13
     DEF Next, Own, Ending, Peer

LEMMA Invariant == Spec => [](TypeOK /\ AttemptInv)
<1>1. Init => TypeOK /\ AttemptInv
  BY InitTypeOK, InitAttemptInv
<1>2. TypeOK /\ AttemptInv /\ [Next]_vars => TypeOK' /\ AttemptInv'
  BY StepTypeOK, StepAttemptInv DEF AttemptInv
<1>3. QED
  BY <1>1, <1>2, PTL DEF Spec

\* Type correctness.  In particular neither the attempts nor the requests handed to
\* the network exceed the bound on attempts.
THEOREM TypeCorrect == Spec => []TypeOK
<1>1. QED
  BY Invariant, PTL

\* cancel_active, the flag, the socket and the progress of once() agree in every
\* state, whatever cancel() does meanwhile.
THEOREM AttemptInvariant == Spec => []AttemptInv
<1>1. QED
  BY Invariant, PTL

\* A cancel() that has returned has closed the socket under exchange().
THEOREM CancelCutsExchange == Spec => []ExchangeIsCutOff
<1>1. AttemptInv => ExchangeIsCutOff
  BY DEF AttemptInv, CancelCloses, PastLastLook, ExchangeIsCutOff
<1>2. QED
  BY <1>1, Invariant, PTL

\* cancel_active refers to a destroyed object only while once() unwinds.
THEOREM DanglesBriefly == Spec => []DanglesOnlyWhileUnwinding
<1>1. TypeOK /\ AttemptInv => DanglesOnlyWhileUnwinding
  BY DEF TypeOK, PC, AttemptInv, ActiveFits, HasResolver, HasStream, SocketOps, Looks,
         DanglesOnlyWhileUnwinding
<1>2. QED
  BY <1>1, Invariant, PTL

\* After a cancel() has returned the request is not handed to the network any more.
THEOREM CancelStopsSending == Spec => NothingSentAfterCancel
<1> DEFINE Silent == CancelReturned => onWire' = onWire
<1>1. ASSUME TypeOK, AttemptInv, [Next]_vars PROVE [Silent]_vars
  <2> SUFFICES ASSUME Next, CancelReturned PROVE onWire' = onWire
    BY <1>1
  <2>1. pc = "write" => socket # "open"
    BY <1>1 DEF AttemptInv, CancelCloses, PastLastLook
  <2>2. CASE StartWrite
    BY <2>1, <2>2 DEF StartWrite, Goto
  <2>3. QED
    BY <2>2
       DEF Next, Own, Resolving, Ending, Peer, network, EnterFails, Enter, SetResolver,
       StartResolve, ResolveEnds, ResolveExpires, ResolveDrains, LookAfterResolve, MakeStream,
       TlsSetupFails, SetStream, StartConnect, LookAfterConnect, LookAfterHandshake,
       PrepareRequest, LookAfterWrite, LookAfterRead, Throws, PeerEnds, ExpiryEnds, CloseEnds,
       OperationEnds, DestroyStream, DestroyResolver, ClearActive, RunLooks, RetryWaits, Flag,
       CallActive
<1>2. QED
  BY <1>1, Invariant, PTL DEF Spec, NothingSentAfterCancel

-----------------------------------------------------------------------------
(* Attempt implements RunContract.                                         *)

\* What RunContract calls the stage and the answer.
StageSeen == IF pc = "done" THEN "back" ELSE IF NotOut THEN "run" ELSE "network"
AnswerSeen ==
    IF pc # "done" THEN "none"
    ELSE IF result.code \in {"response", "cancelled"} THEN result.code ELSE "failure"

\* Between the first object built and the last destroyed the contract sees nothing.
Inside == PC \ {"enter", "clear", "returned", "retryWait", "done"}

LEMMA InsideUnseen ==
    ASSUME pc \in Inside, pc' \in Inside, UNCHANGED cancelled
    PROVE  UNCHANGED Contract!vars
BY DEF Inside, Contract!vars, NotOut

LEMMA SeenUnmoved ==
    ASSUME UNCHANGED <<StageSeen, AnswerSeen, cancelled>>
    PROVE  UNCHANGED Contract!vars
BY DEF Contract!vars, StageSeen, AnswerSeen

LEMMA InitRefines == Init => Contract!Init
BY DEF Init, Contract!Init, NotOut

LEMMA StepRefines == TypeOK /\ AttemptInv /\ [Next]_vars => [Contract!Next]_Contract!vars
<1> SUFFICES ASSUME TypeOK, AttemptInv, [Next]_vars PROVE [Contract!Next]_Contract!vars
  OBVIOUS
<1> USE DEF state, cancellers, network, Goto, Fails, Unwind, AfterFailedWrite
<1>0. /\ round \in Nat \ {0} /\ cancelled \in BOOLEAN
      /\ result \in [code : Codes, stage : Stages] /\ result' \in [code : Codes, stage : Stages]
      /\ result.code = "cancelled" => cancelled
  BY AttemptAssumption, ResultTyped DEF TypeOK, AttemptInv, FlagFirst
<1>1. CASE UNCHANGED vars
  BY <1>1, SeenUnmoved DEF vars, StageSeen, AnswerSeen, NotOut
<1>2. CASE EnterFails
  <2>1. pc = "enter" /\ pc' = "clear" /\ round' = round /\ cancelled' = cancelled
    BY <1>2 DEF EnterFails
  <2>2. result'.code # "response" /\ result'.stage \in {"none", "parse_url"}
    BY <1>2 DEF EnterFails
  <2>3. QED
    BY <2>1, <2>2, SeenUnmoved DEF StageSeen, AnswerSeen, NotOut
<1>3. CASE Enter
  <2>1. pc = "enter" /\ pc' = "setResolver" /\ round' = round /\ ~cancelled /\ cancelled' = cancelled
    BY <1>3 DEF Enter, SeenAtStart
  <2>2. CASE round = 1
    <3>1. StageSeen = "run" /\ StageSeen' = "network" /\ AnswerSeen = "none" /\ AnswerSeen' = "none"
      BY <2>1, <2>2 DEF StageSeen, AnswerSeen, NotOut
    <3>2. QED
      BY <1>0, <2>1, <3>1 DEF Contract!Next, Contract!GoOut, StageSeen, AnswerSeen
  <2>3. CASE round # 1
    BY <1>0, <2>1, <2>3, SeenUnmoved DEF StageSeen, AnswerSeen, NotOut
  <2>4. QED
    BY <2>2, <2>3
<1>4. CASE pc \in Inside /\ pc' \in Inside /\ UNCHANGED cancelled
  BY <1>4, InsideUnseen
<1>5. CASE DestroyResolver
  <2>1. /\ pc = "unwindResolver" /\ pc' = "clear" /\ result' = result /\ cancelled' = cancelled
        /\ result.code = "response" \/ result.stage \notin {"none", "parse_url"}
    BY <1>5 DEF DestroyResolver, AttemptInv, UnwoundWentOut
  <2>2. QED
    BY <2>1, SeenUnmoved DEF StageSeen, AnswerSeen, NotOut
<1>6. CASE ClearActive
  <2>1. /\ pc = "clear" /\ pc' = "returned" /\ UNCHANGED <<result, round, cancelled>>
    BY <1>6 DEF ClearActive
  <2>2. QED
    BY <2>1, SeenUnmoved DEF StageSeen, AnswerSeen, NotOut
<1>7. ASSUME pc # "done", pc' = "done", UNCHANGED cancelled,
             cancelled => result'.code = "cancelled",
             ~cancelled => result'.code # "cancelled",
             NotOut => result'.code # "response"
      PROVE  Contract!EndEarly \/ Contract!ComeBack
  <2>1. AnswerSeen = "none" /\ StageSeen' = "back" /\ StageSeen \in {"run", "network"}
    BY <1>7 DEF AnswerSeen, StageSeen
  <2>2. CASE NotOut
    <3>1. AnswerSeen' \in IF cancelled THEN {"cancelled"} ELSE {"failure"}
      BY <1>7, <2>2 DEF AnswerSeen
    <3>2. Contract!EndEarly
      BY <1>7, <2>1, <2>2, <3>1 DEF Contract!EndEarly, Contract!EarlyAnswers, StageSeen, AnswerSeen
    <3>3. QED
      BY <3>2
  <2>3. CASE ~NotOut
    <3>1. AnswerSeen' \in IF cancelled THEN {"cancelled"} ELSE {"response", "failure"}
      BY <1>7 DEF AnswerSeen
    <3>2. Contract!ComeBack
      BY <1>7, <2>1, <2>3, <3>1 DEF Contract!ComeBack, Contract!LateAnswers, StageSeen, AnswerSeen
    <3>3. QED
      BY <3>2
  <2>4. QED
    BY <2>2, <2>3
<1>8. CASE RunLooks
  <2>1. pc = "returned" /\ cancelled' = cancelled
    BY <1>8 DEF RunLooks
  <2>2. CASE cancelled
    <3>1. pc' = "done" /\ result'.code = "cancelled"
      BY <1>8, <2>2 DEF RunLooks, RetrySeesFlag
    <3>2. QED
      BY <1>7, <2>1, <2>2, <3>1 DEF Contract!Next
  <2>3. CASE ~cancelled /\ pc' = "done"
    <3>1. result' \in {result} \cup RunFailures
      BY <1>8, <2>3 DEF RunLooks, RetrySeesFlag
    <3>2. result'.code # "cancelled" /\ (NotOut => result'.code # "response")
      BY <1>0, <2>1, <2>3, <3>1 DEF RunFailures, NotOut
    <3>3. QED
      BY <1>7, <2>1, <2>3, <3>2 DEF Contract!Next
  <2>4. CASE ~cancelled /\ pc' = "enter"
    <3>1. result.code = "response" /\ round' = round + 1
      BY <1>8, <2>4 DEF RunLooks, RetrySeesFlag
    <3>2. QED
      BY <1>0, <2>1, <2>4, <3>1, SeenUnmoved DEF StageSeen, AnswerSeen, NotOut
  <2>5. CASE ~cancelled /\ pc' = "retryWait"
    <3>1. UNCHANGED <<result, round>>
      BY <1>8, <2>5 DEF RunLooks, RetrySeesFlag
    <3>2. QED
      BY <2>1, <2>5, <3>1, SeenUnmoved DEF StageSeen, AnswerSeen, NotOut
  <2>6. QED
    BY <1>8, <2>2, <2>3, <2>4, <2>5 DEF RunLooks, RetrySeesFlag
<1>9. CASE RetryWaits
  <2>1. pc = "retryWait" /\ cancelled' = cancelled
    BY <1>9 DEF RetryWaits
  <2>2. CASE cancelled
    <3>1. pc' = "done" /\ result'.code = "cancelled"
      BY <1>9, <2>2 DEF RetryWaits, RetrySeesFlag
    <3>2. QED
      BY <1>7, <2>1, <2>2, <3>1 DEF Contract!Next
  <2>3. CASE ~cancelled
    <3>1. pc' = "enter" /\ round' = round + 1 /\ result' = result
      BY <1>9, <2>3 DEF RetryWaits, RetrySeesFlag
    <3>2. StageSeen' = "network" /\ AnswerSeen = "none" /\ AnswerSeen' = "none"
      BY <1>0, <2>1, <3>1 DEF StageSeen, AnswerSeen, NotOut
    <3>3. CASE NotOut
      BY <1>0, <2>1, <2>3, <3>2, <3>3 DEF Contract!Next, Contract!GoOut, StageSeen, AnswerSeen
    <3>4. CASE ~NotOut
      BY <2>1, <3>2, <3>4, SeenUnmoved DEF StageSeen
    <3>5. QED
      BY <3>3, <3>4
  <2>4. QED
    BY <2>2, <2>3
<1>10. ASSUME NEW c \in Cancellers, Flag(c) PROVE Contract!SetFlag
  BY <1>10 DEF Flag, Contract!SetFlag, NotOut
<1>11. ASSUME NEW c \in Cancellers, CallActive(c) PROVE UNCHANGED Contract!vars
  BY <1>11, SeenUnmoved DEF CallActive, StageSeen, AnswerSeen, NotOut
<1>12. QED
  <2>1. CASE Own
    BY <2>1, <1>2, <1>3, <1>4, <1>5, <1>6, <1>8, <1>9
       DEF Own, Inside, PC, SocketOps, Looks, SetResolver, StartResolve, LookAfterResolve,
       MakeStream, TlsSetupFails, SetStream, LookAfterConnect, LookAfterHandshake,
       PrepareRequest, StartWrite, LookAfterWrite, LookAfterRead, Throws, DestroyStream
  <2>2. CASE Resolving \/ Ending \/ Peer
    BY <2>2, <1>4
       DEF Inside, PC, SocketOps, Looks, Resolving, ResolveEnds, ResolveExpires, ResolveDrains,
       Ending, Peer, ExpiryEnds, CloseEnds, PeerEnds, OperationEnds, LookOf, StartConnect
  <2>3. QED
    BY <1>1, <1>10, <1>11, <2>1, <2>2 DEF Next, Contract!Next

\* However cancel() falls into an attempt, run() keeps its contract: nothing is sent
\* that was cancelled before, a flag overrides a response, and only a flag gives
\* "cancelled".
THEOREM AttemptKeepsContract == Spec => KeepsRunContract
<1>1. QED
  BY Invariant, InitRefines, StepRefines, PTL DEF Spec, KeepsRunContract, Contract!Spec
=============================================================================

------------------------------- MODULE Attempt -------------------------------
(***************************************************************************)
(* One request on its way through once() and exchange() of src/client.cpp, *)
(* attempt after attempt, with any number of threads calling cancel() on   *)
(* its State meanwhile: the holder of a RequestHandle, and stop().  The    *)
(* State is the flag `cancelled` and the std::function `cancel_active`,    *)
(* which captures the resolver or the stream by reference and is replaced, *)
(* called and cleared under the State's mutex; each such critical section  *)
(* is one step.  Destroying the captured object does not take that mutex   *)
(* and is a step of its own.                                               *)
(*                                                                         *)
(* The network is nondeterministic: an operation ends by the peer's doing, *)
(* by its timer if timers reach synchronous operations (ExpiryFires), or   *)
(* because the socket was closed.  cancel() calls close() and nothing      *)
(* else: an operation that begins on a closed socket fails at once, but    *)
(* one that is under way when another thread closes its descriptor (the    *)
(* socket is "cut") need not notice; on Linux a blocked recv() does not.   *)
(* Time is not modelled: "the deadline has passed" is a choice.            *)
(***************************************************************************)
EXTENDS Naturals

CONSTANTS Cancellers,    \* threads that call cancel(), each once
          MaxRounds,     \* bound on attempts over all redirect targets
          ExpiryFires    \* a stage's expiry ends the operation it was set for

ASSUME AttemptAssumption ==
    /\ MaxRounds \in Nat \ {0}
    /\ ExpiryFires \in BOOLEAN

VARIABLES pc,            \* where run() and once() are
          scheme,        \* of the URL
          round,         \* how many attempts were begun, over all targets
          cancelled,     \* State::cancelled
          cancelActive,  \* what State::cancel_active captured
          alive,         \* the objects of once() that exist
          resolve,       \* the asynchronous resolve operation
          socket,        \* the stream's socket; "cut": closed under an operation
          ec,            \* once()'s error_code
          result,        \* what once(), and then run(), returns
          onWire,        \* how many attempts handed the request to an open socket
          cpc,           \* where each cancelling thread is
          dangling       \* some cancel() called into a destroyed object

state == <<cancelled, cancelActive>>
cancellers == <<cpc, dangling>>
network == <<resolve, socket, onWire>>
vars == <<pc, scheme, round, cancelled, cancelActive, alive, resolve, socket,
          ec, result, onWire, cpc, dangling>>

\* The synchronous socket operations, and where once() looks at their outcome.
SocketOps == {"connecting", "handshaking", "writing", "reading"}
Looks == {"lookResolve", "lookConnect", "lookHandshake", "lookWrite", "lookRead"}
PC == {"enter", "setResolver", "startResolve", "resolving", "draining", "makeStream",
       "setStream", "connect", "prepare", "write", "unwindStream", "unwindResolver",
       "clear", "returned", "retryWait", "done"} \cup SocketOps \cup Looks

Codes == {"internal_error", "response", "cancelled", "timeout", "invalid_url", "unsupported_scheme",
          "resolve_failed", "connect_failed", "tls_configuration_failed",
          "tls_handshake_failed", "certificate_verification_failed",
          "invalid_argument", "write_failed", "read_failed", "response_too_large",
          "too_many_redirects", "redirect_missing_location", "http_status_error"}
Stages == {"none", "parse_url", "resolve", "connect", "tls_handshake",
           "write_request", "read_response", "redirect", "retry_wait"}

\* No more requests go out than attempts are allowed: a write is not repeated
\* within an attempt.
TypeOK ==
    /\ pc \in PC
    /\ scheme \in {"http", "https"}
    /\ round \in 1..MaxRounds
    /\ cancelled \in BOOLEAN
    /\ cancelActive \in {"none", "resolver", "stream"}
    /\ alive \in SUBSET {"resolver", "stream"}
    /\ resolve \in {"idle", "pending", "aborted"}
    /\ socket \in {"closed", "open", "cut"}
    /\ ec \in {"ok", "error", "timeout"}
    /\ result \in [code : Codes, stage : Stages]
    /\ onWire \in 0..MaxRounds
    /\ cpc \in [Cancellers -> {"idle", "flagged", "returned"}]
    /\ dangling \in BOOLEAN

Init ==
    /\ pc = "enter"
    /\ scheme \in {"http", "https"}
    /\ round = 1
    /\ cancelled = FALSE
    /\ cancelActive = "none"
    /\ alive = {}
    /\ resolve = "idle"
    /\ socket = "closed"
    /\ ec = "ok"
    /\ result = [code |-> "internal_error", stage |-> "none"]
    /\ onWire = 0
    /\ cpc = [c \in Cancellers |-> "idle"]
    /\ dangling = FALSE

-----------------------------------------------------------------------------
(* Helpers.                                                                *)

Goto(from, to) == pc = from /\ pc' = to

\* failure(code, stage), which every return of once() goes through.
Fails(code, stage) == result' = [code |-> code, stage |-> stage]

\* The code a failed operation is reported under, unless it timed out.
FailsAs(code, stage) == Fails(IF ec = "timeout" THEN "timeout" ELSE code, stage)

\* once()'s looks at the flag.  The first two end the attempt after resolving and
\* after connecting (http only), the third after the TLS handshake.
NeverSeen == FALSE
SeenAtStart == cancelled
SeenAfterResolve == cancelled
SeenAfterConnect == scheme = "http" /\ cancelled
SeenAfterHandshake == cancelled

\* A return from once() after the stream was built.
Unwind == "unwindStream"

\* exchange() returns after a failed write; it does not try again.
WriteAgain == "write"
AfterFailedWrite == Unwind

\* What a call of cancel_active makes of the stream's socket.
LeftOpen == socket
ClosedByCancel ==
    IF cancelActive # "stream" \/ socket # "open" THEN socket
    ELSE IF pc \in SocketOps THEN "cut" ELSE "closed"

\* What the destructor of ClearActive leaves in cancel_active.
LeftActive == cancelActive
Cleared == "none"

-----------------------------------------------------------------------------
(* once(): entry and name resolution.                                      *)

\* Flag, deadline and URL are tested before anything is built.
EnterFails ==
    /\ Goto("enter", "clear")
    /\ IF SeenAtStart THEN Fails("cancelled", "none")
       ELSE \/ Fails("timeout", "none")
            \/ \E code \in {"invalid_url", "unsupported_scheme"} : Fails(code, "parse_url")
    /\ UNCHANGED <<scheme, round, state, alive, network, ec, cancellers>>

Enter ==
    /\ ~SeenAtStart
    /\ Goto("enter", "setResolver")
    /\ alive' = {"resolver"}
    /\ UNCHANGED <<scheme, round, state, network, ec, result, cancellers>>

SetResolver ==
    /\ Goto("setResolver", "startResolve")
    /\ cancelActive' = "resolver"
    /\ UNCHANGED <<scheme, round, cancelled, alive, network, ec, result, cancellers>>

StartResolve ==
    /\ Goto("startResolve", "resolving")
    /\ resolve' = "pending"
    /\ UNCHANGED <<scheme, round, state, alive, socket, onWire, ec, result, cancellers>>

\* run_for() sees the handler run; an aborted operation reports an error.
ResolveEnds ==
    /\ Goto("resolving", "lookResolve")
    /\ ec' \in IF resolve = "aborted" THEN {"error"} ELSE {"ok", "error"}
    /\ resolve' = "idle"
    /\ UNCHANGED <<scheme, round, state, alive, socket, onWire, result, cancellers>>

\* run_for() gives up: the operation is cancelled ...
ResolveExpires ==
    /\ Goto("resolving", "draining")
    /\ resolve' = "aborted"
    /\ UNCHANGED <<scheme, round, state, alive, socket, onWire, ec, result, cancellers>>

\* ... and run() waits for its handler, whatever that takes.
ResolveDrains ==
    /\ Goto("draining", "unwindResolver")
    /\ resolve' = "idle"
    /\ IF cancelled THEN Fails("cancelled", "resolve") ELSE Fails("timeout", "resolve")
    /\ UNCHANGED <<scheme, round, state, alive, socket, onWire, ec, cancellers>>

LookAfterResolve ==
    /\ pc = "lookResolve"
    /\ IF SeenAfterResolve THEN pc' = "unwindResolver" /\ Fails("cancelled", "resolve")
       ELSE IF ec # "ok" THEN pc' = "unwindResolver" /\ Fails("resolve_failed", "resolve")
       ELSE pc' = "makeStream" /\ UNCHANGED result
    /\ UNCHANGED <<scheme, round, state, alive, network, ec, cancellers>>

-----------------------------------------------------------------------------
(* once(): connection and TLS handshake.                                   *)

MakeStream ==
    /\ Goto("makeStream", "setStream")
    /\ alive' = alive \cup {"stream"}
    /\ UNCHANGED <<scheme, round, state, network, ec, result, cancellers>>

\* A CA file that does not load throws, a host name SNI rejects is an error.
TlsSetupFails ==
    /\ scheme = "https"
    /\ Goto("makeStream", "unwindStream")
    /\ Fails("tls_configuration_failed", "tls_handshake")
    /\ UNCHANGED <<scheme, round, state, alive, network, ec, cancellers>>

SetStream ==
    /\ Goto("setStream", "connect")
    /\ cancelActive' = "stream"
    /\ UNCHANGED <<scheme, round, cancelled, alive, network, ec, result, cancellers>>

\* connect() opens the socket for the first endpoint, and again for each
\* further one, whether or not it was closed meanwhile.
StartConnect ==
    /\ pc \in {"connect", "connecting"}
    /\ pc' = "connecting"
    /\ socket' = "open"
    /\ UNCHANGED <<scheme, round, state, alive, resolve, onWire, ec, result, cancellers>>

LookAfterConnect ==
    /\ pc = "lookConnect"
    /\ IF SeenAfterConnect THEN pc' = Unwind /\ Fails("cancelled", "connect")
       ELSE IF ec # "ok" THEN pc' = Unwind /\ FailsAs("connect_failed", "connect")
       ELSE /\ pc' = IF scheme = "http" THEN "prepare" ELSE "handshaking"
            /\ UNCHANGED result
    /\ UNCHANGED <<scheme, round, state, alive, network, ec, cancellers>>

\* A handshake that timed out is reported like any other that failed.
LookAfterHandshake ==
    /\ pc = "lookHandshake"
    /\ IF SeenAfterHandshake THEN pc' = Unwind /\ Fails("cancelled", "tls_handshake")
       ELSE IF ec # "ok"
       THEN /\ pc' = Unwind
            /\ \E code \in {"certificate_verification_failed", "tls_handshake_failed"} :
                  Fails(code, "tls_handshake")
       ELSE pc' = "prepare" /\ UNCHANGED result
    /\ UNCHANGED <<scheme, round, state, alive, network, ec, cancellers>>

-----------------------------------------------------------------------------
(* exchange(): the request out, the response in.  The flag is not looked   *)
(* at; a cancel() closes the socket.                                       *)

PrepareRequest ==
    /\ pc = "prepare"
    /\ \/ pc' = "write" /\ UNCHANGED result
       \/ pc' = Unwind /\ Fails("invalid_argument", "write_request")
    /\ UNCHANGED <<scheme, round, state, alive, network, ec, cancellers>>

StartWrite ==
    /\ Goto("write", "writing")
    /\ onWire' = IF socket = "open" THEN onWire + 1 ELSE onWire
    /\ UNCHANGED <<scheme, round, state, alive, resolve, socket, ec, result, cancellers>>

LookAfterWrite ==
    /\ pc = "lookWrite"
    /\ IF ec # "ok" THEN pc' = AfterFailedWrite /\ FailsAs("write_failed", "write_request")
       ELSE pc' = "reading" /\ UNCHANGED result
    /\ UNCHANGED <<scheme, round, state, alive, network, ec, cancellers>>

LookAfterRead ==
    /\ Goto("lookRead", Unwind)
    /\ IF ec # "ok"
       THEN \/ FailsAs("read_failed", "read_response")
            \/ ec = "error" /\ Fails("response_too_large", "read_response")
       ELSE result' = [code |-> "response", stage |-> "none"]
    /\ UNCHANGED <<scheme, round, state, alive, network, ec, cancellers>>

\* An exception in the try block, such as a resolver that cannot start its thread
\* or no memory for the body, is taken for a TLS problem.
Throws ==
    /\ \/ Goto("startResolve", "unwindResolver")
       \/ Goto("lookRead", Unwind)
    /\ Fails("tls_configuration_failed", "tls_handshake")
    /\ UNCHANGED <<scheme, round, state, alive, network, ec, cancellers>>

-----------------------------------------------------------------------------
(* The synchronous operations of the stream.                               *)

LookOf == [connecting |-> "lookConnect", handshaking |-> "lookHandshake",
           writing |-> "lookWrite", reading |-> "lookRead"]

OperationEnds(outcomes) ==
    /\ pc \in SocketOps
    /\ pc' = LookOf[pc]
    /\ ec' \in outcomes
    /\ socket' = IF socket = "cut" THEN "closed" ELSE socket
    /\ UNCHANGED <<scheme, round, state, alive, resolve, onWire, result, cancellers>>

\* A cut operation may still be ended by the peer, or be woken by the platform.
PeerEnds == socket # "closed" /\ OperationEnds({"ok", "error"})
ExpiryEnds == ExpiryFires /\ OperationEnds({"timeout"})
CloseEnds == socket # "open" /\ OperationEnds({"error"})

-----------------------------------------------------------------------------
(* once() returns: the stream dies first, then the resolver, and only then *)
(* does ClearActive, declared before both, empty cancel_active.            *)

DestroyStream ==
    /\ Goto("unwindStream", "unwindResolver")
    /\ alive' = alive \ {"stream"}
    /\ socket' = "closed"
    /\ UNCHANGED <<scheme, round, state, resolve, onWire, ec, result, cancellers>>

DestroyResolver ==
    /\ Goto("unwindResolver", "clear")
    /\ alive' = alive \ {"resolver"}
    /\ UNCHANGED <<scheme, round, state, network, ec, result, cancellers>>

ClearActive ==
    /\ Goto("clear", "returned")
    /\ cancelActive' = Cleared
    /\ UNCHANGED <<scheme, round, cancelled, alive, network, ec, result, cancellers>>

-----------------------------------------------------------------------------
(* run(), around once().                                                   *)

RetrySeesFlag == cancelled

\* What run() can return in place of what once() did.
RunFailures ==
    {[code |-> "timeout", stage |-> "retry_wait"],
     [code |-> "too_many_redirects", stage |-> "redirect"],
     [code |-> "redirect_missing_location", stage |-> "redirect"],
     [code |-> "invalid_url", stage |-> "redirect"],
     [code |-> "http_status_error", stage |-> "read_response"]}

\* A flag set by now turns any result into "cancelled".  Otherwise run() is
\* done, follows a redirect, or waits before the next attempt.
RunLooks ==
    /\ pc = "returned"
    /\ IF RetrySeesFlag
       THEN pc' = "done" /\ Fails("cancelled", "none") /\ UNCHANGED <<scheme, round>>
       ELSE \/ /\ pc' = "done"
               /\ result' \in {result} \cup RunFailures
               /\ UNCHANGED <<scheme, round>>
            \/ /\ round < MaxRounds
               /\ result.code = "response"
               /\ pc' = "enter"
               /\ round' = round + 1
               /\ scheme' \in {"http", "https"}
               /\ UNCHANGED result
            \/ /\ round < MaxRounds
               /\ pc' = "retryWait"
               /\ UNCHANGED <<result, scheme, round>>
    /\ UNCHANGED <<state, alive, network, ec, cancellers>>

RetryWaits ==
    /\ pc = "retryWait"
    /\ IF RetrySeesFlag
       THEN pc' = "done" /\ Fails("cancelled", "retry_wait") /\ UNCHANGED round
       ELSE pc' = "enter" /\ round' = round + 1 /\ UNCHANGED result
    /\ UNCHANGED <<scheme, state, alive, network, ec, cancellers>>

-----------------------------------------------------------------------------
(* RequestHandle::cancel(): first the flag, then, under the State's mutex, *)
(* the call of cancel_active if there is one.                              *)

Flag(c) ==
    /\ cpc[c] = "idle"
    /\ cpc' = [cpc EXCEPT ![c] = "flagged"]
    /\ cancelled' = TRUE
    /\ UNCHANGED <<pc, scheme, round, cancelActive, alive, network, ec, result, dangling>>

\* resolver.cancel() aborts a pending resolve; socket().close() closes an open
\* socket.  Neither leaves a mark for an operation that starts later.
CallActive(c) ==
    /\ cpc[c] = "flagged"
    /\ cpc' = [cpc EXCEPT ![c] = "returned"]
    /\ resolve' = IF cancelActive = "resolver" /\ resolve = "pending" THEN "aborted" ELSE resolve
    /\ socket' = ClosedByCancel
    /\ dangling' = (dangling \/ cancelActive \notin alive \cup {"none"})
    /\ UNCHANGED <<pc, scheme, round, state, alive, onWire, ec, result>>

-----------------------------------------------------------------------------
(* The specification.                                                      *)

\* The steps of the requesting thread that wait for nothing outside the process.
Own ==
    \/ EnterFails \/ Enter \/ SetResolver \/ StartResolve
    \/ LookAfterResolve \/ MakeStream \/ TlsSetupFails \/ SetStream
    \/ LookAfterConnect \/ LookAfterHandshake
    \/ PrepareRequest \/ StartWrite \/ LookAfterWrite \/ LookAfterRead \/ Throws
    \/ DestroyStream \/ DestroyResolver \/ ClearActive \/ RunLooks \/ RetryWaits

\* Those that wait for the name service, a timer or a closed socket, and those
\* that wait for the peer.
Resolving == ResolveEnds \/ ResolveExpires \/ ResolveDrains
Ending == ExpiryEnds \/ CloseEnds
Peer == PeerEnds \/ StartConnect

Next ==
    \/ Own \/ Resolving \/ Ending \/ Peer
    \/ \E c \in Cancellers : Flag(c) \/ CallActive(c)

Spec == Init /\ [][Next]_vars

\* The thread runs, the name service answers in the end, the platform gives up on a
\* connect() that nobody answers, and an operation on a socket that was closed before
\* it began fails.  The peer may stay silent, no expiry need come, and nothing wakes
\* an operation whose socket was closed under it.
Fairness ==
    /\ WF_vars(Own)
    /\ WF_vars(Resolving)
    /\ WF_vars(pc = "connect" /\ StartConnect)
    /\ WF_vars(pc = "connecting" /\ PeerEnds)
    /\ WF_vars(socket = "closed" /\ CloseEnds)
    /\ \A c \in Cancellers : WF_vars(CallActive(c))

FairSpec == Spec /\ Fairness

\* What a platform may add: close() wakes the operations on its descriptor.
CloseWakes == WF_vars(socket = "cut" /\ CloseEnds)

\* All that could end a request does its part: close() wakes, an expiry that can end
\* an operation does, and every canceller comes to call cancel().
HelpedSpec ==
    /\ FairSpec
    /\ CloseWakes
    /\ WF_vars(ExpiryEnds)
    /\ \A c \in Cancellers : WF_vars(Flag(c))

\* RunContract's view: nothing goes out before the first look at the flag that lets
\* once() build anything.
NotOut ==
    /\ round = 1
    /\ \/ pc = "enter"
       \/ /\ pc \in {"clear", "returned", "retryWait"}
          /\ result.code # "response"
          /\ result.stage \in {"none", "parse_url"}

Contract == INSTANCE RunContract WITH
    stage <- IF pc = "done" THEN "back" ELSE IF NotOut THEN "run" ELSE "network",
    flag <- cancelled,
    answer <- IF pc # "done" THEN "none"
              ELSE IF result.code \in {"response", "cancelled"} THEN result.code ELSE "failure"

\* However an attempt ends while cancel() is under way, run() keeps its contract: a
\* flag seen after once() overrides any response, and only a flag gives "cancelled".
KeepsRunContract == Contract!Spec

CancelReturned == \E c \in Cancellers : cpc[c] = "returned"

\* Once a cancel() has returned, no attempt puts the request on the wire: every
\* path from the moment cancel_active could still miss the stream to the write
\* passes a look at the flag.
NothingSentAfterCancel ==
    [][CancelReturned => onWire' = onWire]_vars

\* Once a cancel() has returned, exchange(), which never looks at the flag, works on
\* no open socket: it was closed before the operation or under it.  (Whether the
\* operation notices is another question: see CancelEndsExchange.)
ExchangeIsCutOff ==
    CancelReturned /\ pc \in {"writing", "reading"} => socket # "open"

\* cancel_active refers to an object that is gone only while once() unwinds: from
\* the destruction of the captured object to ClearActive, and never outside an
\* attempt, however the attempt ended.
DanglesOnlyWhileUnwinding ==
    cancelActive \notin alive \cup {"none"} => pc \in {"unwindResolver", "clear"}

\* cancel() never calls into an object that once() has already destroyed.
CancelCallsTheLiving == ~dangling

-----------------------------------------------------------------------------
(* What the safety properties rest on.                                     *)

\* Where cancel_active names the resolver, and where the stream.
HasResolver == {"startResolve", "resolving", "draining", "lookResolve", "makeStream", "setStream"}
HasStream == {"connect", "prepare", "write"} \cup SocketOps \cup (Looks \ {"lookResolve"})

\* cancel_active, the object it captured and the progress of once() agree.
ActiveFits ==
    /\ pc \in {"enter", "setResolver", "returned", "retryWait", "done"} => cancelActive = "none"
    /\ pc \in {"setResolver"} \cup HasResolver => "resolver" \in alive
    /\ pc \in HasResolver => cancelActive = "resolver"
    /\ pc \in {"setStream"} \cup HasStream => "stream" \in alive
    /\ pc \in HasStream => cancelActive = "stream"
    /\ pc = "unwindStream" => cancelActive \in alive

\* Nobody calls cancel_active, and nothing ends as cancelled, before the flag is set.
FlagFirst ==
    /\ \A c \in Cancellers : cpc[c] # "idle" => cancelled
    /\ result.code = "cancelled" => cancelled

\* From the last look at the flag to the response, a cancel() that has returned has
\* closed the socket, and nothing opens it again.
PastLastLook == {"prepare", "write", "writing", "lookWrite", "reading"}
CancelCloses == CancelReturned /\ pc \in PastLastLook => socket # "open"

\* An attempt hands its request over once, and there is no attempt too many.
SentBy == {"writing", "lookWrite", "reading", "lookRead", "unwindStream", "unwindResolver",
           "clear", "returned", "retryWait", "done"}
RoundsCount ==
    /\ onWire <= round
    /\ pc \notin SentBy => onWire < round
    /\ pc = "retryWait" => round < MaxRounds

\* What went far enough to be unwound reports that it went out.
UnwoundWentOut ==
    pc \in {"unwindStream", "unwindResolver"} =>
        result.code = "response" \/ result.stage \notin {"none", "parse_url"}

\* The inductive invariant: at every point of once() and run(), against cancel() at
\* every other.
AttemptInv ==
    /\ ActiveFits
    /\ FlagFirst
    /\ CancelCloses
    /\ RoundsCount
    /\ UnwoundWentOut

-----------------------------------------------------------------------------
(* Liveness.                                                               *)

\* Every attempt ends, and with it run(), although the peer stays silent: by a
\* deadline, or at the latest by the cancel() that stop() calls.
RunEnds == <>(pc = "done")

\* What cancel() does towards the end of the request, with the peer silent and no
\* timer: an exchange whose socket was closed between two operations ends on every
\* platform.  Where close() wakes an operation under way, every http request ends, and
\* an https request from the handshake's end on.
CancelEndsExchange ==
    /\ (CancelReturned /\ pc \in PastLastLook /\ socket = "closed" ~> pc = "done")
    /\ CloseWakes =>
          (CancelReturned /\ (scheme = "http" \/ pc \in PastLastLook) ~> pc = "done")
=============================================================================

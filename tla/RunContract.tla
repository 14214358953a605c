----------------------------- MODULE RunContract -----------------------------
(***************************************************************************)
(* What run() of src/client.cpp promises about one request and its flag,   *)
(* State::cancelled.  RetryRun and Attempt implement it, the one with the  *)
(* loops of run() and the other with the inside of once(); ClientPool      *)
(* relies on it for the request each thread is executing.                  *)
(***************************************************************************)
VARIABLES stage,   \* "run" until something may go out, then "network"
          flag,    \* cancel() was called
          answer   \* what run() returns, known from its last look at the flag

vars == <<stage, flag, answer>>

Init == stage = "run" /\ flag = FALSE /\ answer = "none"

SetFlag == flag' = TRUE /\ UNCHANGED <<stage, answer>>

\* Invalid options, an invalid URL, no time, or a flag set early enough.
EarlyAnswers == {"invalid_argument", "failure"} \cup IF flag THEN {"cancelled"} ELSE {}

\* A flag that is set turns a response into "cancelled".  A redirect may still
\* fail after run() has last looked at the flag.
LateAnswers == {"failure", IF flag THEN "cancelled" ELSE "response"}

EndEarly == stage = "run" /\ stage' = "back" /\ answer' \in EarlyAnswers /\ UNCHANGED flag
GoOut == stage = "run" /\ ~flag /\ stage' = "network" /\ UNCHANGED <<flag, answer>>
ComeBack == stage = "network" /\ stage' = "back" /\ answer' \in LateAnswers /\ UNCHANGED flag
Throw == stage \in {"run", "network"} /\ stage' = "thrown" /\ UNCHANGED <<flag, answer>>

Next == SetFlag \/ EndEarly \/ GoOut \/ ComeBack \/ Throw

Spec == Init /\ [][Next]_vars
=============================================================================

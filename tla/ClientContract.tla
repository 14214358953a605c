--------------------------- MODULE ClientContract ---------------------------
(***************************************************************************)
(* What steady_http::Client promises its caller, with no threads, queue or *)
(* lock in sight: a request handed to the client is either accepted or     *)
(* turned away, an accepted request is completed exactly once, nothing is  *)
(* accepted once the client is closed, nothing is turned away as "stopped" *)
(* before that, and closing the client completes whatever is pending.      *)
(***************************************************************************)
EXTENDS Naturals

CONSTANTS Reqs  \* the requests ever made, each one used for one call

VARIABLES open,         \* stop() has not been called
          pending,      \* accepted and not completed
          completions,  \* how often a request's caller has been answered
          outcome       \* what it was answered

vars == <<open, pending, completions, outcome>>

\* Answers of a request that was accepted, and of one that was not.
Served == {"response", "failure", "cancelled", "invalid_argument"}
Refusals == {"client_stopped", "invalid_argument"}
Answers == Served \cup Refusals
Unanswered == "none"

TypeOK ==
    /\ open \in BOOLEAN
    /\ pending \in SUBSET Reqs
    /\ completions \in [Reqs -> Nat]
    /\ outcome \in [Reqs -> Answers \cup {Unanswered}]

Init ==
    /\ open = TRUE
    /\ pending = {}
    /\ completions = [r \in Reqs |-> 0]
    /\ outcome = [r \in Reqs |-> Unanswered]

Fresh(r) == r \notin pending /\ completions[r] = 0

Answer(r, answer) ==
    /\ completions' = [completions EXCEPT ![r] = @ + 1]
    /\ outcome' = [outcome EXCEPT ![r] = answer]

Accept(r) ==
    /\ open
    /\ Fresh(r)
    /\ pending' = pending \cup {r}
    /\ UNCHANGED <<open, completions, outcome>>

\* Only a closed client says "client_stopped"; a malformed call is refused at any time.
Refuse(r) ==
    /\ Fresh(r)
    /\ \E answer \in Refusals :
          /\ answer = "client_stopped" => ~open
          /\ Answer(r, answer)
    /\ UNCHANGED <<open, pending>>

Complete(r) ==
    /\ r \in pending
    /\ pending' = pending \ {r}
    /\ \E answer \in Served : Answer(r, answer)
    /\ UNCHANGED open

Close ==
    /\ open
    /\ open' = FALSE
    /\ UNCHANGED <<pending, completions, outcome>>

Next ==
    \/ \E r \in Reqs : Accept(r) \/ Refuse(r) \/ Complete(r)
    \/ Close

\* The safety part, and the part that a closed client answers everybody.
SafeSpec == Init /\ [][Next]_vars
Answering == \A r \in Reqs : WF_vars(~open /\ Complete(r))
Spec == SafeSpec /\ Answering
=============================================================================

--------------------------- MODULE PostLifecycle ---------------------------
(***************************************************************************)
(* What the scanner promises about a job post, seen from its row: who may   *)
(* change the status and when.  There are no slots, jobs, queues or ticks   *)
(* here; JobPipeline shows how they bring this about.                       *)
(***************************************************************************)
EXTENDS Naturals

CONSTANT Posts

VARIABLES
    status,         \* JobPost.status
    work,           \* what is going on for the post
    announced       \* its match notifications

vars == <<status, work, announced>>

Works == {"none", "analysing", "announcing"}

Init ==
    /\ status = [p \in Posts |-> "ABSENT"]
    /\ work = [p \in Posts |-> "none"]
    /\ announced = [p \in Posts |-> 0]

Arrive(p) ==
    /\ status[p] = "ABSENT"
    /\ status' = [status EXCEPT ![p] = "NEW"]
    /\ UNCHANGED <<work, announced>>

\* A NEW post is analysed by one analyst at a time.
Begin(p) ==
    /\ status[p] = "NEW" /\ work[p] = "none"
    /\ status' = [status EXCEPT ![p] = "PROCESSING"]
    /\ work' = [work EXCEPT ![p] = "analysing"]
    /\ UNCHANGED announced

\* The analysis ends without a verdict: the post waits again or is given up, or, when
\* not even that can be written, stays as it is.
GiveUp(p) ==
    /\ work[p] = "analysing"
    /\ work' = [work EXCEPT ![p] = "none"]
    /\ \/ UNCHANGED status
       \/ /\ status[p] = "PROCESSING"
          /\ \E st \in {"NEW", "FAILED"} : status' = [status EXCEPT ![p] = st]
    /\ UNCHANGED announced

\* The verdict: a match is announced afterwards.
Decide(p) ==
    /\ work[p] = "analysing" /\ status[p] = "PROCESSING"
    /\ status' = [status EXCEPT ![p] = "PROCESSED"]
    /\ \E next \in {"none", "announcing"} : work' = [work EXCEPT ![p] = next]
    /\ UNCHANGED announced

\* createEvent may fail; then the match is not announced at all.
Announce(p) ==
    /\ work[p] = "announcing"
    /\ work' = [work EXCEPT ![p] = "none"]
    /\ announced' \in {announced, [announced EXCEPT ![p] = @ + 1]}
    /\ UNCHANGED status

\* The operator moves a set of posts, all of them from the same status.
Move(S, from, to) ==
    /\ \A p \in S : status[p] \in from
    /\ status' = [p \in Posts |-> IF p \in S THEN to ELSE status[p]]
    /\ UNCHANGED <<work, announced>>

Dismiss(S) == Move(S, {"NEW"}, "SKIPPED")
Retry(S)   == Move(S, {"FAILED"}, "NEW")
Delete(S)  == Move(S, {"NEW", "PROCESSING", "PROCESSED", "FAILED", "SKIPPED"}, "DELETED")

Next ==
    \/ \E p \in Posts : Arrive(p) \/ Begin(p) \/ GiveUp(p) \/ Decide(p) \/ Announce(p)
    \/ \E S \in SUBSET Posts : Dismiss(S) \/ Retry(S) \/ Delete(S)

Spec == Init /\ [][Next]_vars
=============================================================================

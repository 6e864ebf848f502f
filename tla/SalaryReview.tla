------------------------------ MODULE SalaryReview ------------------------------
(***************************************************************************)
(* SalaryReviewService and EmployeeService: the salary reviews of one       *)
(* employee, the compensation rate that each raise writes beside its        *)
(* review, and the employee's status with its termination stamp.            *)
(***************************************************************************)
EXTENDS Integers

CONSTANTS Requests,
          Forms,         \* the fields that review forms carry
          MaxRequests    \* bound of the requests that begin

VARIABLES review,     \* SalaryReview rows by id, or NoRow
          rates,      \* EmployeeCompensationRate rows; the note names the review
          employee,   \* status, and whether terminatedAt is stamped
          req,        \* the requests at work
          begun,      \* requests so far
          raced,      \* history: reviews, or Person, written from a stale row
          deleted     \* history: reviews deleted while a raise was written

vars == <<review, rates, employee, req, begun, raced, deleted>>

Reviews == 1..2
Person == 0             \* stands for the employee among the reviews
NoRow == [result |-> "gone"]
Idle == [pc |-> "idle"]
Blank == [result |-> "none", rate |-> 0, date |-> 0]   \* 0 for a column left empty
Written(i) == review[i].result # "gone"
Hired == employee.status # "gone"

Init ==
    /\ review = [i \in Reviews |-> NoRow] /\ rates = {}
    /\ employee = [status |-> "ACTIVE", stamped |-> FALSE]
    /\ req = [r \in Requests |-> Idle] /\ begun = 0 /\ raced = {} /\ deleted = {}

Goto(r, rec) == req' = [req EXCEPT ![r] = rec]
Fresh(r) == req[r].pc = "idle" /\ begun < MaxRequests /\ begun' = begun + 1

-----------------------------------------------------------------------------
(* Reviews.                                                                *)

Carries(form, field) == field \in DOMAIN form
Stored(row, form) == [f \in DOMAIN row |-> IF Carries(form, f) THEN form[f] ELSE row[f]]

\* What update works out: unlike the row, an emptied result or rate keeps the old
\* one here, and only the effective date can be emptied.
Resulting(row, form) ==
    LET kept(f, empty) == IF Carries(form, f) /\ form[f] # empty THEN form[f] ELSE row[f]
    IN [result |-> kept("result", "none"), rate |-> kept("rate", 0), date |-> Stored(row, form).date]
Complete(n) == n.rate # 0 /\ n.date # 0
Rejected(n) == n.result = "INCREASED" /\ ~Complete(n)

RateOf(i, n) == [note |-> i, rate |-> n.rate, date |-> n.date]
Of(i) == {x \in rates : x.note = i}

\* One transaction: the review and, for a raise, its rate.
Create(r, i, form) ==
    /\ ~Written(i) /\ i \notin deleted /\ \A j \in Reviews : j < i => Written(j)
    /\ Hired /\ Fresh(r)
    /\ LET row == Stored(Blank, form)
       IN IF Rejected(row) THEN UNCHANGED <<review, rates>>
          ELSE /\ review' = [review EXCEPT ![i] = row]
               /\ rates' = rates \union (IF row.result = "INCREASED" THEN {RateOf(i, row)} ELSE {})
    /\ UNCHANGED <<employee, req, raced, deleted>>

UpdateBegins(r, i, form) ==
    /\ Written(i) /\ Fresh(r)
    /\ LET n == Resulting(review[i], form)
       IN Goto(r, IF Rejected(n) THEN Idle
                  ELSE [pc |-> "write", id |-> i, form |-> form, next |-> n, stale |-> FALSE])
    /\ UNCHANGED <<review, rates, employee, raced, deleted>>

\* A raise is written anew each time; any other result takes its rate back.
\* Mutant: the rate of the earlier form stays beside the new one.
RewiredBeside(i, n) == IF n.result = "INCREASED" THEN rates \union {RateOf(i, n)} ELSE rates \ Of(i)
Rewired(i, n) == (rates \ Of(i)) \union (IF n.result = "INCREASED" THEN {RateOf(i, n)} ELSE {})

Overtaken(q, id) == IF q.pc \in {"write", "patch", "drop"} /\ q.id = id THEN [q EXCEPT !.stale = TRUE] ELSE q

\* A deletion that has locked a rate and waits for the review is in deadlock with
\* this transaction, and the database gives one of the two up.
Deadlock(i) == {q \in Requests : req[q].pc = "drop" /\ req[q].id = i /\ req[q].took # {}}

Write(r) ==
    /\ req[r].pc = "write"
    /\ LET i == req[r].id
       IN \/ /\ ~Written(i) \/ Deadlock(i) # {}
             /\ Goto(r, Idle)
             /\ UNCHANGED <<review, rates, raced>>
          \/ /\ Written(i)
             /\ review' = [review EXCEPT ![i] = Stored(review[i], req[r].form)]
             /\ rates' = Rewired(i, req[r].next)
             /\ raced' = raced \union (IF req[r].stale THEN {i} ELSE {})
             /\ req' = [q \in Requests |-> IF q = r \/ q \in Deadlock(i) THEN Idle ELSE Overtaken(req[q], i)]
    /\ UNCHANGED <<employee, begun, deleted>>

\* remove: the rates are deleted and locked, then the review.
RemoveBegins(r, i) ==
    /\ Written(i) /\ Fresh(r)
    /\ Goto(r, [pc |-> "drop", id |-> i, took |-> Of(i), stale |-> FALSE])
    /\ UNCHANGED <<review, rates, employee, raced, deleted>>

Drop(r) ==
    /\ req[r].pc = "drop"
    /\ LET i == req[r].id
       IN IF Written(i)
          THEN /\ review' = [review EXCEPT ![i] = NoRow]
               /\ rates' = rates \ req[r].took
               /\ deleted' = deleted \union {i}
               /\ raced' = raced \union (IF req[r].stale THEN {i} ELSE {})
          ELSE UNCHANGED <<review, rates, deleted, raced>>
    /\ Goto(r, Idle)
    /\ UNCHANGED <<employee, begun>>

-----------------------------------------------------------------------------
(* The employee.                                                           *)

PatchBegins(r, status) ==
    /\ Hired /\ Fresh(r)
    /\ Goto(r, [pc |-> "patch", id |-> Person, was |-> employee.status, to |-> status, stale |-> FALSE])
    /\ UNCHANGED <<review, rates, employee, raced, deleted>>

\* terminatedAt follows the edge from the status that was read.
Stamp(to, was) == IF to = "TERMINATED" THEN was = "TERMINATED" => employee.stamped ELSE FALSE

Patch(r) ==
    /\ req[r].pc = "patch"
    /\ IF Hired
       THEN /\ employee' = [status |-> req[r].to, stamped |-> Stamp(req[r].to, req[r].was)]
            /\ raced' = raced \union (IF req[r].stale THEN {Person} ELSE {})
            /\ req' = [q \in Requests |-> IF q = r THEN Idle ELSE Overtaken(req[q], Person)]
       ELSE Goto(r, Idle) /\ UNCHANGED <<employee, raced>>
    /\ UNCHANGED <<review, rates, begun, deleted>>

\* The reviews and the rates go with the row.
RemoveEmployee ==
    /\ Hired /\ begun > 0
    /\ employee' = [status |-> "gone", stamped |-> FALSE]
    /\ review' = [i \in Reviews |-> NoRow] /\ rates' = {}
    /\ UNCHANGED <<req, begun, raced, deleted>>

Next ==
    \/ RemoveEmployee
    \/ \E r \in Requests :
          \/ \E i \in Reviews : RemoveBegins(r, i) \/ \E f \in Forms : Create(r, i, f) \/ UpdateBegins(r, i, f)
          \/ Write(r) \/ Drop(r)
          \/ \E s \in {"ACTIVE", "TERMINATED"} : PatchBegins(r, s)
          \/ Patch(r)

Spec == Init /\ [][Next]_vars

-----------------------------------------------------------------------------
(* Properties.                                                             *)

\* Every variable keeps its type.
TypeOK ==
    /\ \A i \in Reviews : review[i] = NoRow \/ DOMAIN review[i] = DOMAIN Blank
    /\ rates \subseteq [note : Reviews, rate : 1..2, date : 1..2]
    /\ employee \in [status : {"ACTIVE", "TERMINATED", "gone"}, stamped : BOOLEAN]
    /\ raced \subseteq Reviews \union {Person}

\* A raise has its one rate, of its amount and date, and a review without one, or
\* deleted, has none, unless an update of it overlapped; a form that empties the rate, or the
\* result, of a raise leaves the old rate standing.
RateFollowsReview ==
    \A i \in Reviews \ raced :
        /\ review[i].result = "INCREASED" /\ Complete(review[i]) => Of(i) = {RateOf(i, review[i])}
        /\ review[i].result \in {"NO_CHANGE", "POSTPONED", "gone"} => Of(i) = {}

\* Whatever the order of the updates, a review never has two rates.
OneRate == \A i \in Reviews : \A x, y \in Of(i) : x = y

\* A terminated employee has a termination date and no other has, unless two
\* updates of the status overlapped; an overlap can lose the stamp, never add one.
StampedOnce ==
    /\ employee.stamped => employee.status = "TERMINATED"
    /\ employee.status = "TERMINATED" /\ Person \notin raced => employee.stamped

SalarySound ==
    /\ RateFollowsReview
    /\ OneRate
    /\ StampedOnce
=============================================================================

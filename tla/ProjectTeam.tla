------------------------------ MODULE ProjectTeam ------------------------------
(***************************************************************************)
(* ProjectService: one project from its creation to its deletion.  Every    *)
(* request reads the row, checks what it read, and writes later; the status *)
(* history and the client's timeline are written beside the row.            *)
(***************************************************************************)
EXTENDS Integers, Sequences, SequencesExt, FiniteSets

CONSTANTS Requests,
          Forms,         \* the fields that update forms carry
          MaxRequests    \* bound of the requests that begin

VARIABLES project,   \* the row, or NoRow
          history,   \* ProjectStatusHistory, by effectiveAt
          linked,    \* per client: events that link the project less those that unlink it
          payments,  \* weekly entries of the project
          req,       \* the requests at work
          begun,     \* requests so far
          crashed,   \* history: the service stopped under a request
          raced,     \* history: fields written from a row that had changed, or not told of
          wiped      \* history: payments that a deletion took and had not counted

vars == <<project, history, linked, payments, req, begun, crashed, raced, wiped>>

Clients == {"c1", "c2"}
NoRow == [status |-> "gone"]
Idle == [pc |-> "idle"]
There == project.status # "gone"
Blank == [status |-> "planned", start |-> 1, end |-> 1, client |-> "none", members |-> {}]

Init ==
    /\ project = NoRow /\ history = <<>> /\ linked = [c \in Clients |-> 0] /\ payments = 0
    /\ req = [r \in Requests |-> Idle] /\ begun = 0
    /\ crashed = FALSE /\ raced = {} /\ wiped = "nothing"

Goto(r, rec) == req' = [req EXCEPT ![r] = rec]
Fresh(r) == req[r].pc = "idle" /\ begun < MaxRequests /\ begun' = begun + 1

-----------------------------------------------------------------------------
(* create: the row, then the first line of its history, then the timeline.  *)

CreateRow(r, client) ==
    /\ begun = 0 /\ Fresh(r)
    /\ project' = [Blank EXCEPT !.client = client]
    /\ Goto(r, [pc |-> "seed", client |-> client])
    /\ UNCHANGED <<history, linked, payments, crashed, raced, wiped>>

\* The first line bears the time of creation: readers see it first even when an
\* update has added its own already.  It fails when the project is gone.
SeedHistory(r) ==
    /\ req[r].pc = "seed"
    /\ history' = IF There THEN <<"planned">> \o history ELSE history
    /\ Goto(r, IF There THEN [pc |-> "tell", old |-> "none", new |-> req[r].client] ELSE Idle)
    /\ UNCHANGED <<project, linked, payments, begun, crashed, raced, wiped>>

-----------------------------------------------------------------------------
(* update.                                                                 *)

Carries(form, field) == field \in DOMAIN form
Merged(row, form) == [f \in DOMAIN row |-> IF Carries(form, f) THEN form[f] ELSE row[f]]

\* assertDateRangeValid, of the row that was read under the form.
UpdateBegins(r, form) ==
    /\ There /\ Fresh(r)
    /\ LET next == Merged(project, form)
       IN Goto(r, IF next.start <= next.end
                  THEN [pc |-> "transaction", form |-> form, client |-> project.client, behind |-> {}]
                  ELSE Idle)
    /\ UNCHANGED <<project, history, linked, payments, crashed, raced, wiped>>

\* Inside the transaction, but before the row is locked.
ReadStatus(r) ==
    /\ req[r].pc = "transaction"
    /\ Goto(r, IF There
               THEN [pc |-> "write", form |-> req[r].form, client |-> req[r].client,
                     behind |-> req[r].behind \ {"status"}, status |-> project.status]
               ELSE Idle)
    /\ UNCHANGED <<project, history, linked, payments, begun, crashed, raced, wiped>>

\* A form that moves one date relies on the other.
ReliesOn(form) ==
    DOMAIN form \union (IF Carries(form, "start") \/ Carries(form, "end") THEN {"start", "end"} ELSE {})

\* Mutant: every update that names a status adds a line to the history.
TransitionNamed(form, before) == Carries(form, "status")
Transition(form, before) == Carries(form, "status") /\ form.status # before

Overtaken(q, form) ==
    IF q.pc \in {"transaction", "write"} THEN [q EXCEPT !.behind = @ \union DOMAIN form] ELSE q

\* The row, its history and its members, in one transaction; a row that is gone
\* rolls all of it back.
Write(r) ==
    /\ req[r].pc = "write"
    /\ IF There
       THEN LET form == req[r].form
                next == Merged(project, form)
            IN /\ project' = next
               /\ history' = IF Transition(form, req[r].status) THEN Append(history, form.status) ELSE history
               /\ raced' = raced \union (req[r].behind \intersect ReliesOn(form))
               /\ req' = [q \in Requests |->
                            IF q # r THEN Overtaken(req[q], form)
                            ELSE IF Carries(form, "client")
                                 THEN [pc |-> "tell", old |-> req[r].client, new |-> next.client]
                                 ELSE Idle]
       ELSE Goto(r, Idle) /\ UNCHANGED <<project, history, raced>>
    /\ UNCHANGED <<linked, payments, begun, crashed, wiped>>

\* emitClientProjectLinkActivity: of a client to another, an event on each; recordSafe
\* swallows the error of an event that cannot be written.
Told(old, new) ==
    [c \in Clients |-> linked[c] + (IF new = c THEN 1 ELSE 0) - (IF old = c THEN 1 ELSE 0)]

Tell(r) ==
    /\ req[r].pc = "tell"
    /\ \/ linked' = Told(req[r].old, req[r].new) /\ UNCHANGED raced
       \/ /\ \E old \in {req[r].old, "none"}, new \in {req[r].new, "none"} : linked' = Told(old, new)
          /\ raced' = raced \union {"client"}
    /\ Goto(r, Idle)
    /\ UNCHANGED <<project, history, payments, begun, crashed, wiped>>

-----------------------------------------------------------------------------
(* remove, what others do to the project meanwhile, and a restart.          *)

\* Mutant: weekly payments do not hold a project back.
BlockedByMembers == project.members # {}
Blocked == payments > 0 \/ project.members # {}

RemoveBegins(r) ==
    /\ There /\ Fresh(r)
    /\ Goto(r, IF Blocked THEN Idle ELSE [pc |-> "delete", late |-> FALSE])
    /\ UNCHANGED <<project, history, linked, payments, crashed, raced, wiped>>

\* The history, the members and the weekly entries go with the row.
Delete(r) ==
    /\ req[r].pc = "delete"
    /\ project' = NoRow /\ history' = <<>> /\ payments' = 0
    /\ wiped' = IF payments = 0 \/ wiped = "counted" THEN wiped
                ELSE IF req[r].late THEN "uncounted" ELSE "counted"
    /\ Goto(r, Idle)
    /\ UNCHANGED <<linked, begun, crashed, raced>>

\* FinanceWeekly upserts a week's payment of the project.
PaymentArrives ==
    /\ There /\ payments = 0
    /\ payments' = 1
    /\ req' = [q \in Requests |->
                 IF req[q].pc = "delete" THEN [pc |-> "delete", late |-> TRUE] ELSE req[q]]
    /\ UNCHANGED <<project, history, linked, begun, crashed, raced, wiped>>

Crash ==
    /\ \E r \in Requests : req[r].pc # "idle"
    /\ ~crashed /\ crashed' = TRUE
    /\ req' = [r \in Requests |-> Idle]
    /\ UNCHANGED <<project, history, linked, payments, begun, raced, wiped>>

Next ==
    \/ PaymentArrives \/ Crash
    \/ \E r \in Requests :
          \/ \E c \in Clients \union {"none"} : CreateRow(r, c)
          \/ \E f \in Forms : UpdateBegins(r, f)
          \/ SeedHistory(r) \/ ReadStatus(r) \/ Write(r) \/ Tell(r)
          \/ RemoveBegins(r) \/ Delete(r)

Spec == Init /\ [][Next]_vars

-----------------------------------------------------------------------------
(* Properties.                                                             *)

\* Every variable keeps its type.
TypeOK ==
    /\ project = NoRow \/ DOMAIN project = DOMAIN Blank
    /\ history \in Seq({"planned", "active"})
    /\ linked \in [Clients -> Int] /\ payments \in 0..1 /\ raced \subseteq DOMAIN Blank
    /\ wiped \in {"nothing", "uncounted", "counted"}

\* The status history, read by effectiveAt, ends in the project's status and no
\* line repeats the one before, unless two updates of the status overlapped or
\* the service stopped before the first line was written.
HistoryIsStatus ==
    /\ There /\ ~crashed /\ "status" \notin raced
    /\ \A r \in Requests : req[r].pc # "seed"
    => /\ Last(history) = project.status
       /\ \A i \in 1..(Len(history) - 1) : history[i] # history[i + 1]

\* A project begins no later than it ends, unless two updates each moved a date.
DatesOrdered == There /\ raced \intersect {"start", "end"} = {} => project.start <= project.end

\* Once all requests have answered, the clients' timelines together say whose the
\* project is, unless two changes of the client overlapped or one was lost with a restart or a
\* refused write.
TimelineTellsClient ==
    There /\ ~crashed /\ "client" \notin raced /\ (\A r \in Requests : req[r].pc = "idle") =>
        \A c \in Clients : linked[c] = IF project.client = c THEN 1 ELSE 0

\* A deletion takes weekly payments with it only if they came after it counted.
PaymentsCounted == wiped # "counted"

ProjectSound ==
    /\ HistoryIsStatus
    /\ DatesOrdered
    /\ TimelineTellsClient
    /\ PaymentsCounted
=============================================================================

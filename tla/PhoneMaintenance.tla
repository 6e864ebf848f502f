-------------------------- MODULE PhoneMaintenance --------------------------
(***************************************************************************)
(* Maintenance of SIM cards: PhoneMaintenanceService opens a task when a   *)
(* number falls due, operators tick its two actions or skip it, and the    *)
(* closing of a task schedules the next cycle.  complete and skip read the *)
(* task first and write what they computed later, in a transaction.  The   *)
(* unit of time is a month; a date falls on the first day of its month.    *)
(***************************************************************************)
EXTENDS Integers, FiniteSets

CONSTANTS Phones, Requests, Users,
          Horizon,      \* bound of the clock
          MaxCalls,     \* bound of the operators' calls
          MaxFaults     \* bound of the failing inserts of ensureTasks

VARIABLES now,
          phone,    \* status, maintenanceRequired and nextMaintenanceAt
          task,     \* the PhoneMaintenance rows, unique by phone and dueAt
          sweep,    \* ensureTasks at work: the candidates it read
          req,      \* complete and skip between their read and their write
          calls, faults,
          edited,   \* history: phones whose date an operator has set
          said      \* history: what the operators made of each task, as it should stand

vars == <<now, phone, task, sweep, req, calls, faults, edited, said>>

Cycle == 3                      \* computeNextMaintenanceDate
Months == 0..Horizon + Cycle
Never == Horizon + Cycle + 1    \* nextMaintenanceAt = null
Absent == [st |-> "absent", network |-> "no", topup |-> "no", by |-> "-"]
IdleSweep == [pc |-> "idle", todo |-> {}]
IdleReq == [pc |-> "idle", p |-> "-", due |-> 0, user |-> "-", row |-> Absent,
            seen |-> {}, asks |-> {}]
Closed == {"COMPLETED", "SKIPPED"}
Boxes == {"network", "topup"}

\* What operators have made of a task: the boxes ticked, and that it is closed.
Marks(t) ==
    {b \in Boxes : t[b] = "yes"} \cup (IF t.st \in Closed THEN {"closed"} ELSE {})

Init ==
    /\ now = 0
    /\ phone = [p \in Phones |-> [st |-> "ACTIVE", required |-> "yes", next |-> Cycle]]
    /\ task = [p \in Phones |-> [d \in Months |-> Absent]]
    /\ sweep = IdleSweep
    /\ req = [r \in Requests |-> IdleReq]
    /\ calls = 0 /\ faults = 0 /\ edited = {}
    /\ said = [p \in Phones |-> [d \in Months |-> {}]]

\* A request, and the hourly sweep, end within their month.
Month ==
    /\ now < Horizon /\ now' = now + 1
    /\ sweep.pc = "idle" /\ \A r \in Requests : req[r].pc = "idle"
    /\ UNCHANGED <<phone, task, sweep, req, calls, faults, edited, said>>

-----------------------------------------------------------------------------
(* ensureTasks.                                                            *)

\* Mutants: a task is made a month ahead; numbers on hold are left out.
CandidateAhead(p) ==
    /\ phone[p].required = "yes" /\ phone[p].st \in {"ACTIVE", "HOLD"}
    /\ phone[p].next <= now + 1
CandidateActive(p) ==
    /\ phone[p].required = "yes" /\ phone[p].st = "ACTIVE"
    /\ phone[p].next <= now
Candidate(p) ==
    /\ phone[p].required = "yes" /\ phone[p].st \in {"ACTIVE", "HOLD"}
    /\ phone[p].next <= now

SweepStart ==
    /\ sweep.pc = "idle"
    /\ \E p \in Phones : Candidate(p) \/ \E d \in Months : task[p][d].st = "DUE"
    /\ sweep' = [pc |-> "create",
                 todo |-> {<<p, phone[p].next>> : p \in {q \in Phones : Candidate(q)}}]
    /\ UNCHANGED <<now, phone, task, req, calls, faults, edited, said>>

\* One insert; the unique key refuses a second task for a date.
SweepCreate(c) ==
    /\ sweep.pc = "create" /\ c \in sweep.todo
    /\ \/ /\ task' = IF task[c[1]][c[2]].st # "absent" THEN task
                     ELSE [task EXCEPT ![c[1]][c[2]] = [Absent EXCEPT !.st = "DUE"]]
          /\ UNCHANGED faults
       \/ /\ faults < MaxFaults /\ faults' = faults + 1
          /\ UNCHANGED task
    /\ sweep' = [sweep EXCEPT !.todo = @ \ {c}]
    /\ UNCHANGED <<now, phone, req, calls, edited, said>>

SweepCreates == \E c \in sweep.todo : SweepCreate(c)

Flipped(t, d) == IF t.st = "DUE" /\ d <= now THEN [t EXCEPT !.st = "OVERDUE"] ELSE t

SweepFlip ==
    /\ sweep.pc = "create" /\ sweep.todo = {}
    /\ task' = [p \in Phones |-> [d \in Months |-> Flipped(task[p][d], d)]]
    /\ sweep' = IdleSweep
    /\ UNCHANGED <<now, phone, req, calls, faults, edited, said>>

-----------------------------------------------------------------------------
(* Operators.                                                              *)

\* A box the form ticks is ticked, the others stay as they were read.
Ticked(t, network, topup) ==
    [t EXCEPT !.network = IF network = "yes" THEN "yes" ELSE @,
              !.topup   = IF topup = "yes" THEN "yes" ELSE @]

\* complete() up to its transaction: one or both boxes ticked.
CompleteRead(r, p, d, u, network, topup) ==
    LET t == task[p][d] IN
    /\ req[r].pc = "idle" /\ calls < MaxCalls
    /\ t.st \notin Closed \cup {"absent"}
    /\ "yes" \in {network, topup}
    /\ req' = [req EXCEPT ![r] =
                 [pc |-> "complete", p |-> p, due |-> d, user |-> u,
                  row |-> Ticked(t, network, topup), seen |-> Marks(t),
                  asks |-> Marks(Ticked(Absent, network, topup))]]
    /\ calls' = calls + 1
    /\ UNCHANGED <<now, phone, task, sweep, faults, edited, said>>

BothDone(row) == row.network = "yes" /\ row.topup = "yes"

\* Mutant: the next cycle starts after the one it should be.
NextCycleTwice == now + 2 * Cycle
NextCycle == now + Cycle

\* The row is written from what was read, the phone only when both are done.
Finished(q) ==
    IF BothDone(q.row) THEN [q.row EXCEPT !.st = "COMPLETED", !.by = q.user]
    ELSE [q.row EXCEPT !.by = "-"]

\* Mutant: the completed task does not move the date of its phone.
MovedNot(q) == phone
Moved(q) == IF BothDone(q.row) THEN [phone EXCEPT ![q.p].next = NextCycle] ELSE phone

CompleteTx(r) ==
    LET q == req[r] IN
    /\ q.pc = "complete"
    /\ task' = [task EXCEPT ![q.p][q.due] = Finished(q)]
    /\ phone' = Moved(q)
    /\ edited' = IF BothDone(q.row) THEN edited \ {q.p} ELSE edited
    /\ req' = [req EXCEPT ![r] = IdleReq]
    /\ said' = [said EXCEPT ![q.p][q.due] =
                  IF Marks(task[q.p][q.due]) = q.seen
                  THEN @ \cup q.asks \cup (Marks(Finished(q)) \cap {"closed"})
                  ELSE Marks(Finished(q))]
    /\ UNCHANGED <<now, sweep, calls, faults>>

\* skip() does not ask whether the task is still open.
Skip(p, d, u) ==
    /\ calls < MaxCalls /\ calls' = calls + 1
    /\ task[p][d].st # "absent"
    /\ task' = [task EXCEPT ![p][d].st = "SKIPPED", ![p][d].by = u]
    /\ phone' = [phone EXCEPT ![p].next = NextCycle]
    /\ edited' = edited \ {p}
    /\ said' = [said EXCEPT ![p][d] = @ \cup {"closed"}]
    /\ UNCHANGED <<now, sweep, req, faults>>

\* PhoneNumbersService.update: the status, the flag or the date.
Edit(p, st, required, next) ==
    /\ calls < MaxCalls /\ calls' = calls + 1
    /\ phone[p] # [st |-> st, required |-> required, next |-> next]
    /\ phone' = [phone EXCEPT ![p] = [st |-> st, required |-> required, next |-> next]]
    /\ edited' = IF next = phone[p].next THEN edited ELSE edited \cup {p}
    /\ UNCHANGED <<now, task, sweep, req, faults, said>>

\* disable() keeps the date; the tasks stay where they are.
Disable(p) ==
    /\ calls < MaxCalls /\ calls' = calls + 1
    /\ phone[p].st # "DISABLED"
    /\ phone' = [phone EXCEPT ![p].st = "DISABLED", ![p].required = "no"]
    /\ UNCHANGED <<now, task, sweep, req, faults, edited, said>>

Next ==
    \/ Month \/ SweepStart \/ SweepCreates \/ SweepFlip
    \/ \E r \in Requests, p \in Phones, d \in 0..Horizon, u \in Users,
          network, topup \in {"yes", "no"} : CompleteRead(r, p, d, u, network, topup)
    \/ \E r \in Requests : CompleteTx(r)
    \/ \E p \in Phones, d \in 0..Horizon, u \in Users : Skip(p, d, u)
    \/ \E p \in Phones : Disable(p)
    \/ \E p \in Phones : \E next \in {phone[p].next, now, Never}, st \in {"ACTIVE", "HOLD"} :
          Edit(p, st, "yes", next)

\* The cron runs the sweep every hour and the sweep goes through its list.
Fairness ==
    /\ WF_vars(SweepStart) /\ WF_vars(SweepFlip)
    /\ WF_vars(SweepCreates)

Spec == Init /\ [][Next]_vars
FairSpec == Spec /\ Fairness

-----------------------------------------------------------------------------
\* Every variable has its type.
TypeOK ==
    /\ now \in 0..Horizon
    /\ phone \in [Phones -> [st : {"ACTIVE", "HOLD", "DISABLED"},
                             required : {"yes", "no"}, next : Months \cup {Never}]]
    /\ task \in [Phones -> [Months ->
                   [st : {"absent", "DUE", "OVERDUE"} \cup Closed,
                    network : {"yes", "no"}, topup : {"yes", "no"},
                    by : Users \cup {"-"}]]]
    /\ sweep.pc \in {"idle", "create"} /\ sweep.todo \subseteq Phones \X Months
    /\ edited \subseteq Phones
    /\ said \in [Phones -> [Months -> SUBSET (Boxes \cup {"closed"})]]

\* The date of a phone is never that of a task already closed, unless an
\* operator has set it: the unique key would refuse the new task and the
\* cycle of the phone would end (skip, "so the loop continues").
LoopContinues ==
    \A p \in Phones \ edited, d \in Months :
        task[p][d].st \in Closed => phone[p].next > d

\* No task is opened for a month that has not begun.
NoTaskAhead == \A p \in Phones, d \in Months : task[p][d].st # "absent" => d <= now

InService(p) == phone[p].required = "yes" /\ phone[p].st # "DISABLED"

\* Again and again every number in service that is due has its task: one whose
\* insert failed gets it from a later sweep, and the unique key never refuses
\* one for ever (ensureTasks).
NothingWaits ==
    \A p \in Phones :
        InService(p) /\ phone[p].next <= now => task[p][phone[p].next].st # "absent"
DueGetsTask == []<>NothingWaits

\* A box that was ticked stays ticked and a closed task stays closed through
\* the sweeps, the other operators and later calls (complete, "Idempotent"),
\* unless a complete() wrote over a row that had changed since it read it.
TicksStand == \A p \in Phones, d \in Months : said[p][d] \subseteq Marks(task[p][d])

\* The maintenance loop of a number neither ends nor runs ahead of its date,
\* and no step of it loses what an operator has done (ensureTasks, complete,
\* skip, update, disable).
LoopSound ==
    /\ LoopContinues
    /\ NoTaskAhead
    /\ TicksStand
=============================================================================

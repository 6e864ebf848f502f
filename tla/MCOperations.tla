---------------------------- MODULE MCOperations ----------------------------
(*****************************************************************************)
(* What the people of the company do through the CRM: backups, call          *)
(* reminders, deploys, uploads, phone numbers, payroll, invoices, weekly     *)
(* money, time off, projects and salaries, each behaviour about one of       *)
(* them.                                                                     *)
(*****************************************************************************)
EXTENDS Machines, Integers, FiniteSets, TLC

CONSTANTS InvoiceRequests, LastWeekday, Policies, ProjectForms, Ranges,
          ReviewForms, ReviewRequests, Sheets, TaxPercents, TeamRequests,
          WeekStatuses, Weeks

VARIABLE part   \* the component that this behaviour is about
\* The variables of the components, by their names there; those that the behaviour
\* does not need are "-".
VARIABLES tax, begun, items, name, objects, overlap, crossed, entry, today,
          absence, policy, project, history, linked, payments, crashed,
          wiped, review, rates, employee, deleted

\* Sheets of the forms, in cents and hundredths of a percent.
Sheet(k, r, h, b, x, a, f) ==
    [rateType |-> k, rate |-> r, hours |-> h, bonusPct |-> b, fixedBonus |-> x,
     advance |-> a, feePct |-> f]
SheetsOfForms ==
    {Sheet("MONTHLY", 150000, 0, 1250, 0, 400000, 300), Sheet("MONTHLY", 150003, 0, 0, 0, 0, 10000),
     Sheet("HOURLY", 1333, 777, 0, 0, 10351, 300), Sheet("HOURLY", 1333, 0, 0, 500, 0, 300)}

\* The last weeks of fiscal 2025 and the first of 2026; calendar 2026 begins in the first of them.
WeeksOfProject == {<<2025, 50>>, <<2025, 51>>, <<2026, 0>>}

\* Whole days that are asked for, and one policy of the year.
RangesAsked == {<<0, 0>>, <<2, 4>>, <<3, 3>>}
PoliciesSet == {[vacation |-> 0, weekdays |-> 1..6, negative |-> FALSE]}

\* Bodies of PATCH requests for a project and for a salary review.
FormsOfProjects ==
    {[status |-> "active"], [start |-> 2], [end |-> 0], [end |-> 2],
     [client |-> "c2", members |-> {"e"}], [client |-> "none", members |-> {}]}
FormsOfReviews ==
    {[result |-> "INCREASED", rate |-> 1, date |-> 1], [rate |-> 2], [rate |-> 0],
     [result |-> "NO_CHANGE"], [result |-> "none"]}

Payroll == INSTANCE Payroll WITH
    Requests <- Callers

Invoices == INSTANCE Invoices WITH
    Requests <- Callers, MaxRequests <- InvoiceRequests

Weekly == INSTANCE WeeklyMoney WITH
    Requests <- Callers, Statuses <- WeekStatuses, LastDay <- LastWeekday

Absences == INSTANCE TimeOff WITH
    Requests <- Callers

Team == INSTANCE ProjectTeam WITH
    Requests <- Callers, Forms <- ProjectForms, MaxRequests <- TeamRequests

Salaries == INSTANCE SalaryReview WITH
    Requests <- Callers, Forms <- ReviewForms, MaxRequests <- ReviewRequests

\* What the components take their constants to be, each explained there: no amount is negative,
\* and forms have the columns of their tables.
ASSUME OperationsAssumption ==
    /\ Sheets \subseteq [rateType : {"HOURLY", "MONTHLY"}, rate : Nat, hours : Nat, bonusPct : Nat,
                            fixedBonus : Nat, advance : Nat, feePct : 0..10000]
    /\ TaxPercents \subseteq Nat
    /\ InvoiceRequests \in Nat
    /\ Weeks \subseteq Int \X Int
    /\ LastWeekday \in Int /\ LastWeekday >= 20
    /\ Ranges \subseteq Absences!Days \X Absences!Days
    /\ Policies \subseteq [vacation : Nat, weekdays : SUBSET (0..6), negative : BOOLEAN]
    /\ IsFiniteSet(Callers) /\ TeamRequests \in Nat /\ ReviewRequests \in Nat
    /\ \A f \in ProjectForms :
          /\ DOMAIN f \subseteq {"status", "start", "end", "client", "members"}
          /\ "status" \in DOMAIN f => f["status"] \in {"planned", "active"}
          /\ "start" \in DOMAIN f => f["start"] \in Int
          /\ "end" \in DOMAIN f => f["end"] \in Int
          /\ "client" \in DOMAIN f => f["client"] \in Team!Clients \union {"none"}
    /\ \A f \in ReviewForms :
          /\ "result" \in DOMAIN f => f["result"] \in {"none", "INCREASED", "NO_CHANGE", "POSTPONED"}
          /\ "rate" \in DOMAIN f => f["rate"] \in 0..2
          /\ "date" \in DOMAIN f => f["date"] \in 0..2

varsBackup == <<clock, pc, proc, row, bucket, lock, prune, watch, gate,
                 faults, reversed>>
varsReminders == <<clock, up, call, stamps, tick, sent, notices, op, edits,
                    missed, faults, hurt>>
varsPhone == <<now, phone, task, sweep, req, calls, faults, edited, said>>
varsDeploy == <<tip, head, built, running, db, state, release, dist, lock,
                 caller, run, unlock, faults, unlocks, raced>>
varsUpload == <<row, b2, file, folder, req, expiries, faults>>
varsPayroll == <<row, req, tax, lock, begun, edits>>
varsInvoices == <<row, items, name, objects, req, begun, faults, overlap,
                   crossed>>
varsWeekly == <<entry, req, today, begun>>
varsAbsences == <<absence, policy, edited, req, begun>>
varsTeam == <<project, history, linked, payments, req, begun, crashed,
               raced, wiped>>
varsSalaries == <<review, rates, employee, req, begun, raced, deleted>>
slots == <<clock, pc, proc, row, bucket, lock, prune, watch, gate, faults,
           reversed, up, call, stamps, tick, sent, notices, op, edits,
           missed, hurt, now, phone, task, sweep, req, calls, edited, said,
           tip, head, built, running, db, state, release, dist, caller, run,
           unlock, unlocks, raced, b2, file, folder, expiries, tax, begun,
           items, name, objects, overlap, crossed, entry, today, absence,
           policy, project, history, linked, payments, crashed, wiped,
           review, rates, employee, deleted>>
allVars == <<part, slots>>

\* What belongs to one component only, and its being absent.
ownBackup == <<pc, proc, bucket, prune, watch, gate, reversed>>
ownReminders == <<up, call, stamps, tick, sent, notices, op, missed, hurt>>
ownPhone == <<now, phone, task, sweep, calls, said>>
ownDeploy == <<tip, head, built, running, db, state, release, dist, caller,
                run, unlock, unlocks>>
ownUpload == <<b2, file, folder, expiries>>
ownPayroll == <<tax>>
ownInvoices == <<items, name, objects, overlap, crossed>>
ownWeekly == <<entry, today>>
ownAbsences == <<absence, policy>>
ownTeam == <<project, history, linked, payments, crashed, wiped>>
ownSalaries == <<review, rates, employee, deleted>>
NoBackup ==
    /\ pc = "-" /\ proc = "-" /\ bucket = "-" /\ prune = "-" /\ watch = "-"
    /\ gate = "-" /\ reversed = "-"
NoReminders ==
    /\ up = "-" /\ call = "-" /\ stamps = "-" /\ tick = "-" /\ sent = "-"
    /\ notices = "-" /\ op = "-" /\ missed = "-" /\ hurt = "-"
NoPhone ==
    /\ now = "-" /\ phone = "-" /\ task = "-" /\ sweep = "-" /\ calls = "-"
    /\ said = "-"
NoDeploy ==
    /\ tip = "-" /\ head = "-" /\ built = "-" /\ running = "-" /\ db = "-"
    /\ state = "-" /\ release = "-" /\ dist = "-" /\ caller = "-" /\ run = "-"
    /\ unlock = "-" /\ unlocks = "-"
NoUpload ==
    /\ b2 = "-" /\ file = "-" /\ folder = "-" /\ expiries = "-"
NoPayroll ==
    /\ tax = "-"
NoInvoices ==
    /\ items = "-" /\ name = "-" /\ objects = "-" /\ overlap = "-" /\ crossed = "-"
NoWeekly ==
    /\ entry = "-" /\ today = "-"
NoAbsences ==
    /\ absence = "-" /\ policy = "-"
NoTeam ==
    /\ project = "-" /\ history = "-" /\ linked = "-" /\ payments = "-" /\ crashed = "-"
    /\ wiped = "-"
NoSalaries ==
    /\ review = "-" /\ rates = "-" /\ employee = "-" /\ deleted = "-"

PartsInit ==
    \/ /\ part = "backup" /\ Backup!Init
       /\ NoReminders /\ NoPhone /\ NoDeploy /\ NoUpload /\ NoPayroll
       /\ NoInvoices /\ NoWeekly /\ NoAbsences /\ NoTeam /\ NoSalaries
       /\ edits = "-" /\ req = "-" /\ edited = "-" /\ raced = "-" /\ begun = "-"
    \/ /\ part = "reminders" /\ Reminders!Init
       /\ NoBackup /\ NoPhone /\ NoDeploy /\ NoUpload /\ NoPayroll
       /\ NoInvoices /\ NoWeekly /\ NoAbsences /\ NoTeam /\ NoSalaries
       /\ row = "-" /\ lock = "-" /\ req = "-" /\ edited = "-" /\ raced = "-"
       /\ begun = "-"
    \/ /\ part = "phone" /\ Phone!Init
       /\ NoBackup /\ NoReminders /\ NoDeploy /\ NoUpload /\ NoPayroll
       /\ NoInvoices /\ NoWeekly /\ NoAbsences /\ NoTeam /\ NoSalaries
       /\ clock = "-" /\ row = "-" /\ lock = "-" /\ edits = "-" /\ raced = "-"
       /\ begun = "-"
    \/ /\ part = "deploy" /\ Deploy!Init
       /\ NoBackup /\ NoReminders /\ NoPhone /\ NoUpload /\ NoPayroll
       /\ NoInvoices /\ NoWeekly /\ NoAbsences /\ NoTeam /\ NoSalaries
       /\ clock = "-" /\ row = "-" /\ edits = "-" /\ req = "-" /\ edited = "-"
       /\ begun = "-"
    \/ /\ part = "upload" /\ Upload!Init
       /\ NoBackup /\ NoReminders /\ NoPhone /\ NoDeploy /\ NoPayroll
       /\ NoInvoices /\ NoWeekly /\ NoAbsences /\ NoTeam /\ NoSalaries
       /\ clock = "-" /\ lock = "-" /\ edits = "-" /\ edited = "-" /\ raced = "-"
       /\ begun = "-"
    \/ /\ part = "payroll" /\ Payroll!Init
       /\ NoBackup /\ NoReminders /\ NoPhone /\ NoDeploy /\ NoUpload
       /\ NoInvoices /\ NoWeekly /\ NoAbsences /\ NoTeam /\ NoSalaries
       /\ clock = "-" /\ faults = "-" /\ edited = "-" /\ raced = "-"
    \/ /\ part = "invoices" /\ Invoices!Init
       /\ NoBackup /\ NoReminders /\ NoPhone /\ NoDeploy /\ NoUpload
       /\ NoPayroll /\ NoWeekly /\ NoAbsences /\ NoTeam /\ NoSalaries
       /\ clock = "-" /\ lock = "-" /\ edits = "-" /\ edited = "-" /\ raced = "-"
    \/ /\ part = "weekly" /\ Weekly!Init
       /\ NoBackup /\ NoReminders /\ NoPhone /\ NoDeploy /\ NoUpload
       /\ NoPayroll /\ NoInvoices /\ NoAbsences /\ NoTeam /\ NoSalaries
       /\ clock = "-" /\ row = "-" /\ lock = "-" /\ faults = "-" /\ edits = "-"
       /\ edited = "-" /\ raced = "-"
    \/ /\ part = "absences" /\ Absences!Init
       /\ NoBackup /\ NoReminders /\ NoPhone /\ NoDeploy /\ NoUpload
       /\ NoPayroll /\ NoInvoices /\ NoWeekly /\ NoTeam /\ NoSalaries
       /\ clock = "-" /\ row = "-" /\ lock = "-" /\ faults = "-" /\ edits = "-"
       /\ raced = "-"
    \/ /\ part = "team" /\ Team!Init
       /\ NoBackup /\ NoReminders /\ NoPhone /\ NoDeploy /\ NoUpload
       /\ NoPayroll /\ NoInvoices /\ NoWeekly /\ NoAbsences /\ NoSalaries
       /\ clock = "-" /\ row = "-" /\ lock = "-" /\ faults = "-" /\ edits = "-"
       /\ edited = "-"
    \/ /\ part = "salaries" /\ Salaries!Init
       /\ NoBackup /\ NoReminders /\ NoPhone /\ NoDeploy /\ NoUpload
       /\ NoPayroll /\ NoInvoices /\ NoWeekly /\ NoAbsences /\ NoTeam
       /\ clock = "-" /\ row = "-" /\ lock = "-" /\ faults = "-" /\ edits = "-"
       /\ edited = "-"

PartsNext ==
    \/ /\ part = "backup" /\ Backup!Next
       /\ UNCHANGED <<part, ownReminders, edits, ownPhone, req, edited,
                       ownDeploy, raced, ownUpload, ownPayroll, begun,
                       ownInvoices, ownWeekly, ownAbsences, ownTeam,
                       ownSalaries>>
    \/ /\ part = "reminders" /\ Reminders!Next
       /\ UNCHANGED <<part, ownBackup, row, lock, ownPhone, req, edited,
                       ownDeploy, raced, ownUpload, ownPayroll, begun,
                       ownInvoices, ownWeekly, ownAbsences, ownTeam,
                       ownSalaries>>
    \/ /\ part = "phone" /\ Phone!Next
       /\ UNCHANGED <<part, clock, ownBackup, row, lock, ownReminders,
                       edits, ownDeploy, raced, ownUpload, ownPayroll, begun,
                       ownInvoices, ownWeekly, ownAbsences, ownTeam,
                       ownSalaries>>
    \/ /\ part = "deploy" /\ Deploy!Next
       /\ UNCHANGED <<part, clock, ownBackup, row, ownReminders, edits,
                       ownPhone, req, edited, ownUpload, ownPayroll, begun,
                       ownInvoices, ownWeekly, ownAbsences, ownTeam,
                       ownSalaries>>
    \/ /\ part = "upload" /\ Upload!Next
       /\ UNCHANGED <<part, clock, ownBackup, lock, ownReminders, edits,
                       ownPhone, edited, ownDeploy, raced, ownPayroll, begun,
                       ownInvoices, ownWeekly, ownAbsences, ownTeam,
                       ownSalaries>>
    \/ /\ part = "payroll" /\ Payroll!Next
       /\ UNCHANGED <<part, clock, ownBackup, faults, ownReminders,
                       ownPhone, edited, ownDeploy, raced, ownUpload,
                       ownInvoices, ownWeekly, ownAbsences, ownTeam,
                       ownSalaries>>
    \/ /\ part = "invoices" /\ Invoices!Next
       /\ UNCHANGED <<part, clock, ownBackup, lock, ownReminders, edits,
                       ownPhone, edited, ownDeploy, raced, ownUpload,
                       ownPayroll, ownWeekly, ownAbsences, ownTeam,
                       ownSalaries>>
    \/ /\ part = "weekly" /\ Weekly!Next
       /\ UNCHANGED <<part, clock, ownBackup, row, lock, faults,
                       ownReminders, edits, ownPhone, edited, ownDeploy,
                       raced, ownUpload, ownPayroll, ownInvoices,
                       ownAbsences, ownTeam, ownSalaries>>
    \/ /\ part = "absences" /\ Absences!Next
       /\ UNCHANGED <<part, clock, ownBackup, row, lock, faults,
                       ownReminders, edits, ownPhone, ownDeploy, raced,
                       ownUpload, ownPayroll, ownInvoices, ownWeekly,
                       ownTeam, ownSalaries>>
    \/ /\ part = "team" /\ Team!Next
       /\ UNCHANGED <<part, clock, ownBackup, row, lock, faults,
                       ownReminders, edits, ownPhone, edited, ownDeploy,
                       ownUpload, ownPayroll, ownInvoices, ownWeekly,
                       ownAbsences, ownSalaries>>
    \/ /\ part = "salaries" /\ Salaries!Next
       /\ UNCHANGED <<part, clock, ownBackup, row, lock, faults,
                       ownReminders, edits, ownPhone, edited, ownDeploy,
                       ownUpload, ownPayroll, ownInvoices, ownWeekly,
                       ownAbsences, ownTeam>>

PartsSpec == PartsInit /\ [][PartsNext]_allVars

Symmetry == Permutations(Callers)

\* The properties of BackupRun, stated and explained there.
BackupsSafe == part = "backup" => Backup!BackupsSafe
BackupStepsSafe == [][part = "backup" => Backup!SafeStep]_allVars

\* The properties of CallReminder, stated and explained there.
RemindersSafe == part = "reminders" => Reminders!RemindersSafe

\* The properties of PhoneMaintenance, stated and explained there.
LoopSound == part = "phone" => Phone!LoopSound

\* The properties of DeployGateway, stated and explained there.
DeploySafe == part = "deploy" => Deploy!DeploySafe
WritesGuarded == [][part = "deploy" => Deploy!GuardedStep]_allVars

\* The properties of UploadSession, stated and explained there.
UploadsSound == part = "upload" => Upload!UploadsSound

\* The properties of Payroll, stated and explained there.
PaidIsLocked == [][part = "payroll" => Payroll!PaidStep]_allVars

\* Every component keeps its types, stated in each module.
TypesOK ==
    /\ part = "backup" => Backup!TypeOK
    /\ part = "reminders" => Reminders!TypeOK
    /\ part = "phone" => Phone!TypeOK
    /\ part = "deploy" => Deploy!TypeOK
    /\ part = "upload" => Upload!TypeOK
    /\ part = "payroll" => Payroll!TypeOK
    /\ part = "invoices" => Invoices!TypeOK
    /\ part = "weekly" => Weekly!TypeOK
    /\ part = "absences" => Absences!TypeOK
    /\ part = "team" => Team!TypeOK
    /\ part = "salaries" => Salaries!TypeOK

\* What is paid, invoiced and earned is kept as it was asked for, with fees and costs to
\* the cent, stated in each module.
FinanceSound ==
    /\ part = "payroll" => Payroll!AmountsFollow
    /\ part = "payroll" => Payroll!PayrollFigures
    /\ part = "invoices" => Invoices!InvoiceSound
    /\ part = "weekly" => Weekly!MoneySound

\* What is computed from it comes out right: the totals of a month and
\* the vacation days of a year.
FiguresRight ==
    /\ part = "weekly" => Weekly!TotalsAgree
    /\ part = "absences" => Absences!AllowanceKept

\* Absences, salaries and the people of projects, stated in each module.
PeopleSound ==
    /\ part = "absences" => Absences!TimeOffSound
    /\ part = "team" => Team!ProjectSound
    /\ part = "salaries" => Salaries!SalarySound

=============================================================================

------------------------------ MODULE WeeklyMoney ------------------------------
(***************************************************************************)
(* FinanceWeeklyService and FinanceAnalyticsService: what a project earns    *)
(* in each fiscal week.  A form reads the week and its entry and writes the  *)
(* whole entry; two forms may be at it.  The reports add the entries up by   *)
(* fiscal month and by calendar year.  Days are counted from 1 January 2026. *)
(***************************************************************************)
EXTENDS Integers, FiniteSets, FiniteSetsExt

CONSTANTS Requests,
          Weeks,          \* the weeks that get entries: pairs of fiscal year and number
          Statuses,       \* the payment statuses that forms use
          MaxRequests,    \* bound of the forms
          LastDay         \* bound of today

VARIABLES entry,     \* WeeklyEntry rows of one project, or NoEntry
          req,       \* the forms at work
          today,
          begun

vars == <<entry, req, today, begun>>

None == -1000
NoEntry == [status |-> "none", amount |-> 0, sent |-> None, received |-> None]
Idle == [pc |-> "idle"]

Init ==
    /\ entry = [w \in Weeks |-> NoEntry]
    /\ req = [r \in Requests |-> Idle]
    /\ today = 20 /\ begun = 0

-----------------------------------------------------------------------------
(* generate-fiscal-calendar.ts: years of 52 weeks, months of 4, 4 and 5.     *)

Years == 2025..2028
Anchor(y) == 11 + (y - 2026) * 364
FirstWeek(i) == 13 * ((i - 1) \div 3) + 4 * ((i - 1) % 3)
MonthOf(n) == CHOOSE i \in 1..12 : FirstWeek(i) <= n /\ (i = 12 \/ n < FirstWeek(i + 1))
WeekStart(w) == Anchor(w[1]) + 7 * w[2]
WeekEnd(w) == WeekStart(w) + 6

\* 1 January and 31 December of a calendar year; 2028 is a leap year.
YearStart(y) == (y - 2026) * 365 + (IF y > 2028 THEN 1 ELSE 0)
YearEnd(y) == YearStart(y + 1) - 1

-----------------------------------------------------------------------------
(* upsertEntry.                                                             *)

\* A form names the days of its milestones or leaves them out; the day is today.  Every
\* amount is 1, so that totals count entries.
FormReads(r, w, status, given) ==
    /\ begun < MaxRequests /\ req[r].pc = "idle" /\ begun' = begun + 1
    /\ req' = [req EXCEPT ![r] = [pc |-> "write", week |-> w, status |-> status, given |-> given]]
    /\ UNCHANGED <<entry, today>>

\* The body is an instance of UpsertWeeklyEntryDto: its class fields (ES2023) are all own
\* properties, so `'receivedAt' in dto` holds of every form.  A date that the form leaves
\* out is taken away; the branches that fill it in or carry the row's are never reached.
Date(f, which) == IF which \in f.given THEN today ELSE None

FormWrites(r) ==
    /\ req[r].pc = "write"
    /\ LET f == req[r]
       IN entry' = [entry EXCEPT ![f.week] =
              [status |-> f.status,
               amount |-> IF f.status = "no_work" THEN 0 ELSE 1,
               sent |-> Date(f, "sent"), received |-> Date(f, "received")]]
    /\ req' = [req EXCEPT ![r] = Idle]
    /\ UNCHANGED <<today, begun>>

DeleteEntry(w) ==
    /\ entry[w] # NoEntry
    /\ entry' = [entry EXCEPT ![w] = NoEntry]
    /\ UNCHANGED <<req, today, begun>>

Tomorrow ==
    /\ today < LastDay /\ today' = today + 1
    /\ UNCHANGED <<entry, req, begun>>

Next ==
    \/ Tomorrow
    \/ \E w \in Weeks : DeleteEntry(w)
    \/ \E r \in Requests :
          \/ \E w \in Weeks, s \in Statuses, given \in SUBSET {"sent", "received"} :
                FormReads(r, w, s, given)
          \/ FormWrites(r)

Spec == Init /\ [][Next]_vars

-----------------------------------------------------------------------------
(* The reports.                                                            *)

Total(S) == MapThenSumSet(LAMBDA w : entry[w].amount, S)
Money(w) == entry[w].status \notin {"none", "no_work"}
Received(w) == entry[w].status = "received"

\* summary: the entries of the weeks that touch the calendar year.
\* Mutant: those of the weeks that begin in it.
YearEntriesFrom(y) == {w \in Weeks : Money(w) /\ WeekStart(w) \in YearStart(y)..YearEnd(y)}
YearEntries(y) ==
    {w \in Weeks : Money(w) /\ WeekStart(w) <= YearEnd(y) /\ WeekEnd(w) >= YearStart(y)}

ReceivedYtd(y) == Total({w \in YearEntries(y) : Received(w)})
MonthEntries(y, i) == {w \in YearEntries(y) : w[1] = y /\ MonthOf(w[2]) = i}
MonthReceived(y, i) == Total({w \in MonthEntries(y, i) : Received(w)})

\* overview and listFlat of a fiscal month: computeKpi.
KpiReceived(y, i) == Total({w \in Weeks : Received(w) /\ w[1] = y /\ MonthOf(w[2]) = i})

\* nextPayoutDay; a Monday is day 1 of the week, and 1 January 2026 is a Thursday.
DayOfWeek(d) == ((d + 3) % 7) + 1
NextPayoutDay(rule, ref, monthEnd, clamp) ==
    CASE rule.type = "CUSTOM" -> IF clamp THEN monthEnd ELSE ref + 14
      [] rule.type = "FIXED_DELAY" -> ref + rule.n
      [] rule.type = "EVERY_N_WEEKS" -> ref + 7 * rule.n
      [] rule.type = "WEEKLY_ON_DOW" ->
            LET delta == rule.n - DayOfWeek(ref)
            IN ref + (IF delta <= 0 THEN delta + 7 ELSE delta)

-----------------------------------------------------------------------------
(* Properties.                                                             *)

\* Every variable keeps its type.
TypeOK ==
    /\ \A w \in Weeks :
          /\ entry[w].status \in Statuses \union {"none"}
          /\ entry[w].amount \in 0..1
          /\ {entry[w].sent, entry[w].received} \subseteq {None} \union 20..LastDay
    /\ \A r \in Requests : req[r].pc \in {"idle", "write"}
    /\ today \in 20..LastDay /\ begun \in 0..MaxRequests

\* A payment is in the month history of one fiscal month at most.  The history
\* has it unless its week lies outside the calendar year its fiscal year is
\* named for: the week of 5 to 11 January 2026, of fiscal December 2025, is in
\* the overview of its month and in no history.
MonthsAreComplete ==
    \A w \in Weeks :
        /\ \A y \in Years \ {w[1]} : w \notin MonthEntries(y, MonthOf(w[2]))
        /\ Money(w) /\ w \notin MonthEntries(w[1], MonthOf(w[2])) =>
              WeekStart(w) > YearEnd(w[1]) \/ WeekEnd(w) < YearStart(w[1])

\* The total of a year is the sum of its months, and what the weeks of the
\* fiscal year before bring that reach into it.
YearIsItsMonths ==
    \A y \in {w[1] : w \in Weeks} :
        LET months == MapThenSumSet(LAMBDA i : MonthReceived(y, i), {MonthOf(w[2]) : w \in Weeks})
            before == {w \in Weeks : Received(w) /\ w[1] = y - 1 /\ WeekEnd(w) >= YearStart(y)}
        IN ReceivedYtd(y) = months + Total(before)

\* The history of a month never says more than its overview.
HistoryWithinOverview ==
    \A w \in Weeks : MonthReceived(w[1], MonthOf(w[2])) <= KpiReceived(w[1], MonthOf(w[2]))

\* Every day of the four years is in one week of one month, and a payout on a
\* day of the week is on that day, within the next seven.  Neither depends on the
\* state, so that the first one is enough.
CalendarSound ==
    begun = 0 /\ today = 20 =>
        /\ \A y \in Years : WeekEnd(<<y, 51>>) + 1 = Anchor(y + 1)
        /\ \A y \in Years : FirstWeek(12) + 5 = 52 /\ \A i \in 1..11 : FirstWeek(i + 1) - FirstWeek(i) \in 4..5
        /\ \A ref \in 0..13, n \in 1..7 :
              LET day == NextPayoutDay([type |-> "WEEKLY_ON_DOW", n |-> n], ref, 40, FALSE)
              IN day \in ref + 1..ref + 7 /\ DayOfWeek(day) = n

MoneySound ==
    /\ MonthsAreComplete
    /\ CalendarSound

TotalsAgree ==
    /\ YearIsItsMonths
    /\ HistoryWithinOverview
=============================================================================

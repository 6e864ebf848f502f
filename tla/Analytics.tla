------------------------------- MODULE Analytics -------------------------------
(***************************************************************************)
(* The sales dashboard (AnalyticsService): what it counts of the job posts *)
(* in a window of time, three times over: the overview with Prisma, the    *)
(* heatmap with SQL grouped by local weekday and hour, and its days.  The  *)
(* unit of time is a part of a day; days, weeks and months are scaled down *)
(* and the zone of the viewer changes its offset once.                     *)
(***************************************************************************)
EXTENDS Integers, FiniteSets

LOCAL INSTANCE FiniteSetsExt

CONSTANTS Posts, Countries, German,
          Scores,          \* scores an analysis may give
          Day,             \* units of a day
          WeekDays,        \* days of a week, "7d"
          MonthDays,       \* days of "30d"
          Winter, Summer,  \* offsets of the zone from UTC before and after ClockChange
          ClockChange,
          Horizon          \* bound of the clock

VARIABLES now, post

vars == <<now, post>>

NoScore == -1
Absent == [at |-> 0, score |-> NoScore, country |-> "none"]
Present == {p \in Posts : post[p] # Absent}
Qualified == 50      \* QUALIFIED_THRESHOLD
Hot == 75            \* HOT_THRESHOLD

Init == now = Day /\ post = [p \in Posts |-> Absent]

Tick == now < Horizon /\ now' = now + 1 /\ UNCHANGED post

Arrive(p, country) ==
    /\ p \notin Present
    /\ post' = [post EXCEPT ![p] = [at |-> now, score |-> NoScore, country |-> country]]
    /\ UNCHANGED now

Analysed(p, score) ==
    /\ p \in Present /\ post[p].score = NoScore
    /\ post' = [post EXCEPT ![p].score = score]
    /\ UNCHANGED now

Next ==
    \/ Tick
    \/ \E p \in Posts, c \in Countries : Arrive(p, c)
    \/ \E p \in Posts, score \in Scores : Analysed(p, score)

Spec == Init /\ [][Next]_vars

-----------------------------------------------------------------------------
(* Windows.                                                                *)

Filters == [range : {"today", "7d", "30d"}, min : {NoScore, 60}, max : {NoScore, 70}, country : {"any", "listed"}]

\* tzOffsetMinutes, and what AT TIME ZONE makes of an instant.
Offset(t) == IF t < ClockChange THEN Winter ELSE Summer
LocalDate(t) == (t + Offset(t)) \div Day
LocalHour(t) == (t + Offset(t)) % Day

\* The midnight of the local date taken for UTC, less the offset of that instant.
StartOfLocalDay == LET midnight == LocalDate(now) * Day IN midnight - Offset(midnight)

\* Mutant: today begins with the UTC day.
UtcWindow(f) ==
    CASE f.range = "today" -> [from |-> (now \div Day) * Day, to |-> (now \div Day) * Day + Day]
      [] f.range = "7d"    -> [from |-> now - WeekDays * Day, to |-> now]
      [] f.range = "30d"   -> [from |-> now - MonthDays * Day, to |-> now]
ResolveWindow(f) ==
    CASE f.range = "today" -> [from |-> StartOfLocalDay, to |-> StartOfLocalDay + Day]
      [] f.range = "7d"    -> [from |-> now - WeekDays * Day, to |-> now]
      [] f.range = "30d"   -> [from |-> now - MonthDays * Day, to |-> now]

PreviousWindow(w) == [from |-> w.from - (w.to - w.from), to |-> w.from]
Within(p, w) == post[p].at >= w.from /\ post[p].at < w.to

-----------------------------------------------------------------------------
(* Filters.                                                                *)

InCountries(p, f) == f.country = "any" \/ post[p].country \in German

\* A bound on matchScore; a row without a score meets none, and NoScore says
\* that there is no bound.
Bounds(f) == [gte |-> f.min, lte |-> f.max, present |-> FALSE]
Meets(p, b) ==
    /\ b # [gte |-> NoScore, lte |-> NoScore, present |-> FALSE] => post[p].score # NoScore
    /\ b.gte # NoScore => post[p].score >= b.gte
    /\ b.lte # NoScore => post[p].score <= b.lte

\* buildWhere with the window, and buildWhereSql.
Where(f, w) == {p \in Present : Meets(p, Bounds(f)) /\ InCountries(p, f) /\ Within(p, w)}
WhereSql(f, w) ==
    {p \in Present :
        /\ Within(p, w)
        /\ f.min # NoScore => post[p].score # NoScore /\ post[p].score >= f.min
        /\ f.max # NoScore => post[p].score # NoScore /\ post[p].score <= f.max
        /\ InCountries(p, f)}

\* withMatchScoreConstraint: the threshold and the caller's bounds together.
\* Mutant: the threshold replaces the caller's lower bound.
Replaced(b, gte, present) == [b EXCEPT !.gte = gte, !.present = present]
Merged(b, gte, present) ==
    [b EXCEPT !.gte = IF gte = NoScore THEN @ ELSE IF @ = NoScore \/ gte > @ THEN gte ELSE @,
              !.present = present]
Constrained(f, w, gte, present) ==
    {p \in Present : Meets(p, Merged(Bounds(f), gte, present)) /\ InCountries(p, f) /\ Within(p, w)}

-----------------------------------------------------------------------------
(* The overview and the heatmap.                                           *)

AggregateKpi(f, w) ==
    [received |-> Cardinality(Where(f, w)),
     qualified |-> Cardinality(Constrained(f, w, Qualified, FALSE)),
     hot |-> Cardinality(Constrained(f, w, Hot, FALSE)),
     scored |-> Cardinality(Constrained(f, w, NoScore, TRUE))]

\* pgDowToMondayIdx: the database's week begins on Sunday, the grid's on Monday.
\* Mutant: Sunday is left where the subtraction puts it.
SundayLost(dow) == dow - 1
MondayIdx(dow) == IF dow = 0 THEN WeekDays - 1 ELSE dow - 1
CellOf(p) == <<MondayIdx(LocalDate(post[p].at) % WeekDays), LocalHour(post[p].at)>>
DayCellOf(p) == <<LocalDate(post[p].at), LocalHour(post[p].at)>>

\* One row of a grouped query, and the second query that counts its countries.
Count(rows) ==
    [total |-> Cardinality(rows),
     qualified |-> Cardinality({p \in rows : post[p].score >= Qualified}),
     hot |-> Cardinality({p \in rows : post[p].score >= Hot})]
CountryRows(rows) ==
    {<<DayCellOf(p), post[p].country, Cardinality({q \in rows : DayCellOf(q) = DayCellOf(p) /\ post[q].country = post[p].country})>> :
        p \in rows}

\* All cells of the week, and the cells that a day has.
Heatmap(f) ==
    LET rows == WhereSql(f, ResolveWindow(f)) IN
    [cell \in (0..WeekDays - 1) \X (0..Day - 1) |-> Count({p \in rows : CellOf(p) = cell})]
Daily(f) ==
    LET rows == WhereSql(f, ResolveWindow(f)) IN
    [cell \in {DayCellOf(p) : p \in rows} |-> Count({p \in rows : DayCellOf(p) = cell})]

-----------------------------------------------------------------------------
\* Every variable has its type.
TypeOK ==
    /\ now \in Day..Horizon
    /\ post \in [Posts -> [at : 0..Horizon, score : Scores \union {NoScore}, country : Countries \union {"none"}]]

Total(map, field) == MapThenSumSet(LAMBDA cell : map[cell][field], DOMAIN map)

\* The heatmap, by week and by day, holds exactly what the overview counts for
\* the same filter (getOpportunityHeatmap, getSalesOverview: one is SQL, the
\* other Prisma, and the local time of a post picks its cell).
HeatmapAddsUp ==
    \A f \in Filters :
        LET kpi == AggregateKpi(f, ResolveWindow(f))
            week == Heatmap(f)
            days == Daily(f)
            Adds(map) == /\ Total(map, "total") = kpi.received
                         /\ Total(map, "qualified") = kpi.qualified
                         /\ Total(map, "hot") = kpi.hot
        IN  Adds(week) /\ (f.range = "30d" => Adds(days))

\* The countries of a day's cell add up to its total ("inflates the tooltip's
\* country counts past the cell's own total"): the two queries group alike.
CountriesAddUp ==
    \A f \in {g \in Filters : g.range = "30d"} :
        LET days == Daily(f)
            rows == CountryRows(WhereSql(f, ResolveWindow(f)))
        IN  \A cell \in DOMAIN days :
                days[cell].total = MapThenSumSet(LAMBDA r : r[3], {r \in rows : r[1] = cell})

\* A post counted as qualified, hot or scored passes the filter of the caller
\* ("score-range filters were silently ignored", withMatchScoreConstraint).
FilterKept ==
    \A f \in Filters :
        LET w == ResolveWindow(f) IN
        \A gte \in {NoScore, Qualified, Hot} :
            Constrained(f, w, gte, TRUE)
                = {p \in Where(f, w) : post[p].score # NoScore /\ post[p].score >= gte}

\* No post counts in a period and in the one before it, and a post that has just
\* come counts today; on the day that changes the clocks the day of 24 hours may
\* end before the local one (resolveWindow, previousWindow, startOfLocalDay).
WindowsHold ==
    \A f \in Filters :
        LET w == ResolveWindow(f) IN
        /\ Where(f, w) \intersect Where(f, PreviousWindow(w)) = {}
        /\ f.range = "today" /\ Offset(w.from) = Offset(w.to)
              => w.from <= now /\ now < w.to /\ LocalHour(w.from) = 0

\* The dashboard's figures agree with each other and with its filters.
FiguresAgree ==
    /\ HeatmapAddsUp
    /\ CountriesAddUp
    /\ FilterKept
    /\ WindowsHold
=============================================================================

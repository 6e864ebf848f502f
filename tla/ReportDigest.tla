----------------------------- MODULE ReportDigest -----------------------------
(***************************************************************************)
(* Daily project reports and their way to Discord: ProjectReportService    *)
(* and DiscordReportService file one report per project and date;          *)
(* DiscordSchedulersService posts the digest of a date in chunks, and      *)
(* DiscordLateReportService a card for each report that is late.  A cron   *)
(* starts a tick every minute whether or not the last one is over.         *)
(*                                                                         *)
(* A day has three parts: 0 before DEFAULT_CUTOFF (10:00), 1 until          *)
(* dailyDigestAt (19:00), 2 after that.                                    *)
(***************************************************************************)
EXTENDS Integers, FiniteSets

CONSTANTS Projects,     \* 1..n
          Cutoff,       \* cutoffHour of the active profile, as a part of the day
          Reports,      \* ids of reports, 1..n
          Ticks,        \* ids of ticks, 1..n
          ChunkSize,    \* embeds in a message
          Horizon,      \* bound of the clock; day 1 begins at 3
          MaxLoad,      \* bound of the reports filed and the ticks at work together
          MaxFaults     \* bound of failed calls and lost answers

VARIABLES clock,
          report,   \* ProjectReport rows and the requests that make them, and
                    \* which rule is to post each: as late, with the digest
          made,     \* createdAt of the rows: the first, the second, ..., 0 for none yet
          chunk,    \* DiscordDelivery rows of digests, by date and number
          late,     \* DiscordDelivery rows of late reports
          tick,     \* the ticks at work
          shown,    \* how often a report was posted to the PM channel
          twice,    \* history: late rows that two ticks had in hand together
          moved,    \* history: dates whose rows changed after a digest read them
          faults

vars == <<clock, report, made, chunk, late, tick, shown, twice, moved, faults>>

Day(t) == t \div 3
PartOf(t) == t % 3
DefaultCutoff == 1
DigestAt == 2
Dates == 0..Day(Horizon) + 1
NoReport == [is |-> "none", project |-> 0, date |-> 0, late |-> FALSE, digest |-> FALSE,
             enqueued |-> "no"]
NoTick == [pc |-> "idle", rows |-> {}, date |-> 0, i |-> 0, todo |-> {}, cur |-> 0]
NoChunk == [status |-> "none", lease |-> "none"]

Init ==
    /\ clock = 3
    /\ report = [r \in Reports |-> NoReport] /\ made = [r \in Reports |-> 0]
    /\ chunk = [d \in Dates |-> [n \in 0..Cardinality(Reports) |-> NoChunk]]
    /\ late = [r \in Reports |-> "none"]
    /\ tick = [k \in Ticks |-> NoTick]
    /\ shown = [r \in Reports |-> 0]
    /\ twice = {} /\ moved = {} /\ faults = 0

Room == Cardinality({r \in Reports : report[r].is # "none"})
        + Cardinality({k \in Ticks : tick[k].pc # "idle"}) < MaxLoad
Fault == faults < MaxFaults /\ faults' = faults + 1

-----------------------------------------------------------------------------
(* logical-date.ts.                                                        *)

LogicalDate(t, cut) == IF PartOf(t) < cut THEN Day(t) - 1 ELSE Day(t)
IsLateReport(t) == LogicalDate(t, DefaultCutoff) < Day(t) \/ PartOf(t) >= DigestAt
Deadline(d) == 3 * d + DigestAt

-----------------------------------------------------------------------------
(* Filing a report: a slash command, or a form with a date to choose.      *)

\* Ids and projects are numbered as they come.
NextId(r, p) ==
    /\ report[r].is = "none" /\ \A q \in Reports : q < r => report[q].is # "none"
    /\ Room
    /\ \A n \in 1..p - 1 : \E q \in Reports : report[q].project = n

Row(is, p, d, late_, at) ==
    [NoReport EXCEPT !.is = is, !.project = p, !.date = d,
                     !.late = late_, !.digest = at < Deadline(d)]

\* The check under the advisory lock of project and date.
\* Mutant: a row that is already there is not looked for.
TakenNever(r, p, d, states) == "live" \notin states /\ \E q \in Reports \ {r} :
    report[q].is \in states /\ report[q].project = p /\ report[q].date = d
Taken(r, p, d, states) ==
    \E q \in Reports \ {r} : /\ report[q].is \in states
                             /\ report[q].project = p /\ report[q].date = d

\* The command goes by the moment it came in.
SlashCommand(r, p) ==
    /\ NextId(r, p)
    /\ report' = [report EXCEPT ![r] =
           Row("asked", p, LogicalDate(clock, Cutoff), IsLateReport(clock), clock)]
    /\ UNCHANGED made

\* enqueueLateDeliveryIfNeeded goes by createdAt and the date of the row.
\* Mutant: the date is not looked at.
FormIsLateNow(d, at) == IsLateReport(at)
FormIsLate(d, at) == d < Day(at) \/ IsLateReport(at)

MadeNow(r) == [made EXCEPT ![r] = 1 + Cardinality({q \in Reports : made[q] > 0})]

Form(r, p, d) ==
    /\ NextId(r, p) /\ ~Taken(r, p, d, {"live", "inserted"})
    /\ report' = [report EXCEPT ![r] = Row("inserted", p, d, FormIsLate(d, clock), clock)]
    /\ made' = MadeNow(r)

File ==
    /\ \E r \in Reports, p \in Projects :
          SlashCommand(r, p) \/ \E d \in Day(clock) - 1..Day(clock) + 1 : Form(r, p, d)
    /\ UNCHANGED <<clock, chunk, late, tick, shown, twice, moved, faults>>

\* createFromDiscord; a command that is refused leaves nothing.
Insert(r) ==
    /\ report[r].is = "asked"
    /\ LET p == report[r].project
           d == report[r].date
       IN /\ ~Taken(r, p, d, {"inserted"})
          /\ IF Taken(r, p, d, {"live"})
             THEN report' = [report EXCEPT ![r] = NoReport] /\ UNCHANGED made
             ELSE /\ report' = [report EXCEPT ![r] = Row("inserted", p, d, @.late, clock)]
                  /\ made' = MadeNow(r)
    /\ UNCHANGED <<clock, chunk, late, tick, shown, twice, moved, faults>>

\* The digest of d has been read, or part of it was sent.
Read(d) == \/ \E k \in Ticks : tick[k].date = d /\ tick[k].rows # {}
           \/ chunk[d][0].status # "none"
Moves(r) == moved' = IF Read(report[r].date) THEN moved \union {report[r].date} ELSE moved

Commit(r) ==
    /\ report[r].is = "inserted"
    /\ report' = [report EXCEPT ![r].is = "live"]
    /\ Moves(r)
    /\ UNCHANGED <<clock, made, chunk, late, tick, shown, twice, faults>>

Enqueue(r) ==
    /\ report[r].is \in {"live", "deleted"} /\ report[r].enqueued = "no"
    /\ report' = [report EXCEPT ![r].enqueued = "done"]
    /\ \/ late' = (IF report[r].late THEN [late EXCEPT ![r] = "PENDING"] ELSE late) /\ UNCHANGED faults
       \/ Fault /\ UNCHANGED late
    /\ UNCHANGED <<clock, made, chunk, tick, shown, twice, moved>>

DeleteReport(r) ==
    /\ report[r].is = "live"
    /\ report' = [report EXCEPT ![r].is = "deleted"]
    /\ Moves(r)
    /\ UNCHANGED <<clock, made, chunk, late, tick, shown, twice, faults>>

-----------------------------------------------------------------------------
(* runDailyDigest and sendChunked.                                         *)

Step(k, rec) == tick' = [tick EXCEPT ![k] = rec]
Goto(k, pc) == [tick[k] EXCEPT !.pc = pc]
ToLate == [NoTick EXCEPT !.pc = "late"]

\* The rows created before the deadline.
DigestRows(d) == {r \in Reports : report[r].is = "live" /\ report[r].date = d /\ report[r].digest}

TickStarts(k) ==
    /\ tick[k].pc = "idle" /\ \A j \in Ticks : j < k => tick[j].pc # "idle"
    /\ Room
    /\ LET d == LogicalDate(clock, Cutoff)
       IN Step(k, IF PartOf(clock) >= DigestAt
                  THEN [NoTick EXCEPT !.pc = "claim", !.date = d, !.rows = DigestRows(d)]
                  ELSE ToLate)
    /\ UNCHANGED <<clock, report, made, chunk, late, shown, twice, moved, faults>>

Chunk(k) == chunk[tick[k].date][tick[k].i]
\* The chunk of r when the rows S are cut by createdAt.
ChunkOf(r, S) == Cardinality({q \in S : made[q] < made[r]}) \div ChunkSize
InChunk(k) == {r \in tick[k].rows : ChunkOf(r, tick[k].rows) = tick[k].i}
SetChunk(k, rec) == chunk' = [chunk EXCEPT ![tick[k].date][tick[k].i] = rec]

\* Mutant: the lease of another tick is not respected.
LeasedNever(k) == FALSE
Leased(k) == Chunk(k).status = "PENDING" /\ Chunk(k).lease = "held"

Claim(k) ==
    /\ tick[k].pc = "claim"
    /\ IF InChunk(k) = {} \/ (Leased(k) /\ Chunk(k).status # "SENT")
       THEN Step(k, ToLate) /\ UNCHANGED chunk
       ELSE IF Chunk(k).status = "SENT"
       THEN Step(k, [tick[k] EXCEPT !.i = @ + 1]) /\ UNCHANGED chunk
       ELSE Step(k, Goto(k, "send")) /\ SetChunk(k, [status |-> "PENDING", lease |-> "held"])
    /\ UNCHANGED <<clock, report, made, late, shown, twice, moved, faults>>

Showing(S) == shown' = [r \in Reports |-> IF r \in S THEN shown[r] + 1 ELSE shown[r]]

Send(k) ==
    /\ tick[k].pc = "send"
    /\ Showing(InChunk(k)) /\ Step(k, Goto(k, "sent"))
    /\ UNCHANGED <<clock, report, made, chunk, late, twice, moved, faults>>

\* A rate limit keeps the lease.  postMessage turns all else into an error status,
\* which gives the lease back: also a timeout, whose message may be in the channel.
SendFails(k) ==
    /\ tick[k].pc = "send" /\ Fault
    /\ \/ \E l \in {"none", "held"} : SetChunk(k, [status |-> "PENDING", lease |-> l])
          /\ UNCHANGED shown
       \/ Showing(InChunk(k)) /\ SetChunk(k, [status |-> "PENDING", lease |-> "none"])
    /\ Step(k, ToLate)
    /\ UNCHANGED <<clock, report, made, late, twice, moved>>

FinaliseSuccess(k) ==
    /\ tick[k].pc = "sent"
    /\ \/ /\ SetChunk(k, [status |-> "SENT", lease |-> "none"])
          /\ Step(k, [tick[k] EXCEPT !.pc = "claim", !.i = @ + 1])
          /\ UNCHANGED faults
       \/ Fault /\ Step(k, ToLate) /\ UNCHANGED chunk
    /\ UNCHANGED <<clock, report, made, late, shown, twice, moved>>

\* CHUNK_LEASE_TTL_MS is longer than a send, but for a fault.
LeaseEnds(d, n) ==
    /\ chunk[d][n].lease = "held"
    /\ chunk' = [chunk EXCEPT ![d][n].lease = "none"]
    /\ IF \E k \in Ticks : tick[k].pc \in {"send", "sent"} /\ tick[k].date = d /\ tick[k].i = n
       THEN Fault ELSE UNCHANGED faults
    /\ UNCHANGED <<clock, report, made, late, tick, shown, twice, moved>>

-----------------------------------------------------------------------------
(* DiscordLateReportService.tick: the pending rows are read once, and sent  *)
(* one by one without a lock; MAX_ATTEMPTS is out of the bounds' reach.     *)

InHand(k) == tick[k].todo \union {tick[k].cur}

LateRead(k) ==
    /\ tick[k].pc = "late"
    /\ LET pending == {r \in Reports : late[r] = "PENDING"}
       IN /\ Step(k, [tick[k] EXCEPT !.pc = "next", !.todo = pending])
          /\ twice' = twice \union
                 {r \in pending : \E j \in Ticks \ {k} : r \in InHand(j)}
    /\ UNCHANGED <<clock, report, made, chunk, late, shown, moved, faults>>

LateSend(k) ==
    /\ tick[k].pc = "next"
    /\ IF tick[k].todo = {}
       THEN Step(k, NoTick) /\ UNCHANGED <<shown, faults>>
       ELSE \E r \in tick[k].todo :
              \/ /\ Showing({r}) /\ UNCHANGED faults
                 /\ Step(k, [tick[k] EXCEPT !.pc = "mark", !.todo = @ \ {r}, !.cur = r])
              \/ /\ Fault
                 /\ shown' \in {shown, [shown EXCEPT ![r] = @ + 1]}
                 /\ \/ Step(k, [tick[k] EXCEPT !.todo = @ \ {r}])
                    \/ Step(k, NoTick)
    /\ UNCHANGED <<clock, report, made, chunk, late, twice, moved>>

LateMark(k) ==
    /\ tick[k].pc = "mark"
    /\ \/ /\ late' = [late EXCEPT ![tick[k].cur] = "SENT"]
          /\ Step(k, [tick[k] EXCEPT !.pc = "next", !.cur = 0])
          /\ UNCHANGED faults
       \/ Fault /\ Step(k, NoTick) /\ UNCHANGED late
    /\ UNCHANGED <<clock, report, made, chunk, shown, twice, moved>>

-----------------------------------------------------------------------------

Advance ==
    /\ clock < Horizon
    /\ clock' = clock + 1
    /\ UNCHANGED <<report, made, chunk, late, tick, shown, twice, moved, faults>>

TickStep(k) ==
    \/ TickStarts(k) \/ Claim(k) \/ Send(k) \/ SendFails(k) \/ FinaliseSuccess(k)
    \/ LateRead(k) \/ LateSend(k) \/ LateMark(k)

Next ==
    \/ Advance \/ File
    \/ \E r \in Reports : Insert(r) \/ Commit(r) \/ Enqueue(r) \/ DeleteReport(r)
    \/ \E k \in Ticks : TickStep(k)
    \/ \E d \in Dates, n \in 0..Cardinality(Reports) : LeaseEnds(d, n)

Spec == Init /\ [][Next]_vars

-----------------------------------------------------------------------------
(* Properties.                                                             *)

\* Every variable keeps its type.
TypeOK ==
    /\ clock \in 3..Horizon
    /\ \A r \in Reports :
          /\ report[r].is \in {"none", "asked", "inserted", "live", "deleted"}
          /\ report[r].date \in Dates
    /\ late \in [Reports -> {"none", "PENDING", "SENT"}]
    /\ \A d \in Dates, n \in 0..Cardinality(Reports) :
          chunk[d][n] \in [status : {"none", "PENDING", "SENT"}, lease : {"none", "held"}]
    /\ \A k \in Ticks : tick[k].pc \in {"idle", "claim", "send", "sent", "late", "next",
                                        "mark", "done"}
    /\ shown \in [Reports -> Nat] /\ twice \subseteq Reports /\ moved \subseteq Dates

\* The two rules, for a row made now, for the date d, by a form, or by a command
\* that came in at "then".  They disagree at these moments and at no others: a
\* form filled in before 10:00 or after 19:00 for a day whose digest is still to
\* come is posted by both; a command is posted by both, or by neither, when
\* cutoffHour is not 10, and by neither when 19:00 falls between its arrival and
\* its insert.  Only the clock counts, so that the states without a report are enough.
OwnersAgree == (\A r \in Reports : report[r].is = "none") =>
    /\ \A d \in Day(clock) - 1..Day(clock) + 1 :
          /\ FormIsLate(d, clock) \/ clock < Deadline(d)
          /\ FormIsLate(d, clock) /\ clock < Deadline(d) =>
                d >= Day(clock) /\ PartOf(clock) # DefaultCutoff
    /\ \A then \in 3..clock, cut \in 0..2 :
          LET d == LogicalDate(then, cut)
          IN /\ IsLateReport(then) /\ clock < Deadline(d) => cut < DefaultCutoff
             /\ ~IsLateReport(then) /\ clock >= Deadline(d) =>
                   cut > DefaultCutoff \/ then < Deadline(Day(then))

\* A report is posted once, unless both rules own it, a call fails, two ticks
\* overlap on its card, or rows of its date came or went during the digest.
PostedOnce ==
    \A r \in Reports : shown[r] > 1 =>
        \/ report[r].late /\ report[r].digest
        \/ faults > 0 \/ r \in twice \/ report[r].date \in moved

\* A report that somebody owns is not forgotten: until it is posted there is a
\* row for its card, or its chunk is not marked as sent.
NotForgotten ==
    \A r \in Reports :
        /\ report[r].is = "live" /\ report[r].enqueued = "done" /\ shown[r] = 0
        /\ faults = 0 /\ report[r].date \notin moved
        => \/ late[r] = "PENDING"
           \/ ~report[r].late /\ ~report[r].digest
           \/ /\ report[r].digest
              /\ chunk[report[r].date][ChunkOf(r, DigestRows(report[r].date))].status # "SENT"

\* A project has one report for a date, whichever way and however often it
\* was filed.
OneReportPerDay ==
    \A q, r \in Reports :
        /\ q # r /\ report[q].is = "live" /\ report[r].is = "live"
        => report[q].project # report[r].project \/ report[q].date # report[r].date

\* What reports and digests keep together.
DigestSound ==
    /\ OwnersAgree
    /\ PostedOnce
    /\ NotForgotten
    /\ OneReportPerDay
=============================================================================

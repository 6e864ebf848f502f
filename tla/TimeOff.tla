-------------------------------- MODULE TimeOff --------------------------------
(***************************************************************************)
(* TimeOffService: the absences of one employee around a new year.  A       *)
(* request checks for overlaps, then the allowance, then writes; nothing in *)
(* the database keeps two requests apart.  Day 0 is Monday 29 December.     *)
(***************************************************************************)
EXTENDS Integers, FiniteSets, FiniteSetsExt

CONSTANTS Requests,
          Ranges,        \* first and last days that forms use
          MaxRequests,   \* bound of the requests that begin
          Policies       \* policies that the settings page may hold, after the first

VARIABLES absence,   \* TimeOff rows by id, or NoRow
          policy,    \* vacation days per year, working weekdays, negative balance
          edited,    \* history: the policy has changed
          req,       \* the requests at work
          begun

vars == <<absence, policy, edited, req, begun>>

Days == 0..6
Ids == 1..MaxRequests
NoRow == [type |-> "none"]
Idle == [pc |-> "idle"]
Types == {"VACATION", "UNPAID_LEAVE"}

Init ==
    /\ absence = [i \in Ids |-> NoRow]
    /\ policy = [vacation |-> 1, weekdays |-> 1..5, negative |-> FALSE] /\ edited = FALSE
    /\ req = [r \in Requests |-> Idle] /\ begun = 0

Rows == {i \in Ids : absence[i].type # "none"}

-----------------------------------------------------------------------------
(* The calendar.                                                            *)

Weekday(d) == (d + 1) % 7
YearOf(d) == IF d < 3 THEN 2025 ELSE 2026
FirstDay(year) == Min({d \in Days : YearOf(d) = year})
LastDay(year) == Max({d \in Days : YearOf(d) = year})

WorkingDays(start, end, weekdays) == Cardinality({d \in start..end : Weekday(d) \in weekdays})
\* Mutant: the last day of the year is left out.
InYearOpen(start, end, year, weekdays) ==
    WorkingDays(Max({start, FirstDay(year)}), Min({end, LastDay(year) - 1}), weekdays)
InYear(start, end, year, weekdays) ==
    WorkingDays(Max({start, FirstDay(year)}), Min({end, LastDay(year)}), weekdays)

\* calendar: what the wall chart of a month draws of an absence.
Segment(a, year) ==
    [days |-> Max({a.start, FirstDay(year)})..Min({a.end, LastDay(year)}),
     left |-> a.start < FirstDay(year), right |-> a.end > LastDay(year)]

-----------------------------------------------------------------------------
(* create, update and remove.                                               *)

Goto(r, rec) == req' = [req EXCEPT ![r] = rec]

\* assertNoOverlap; a row does not overlap itself.
Overlaps(a, b) == a.start <= b.end /\ a.end >= b.start
\* Mutant: days that touch at the end of the other are not seen.
ClashOpen(id, form) == \E i \in Rows \ {id} : absence[i].start < form.end /\ absence[i].end > form.start
Clash(id, form) == \E i \in Rows \ {id} : Overlaps(absence[i], form)

Begin(r, id, form) ==
    /\ req[r].pc = "idle" /\ begun < MaxRequests /\ begun' = begun + 1
    /\ Goto(r, IF Clash(id, form) THEN Idle
               ELSE [pc |-> "allowance", id |-> id, form |-> form, new |-> id \notin Rows, blind |-> {}])
    /\ UNCHANGED <<absence, policy, edited>>

Form(type, range) == [type |-> type, start |-> range[1], end |-> range[2]]
CreateBegins(r, type, range) == Begin(r, begun + 1, Form(type, range))
UpdateBegins(r, i, type, range) == i \in Rows /\ Begin(r, i, Form(type, range))

Used(id, year) ==
    MapThenSumSet(LAMBDA i : InYear(absence[i].start, absence[i].end, year, policy.weekdays),
                  {i \in Rows \ {id} : absence[i].type = "VACATION"})
Requested(form, year) == InYear(form.start, form.end, year, policy.weekdays)

\* assertWithinAllowance: years one by one; an allowance of 0 is taken for none,
\* and a policy that permits a negative balance ends the check.
Exceeds(id, form, year) ==
    Requested(form, year) > 0 /\ Used(id, year) + Requested(form, year) > policy.vacation
\* Mutant: only the year in which the absence begins is checked.
WithinFirstYear(id, form) ==
    \/ form.type # "VACATION" \/ policy.vacation = 0 \/ policy.negative
    \/ ~Exceeds(id, form, YearOf(form.start))
WithinAllowance(id, form) ==
    \/ form.type # "VACATION" \/ policy.vacation = 0 \/ policy.negative
    \/ \A year \in YearOf(form.start)..YearOf(form.end) : ~Exceeds(id, form, year)

CheckAllowance(r) ==
    /\ req[r].pc = "allowance"
    /\ Goto(r, IF WithinAllowance(req[r].id, req[r].form)
               THEN [pc |-> "write", id |-> req[r].id, form |-> req[r].form, new |-> req[r].new,
                     blind |-> req[r].blind, weekdays |-> policy.weekdays]
               ELSE Idle)
    /\ UNCHANGED <<absence, policy, edited, begun>>

\* Those that have checked already do not see this write.
Blinded(q, id) == IF q.pc \in {"allowance", "write"} THEN [q EXCEPT !.blind = @ \union {id}] ELSE q
Write(r) ==
    /\ req[r].pc = "write"
    /\ LET f == req[r].form
           id == req[r].id
       IN absence' = IF id \in Rows \/ req[r].new
                     THEN [absence EXCEPT ![id] =
                            [type |-> f.type, start |-> f.start, end |-> f.end,
                             days |-> WorkingDays(f.start, f.end, req[r].weekdays),
                             weekdays |-> req[r].weekdays, blind |-> req[r].blind]]
                     ELSE absence
    /\ req' = [q \in Requests |-> IF q = r THEN Idle ELSE Blinded(req[q], req[r].id)]
    /\ UNCHANGED <<policy, edited, begun>>

\* Its check and its delete see the same row, or none.
Remove(i) ==
    /\ i \in Rows
    /\ absence' = [absence EXCEPT ![i] = NoRow]
    /\ UNCHANGED <<policy, edited, req, begun>>

EditPolicy ==
    /\ ~edited /\ edited' = TRUE /\ policy' \in Policies
    /\ UNCHANGED <<absence, req, begun>>

Next ==
    \/ EditPolicy
    \/ \E i \in Ids : Remove(i)
    \/ \E r \in Requests :
          \/ \E t \in Types, x \in Ranges :
                CreateBegins(r, t, x) \/ \E i \in Ids : UpdateBegins(r, i, t, x)
          \/ CheckAllowance(r) \/ Write(r)

Spec == Init /\ [][Next]_vars

-----------------------------------------------------------------------------
(* Properties.                                                             *)

\* Every variable keeps its type.
TypeOK ==
    /\ \A i \in Rows : absence[i].start \in Days /\ absence[i].end \in Days /\ absence[i].days \in 0..7
    /\ policy \in [vacation : Nat, weekdays : SUBSET (0..6), negative : BOOLEAN]
    /\ \A r \in Requests : req[r].pc \in {"idle", "allowance", "write"}

\* Two absences overlap only if one of them was checked before the other was
\* written: there is no constraint in the database that would refuse it.
OverlapOnlyByRace ==
    \A i, j \in Rows :
        i # j /\ Overlaps(absence[i], absence[j]) =>
            i \in absence[j].blind \/ j \in absence[i].blind

\* Under one policy the vacation of each calendar year stays within the
\* allowance, also when an absence crosses the new year; a race may exceed it,
\* and so may anybody once the allowance is set to 0.
AllowanceKept ==
    ~edited /\ (\A i \in Rows : absence[i].blind = {}) =>
        \A year \in {2025, 2026} : Used(0, year) <= policy.vacation

\* The days kept with an absence are those that the years count, no day twice
\* and none left out, as long as the working week is the same.
DaysAddUp ==
    \A i \in Rows :
        LET a == absence[i]
        IN a.days = InYear(a.start, a.end, 2025, a.weekdays) + InYear(a.start, a.end, 2026, a.weekdays)

\* The segments that the months draw are the absence, and each says on which
\* side it goes on.
SegmentsTile ==
    \A i \in Rows :
        LET a == absence[i]
            old == Segment(a, 2025)
            new == Segment(a, 2026)
        IN /\ old.days \union new.days = a.start..a.end /\ old.days \intersect new.days = {}
           /\ old.days # {} => (old.right <=> new.days # {})
           /\ new.days # {} => (new.left <=> old.days # {})

TimeOffSound ==
    /\ OverlapOnlyByRace
    /\ DaysAddUp
    /\ SegmentsTile
=============================================================================

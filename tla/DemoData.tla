-------------------------------- MODULE DemoData --------------------------------
(***************************************************************************)
(* The local demo seeders: most wipe the rows that carry their marker, table *)
(* by table, and insert a new batch; others look for a row before they make  *)
(* one, or write over it.  All of them in a database that people also use.   *)
(***************************************************************************)
EXTENDS Integers, Sequences

CONSTANTS Scripts,     \* the scripts that are run
          Touched,     \* the tables in which people add rows
          MaxRuns,     \* bound of the runs
          MaxEdits,    \* bound of the edits of people
          MaxCuts      \* bound of the runs that are cut off

\* A row: its table, who wrote the row above it, who wrote it, and in which run.
Row(t, over, by, gen) == [table |-> t, over |-> over, by |-> by, gen |-> gen]
\* The table above each table, and what deleting a row there does.
Above == [client |-> "none", employee |-> "none", project |-> "none", source |-> "none",
          history |-> "project", report |-> "project", entry |-> "project", rule |-> "project",
          absence |-> "employee", rate |-> "employee", payroll |-> "employee",
          draft |-> "employee", review |-> "employee", invoice |-> "client",
          account |-> "none", idea |-> "none", post |-> "account",
          jobpost |-> "none", event |-> "none",
          freelancer |-> "none", change |-> "freelancer", snapshot |-> "freelancer",
          profile |-> "none", secret |-> "profile", audit |-> "none",
          lead |-> "none", crmclient |-> "none", call |-> "lead", link |-> "project"]
Tables == DOMAIN Above
\* Both hold the row above them; the seeder deletes the posts of its accounts itself.
Cascades == Tables \ {"invoice", "post"}
\* One entry for a project and week, one payroll for an employee and month (draft is
\* the current one), one client of a project, one profile with a slug.
Unique == {"entry", "payroll", "draft", "link", "profile"}

VARIABLES place,               \* where the scripts are started, which never changes
          rows,
          run,                 \* the script at work and what is left of it
          runs, edits, cuts,   \* bounded counters
          own,                 \* history: the rows that people have
          done                 \* history: the last finished run of each script

vars == <<place, rows, run, runs, edits, cuts, own, done>>

Idle == [script |-> "none", todo |-> << >>]

\* What each script does, in its order.
Do(op, tables) == [i \in 1..Len(tables) |-> <<op, tables[i]>>]
Staff == Do("insert", <<"employee", "client", "project", "history">>)
Work == Do("insert", <<"report", "absence">>)
Compensation == Do("insert", <<"rate", "payroll", "draft", "review">>)
Publicity == Do("insert", <<"source", "account", "idea", "post">>)
People ==
    Do("wipe", <<"project", "report", "absence", "source", "post", "idea", "account", "employee", "client">>)
        \o Staff \o Work \o Compensation \o Publicity
Weekly == Do("wipe", <<"entry", "rule">>) \o Do("insert", <<"rule", "entry">>)
Margin == Do("wipe", <<"payroll">>) \o Do("insert", <<"payroll">>)
TopUp == Do("wipe", <<"draft", "review">>) \o Do("insert", <<"draft", "review">>)
Scanner == Do("wipe", <<"jobpost", "event">>) \o Do("insert", <<"jobpost", "event">>)
Upwork ==
    <<<<"match", "freelancer">>, <<"wipe", "change">>, <<"insert", "change">>,
      <<"clear", "snapshot">>, <<"insert", "snapshot">>>>
Vault == Do("insert", <<"profile", "secret", "audit">>)
Leads == Do("insert", <<"lead", "crmclient", "call", "link">>)
Plan(s) ==
    CASE s = "people" -> People [] s = "weekly" -> Weekly [] s = "margin" -> Margin
      [] s = "topup" -> TopUp [] s = "scanner" -> Scanner [] s = "upwork" -> Upwork
      [] s = "vault" -> Vault [] s = "leads" -> Leads

\* APP_ENV says local and the database is the local one; it only says so; it says
\* production; or it says anything else.
Places == {"local", "claimed", "production", "elsewhere"}
IsLocal == place = "local"
Admits(s) ==
    CASE s = "upwork" -> place \in {"local", "claimed"}
      [] s = "leads" -> place # "production"
      [] s = "vault" -> TRUE
      [] OTHER -> IsLocal

Init ==
    /\ place \in Places
    /\ rows = {} /\ run = Idle /\ runs = 0 /\ edits = 0 /\ cuts = 0
    /\ own = {} /\ done = [s \in Scripts |-> 0]

-----------------------------------------------------------------------------
(* The scripts.                                                            *)

Start(s) ==
    /\ run = Idle /\ runs < MaxRuns /\ Admits(s) /\ runs' = runs + 1
    /\ run' = [script |-> s, todo |-> Plan(s)]
    /\ UNCHANGED <<place, rows, edits, cuts, own, done>>

Step(op, t) == run.todo # << >> /\ Head(run.todo) = <<op, t>>
Rest == run' = [run EXCEPT !.todo = Tail(@)]

\* The rows with the marker of the script, and for posts those of an account that
\* has it.
\* Mutant: whatever is in the table.
TaggedAny(t) == {x \in rows : x.table = t}
Tagged(t) == {x \in rows : x.table = t /\ (x.by = run.script \/ (t = "post" /\ x.over = run.script))}
\* What hangs on rows of a table.
Under(gone) == {x \in rows : \E y \in gone : Above[x.table] = y.table /\ x.over = y.by}
\* An invoice holds its client and a post its account, and the script ends there.
Held(t) == \E x \in Under(Tagged(t)) : x.table \notin Cascades

Wipe(t) ==
    /\ Step("wipe", t)
    /\ IF Held(t) THEN run' = Idle /\ UNCHANGED rows
                  ELSE Rest /\ rows' = rows \ (Tagged(t) \union Under(Tagged(t)))
    /\ UNCHANGED <<place, runs, edits, cuts, own, done>>

Of(t) == {x \in rows : x.table = t}
Has(t, by) == \E x \in Of(t) : x.by = by
\* The upwork seeder keeps the oldest profile of a name: its own, unless that of the
\* people was there before it.
Kept == IF Has("freelancer", "upwork") THEN "upwork" ELSE "mine"
Match ==
    /\ Step("match", "freelancer") /\ Rest
    /\ LET pruned == {x \in Of("freelancer") : x.by # Kept}
       IN rows' = IF Of("freelancer") = {} THEN rows \union {Row("freelancer", "none", "upwork", runs)}
                  ELSE rows \ (pruned \union Under(pruned))
    /\ UNCHANGED <<place, runs, edits, cuts, own, done>>
\* It makes the snapshots of that profile anew.
Clear ==
    /\ Step("clear", "snapshot") /\ Rest
    /\ rows' = {x \in rows : ~(x.table = "snapshot" /\ x.over = Kept)}
    /\ UNCHANGED <<place, runs, edits, cuts, own, done>>

\* Where the batch of a table hangs: what the people seeder writes hangs on its own
\* rows; payrolls and reviews go to everybody with a rate, rules, entries and links
\* to every project.
Holders(t) == {x.by : x \in Of(Above[t])}
Parents(t) ==
    IF Above[t] = "none" THEN {"none"}
    ELSE IF run.script = "people" \/ t = "call" THEN Holders(t) \intersect {run.script}
    ELSE IF run.script \in {"margin", "topup"} THEN {x.over : x \in Of("rate")}
    ELSE IF run.script = "upwork" THEN {Kept}
    ELSE Holders(t)
Batch(t) == {Row(t, over, run.script, runs) : over \in Parents(t)}
\* A client of the people makes demo clients unnecessary; a payroll, a link, and what
\* the vault seeder finds, are left alone.
Skipped(t) ==
    IF t = "client" /\ Has("client", "mine") THEN Batch(t)
    ELSE IF t \in {"payroll", "draft", "link", "profile", "secret", "audit"}
         THEN {b \in Batch(t) : \E x \in Of(t) : x.over = b.over} ELSE {}
\* An entry of the same week is written over, and so are the leads, clients and
\* calls, whose ids are computed.
Replaced(t) ==
    {x \in Of(t) : x.over \in Parents(t) /\
        (t = "entry" \/ (t \in {"lead", "crmclient", "call"} /\ x.by = "leads"))}

Insert(t) ==
    /\ Step("insert", t) /\ Rest
    /\ rows' = (rows \ Replaced(t)) \union (Batch(t) \ Skipped(t))
    /\ UNCHANGED <<place, runs, edits, cuts, own, done>>

Finish ==
    /\ run # Idle /\ run.todo = << >>
    /\ run' = Idle /\ done' = [done EXCEPT ![run.script] = runs]
    /\ UNCHANGED <<place, rows, runs, edits, cuts, own>>

Cut ==
    /\ run # Idle /\ cuts < MaxCuts /\ cuts' = cuts + 1 /\ run' = Idle
    /\ UNCHANGED <<place, rows, runs, edits, own, done>>

-----------------------------------------------------------------------------
(* The people.                                                             *)

Edit == edits < MaxEdits /\ edits' = edits + 1

\* They add rows of their own, under rows of their own or under demo rows.
Add(t, over) ==
    /\ Edit
    /\ IF Above[t] = "none" THEN over = "none" ELSE Has(Above[t], over)
    /\ Row(t, over, "mine", 0) \notin rows
    /\ t \in Unique => ~\E x \in Of(t) : x.over = over
    /\ rows' = rows \union {Row(t, over, "mine", 0)}
    /\ own' = own \union {Row(t, over, "mine", 0)}
    /\ UNCHANGED <<place, run, runs, cuts, done>>

Writers == Scripts \union {"mine"}
Next ==
    \/ \E s \in Scripts : Start(s)
    \/ \E t \in Tables : Wipe(t) \/ Insert(t)
    \/ Match \/ Clear \/ Finish \/ Cut
    \/ \E t \in Touched, over \in Writers \union {"none"} : Add(t, over)

Spec == Init /\ [][Next]_vars

-----------------------------------------------------------------------------
(* Properties.                                                             *)

\* Every variable keeps its type.
TypeOK ==
    /\ place \in Places /\ run.script \in Scripts \union {"none"}
    /\ rows \union own \subseteq [table : Tables, over : Writers \union {"none"}, by : Writers, gen : 0..MaxRuns]
    /\ runs \in 0..MaxRuns /\ edits \in 0..MaxEdits /\ cuts \in 0..MaxCuts

\* "Existing real rows are never touched": but those that hang on a demo row go
\* with it, the weekly seeder writes over the entries of real projects, and the
\* upwork seeder prunes a profile of the same name and makes snapshots anew.
RealRowsStay ==
    \A x \in own \ rows :
        x.over \in Scripts \/ x.table \in {"entry", "freelancer", "change", "snapshot"}

\* No row is left under one that is gone.
NoOrphans == \A x \in rows : Above[x.table] = "none" \/ Has(Above[x.table], x.over)

\* A run that finishes leaves one batch, its own, whatever an earlier one that was
\* cut off has left; the others keep what they found.
Keepers == {"freelancer", "profile", "secret", "audit", "link"}
OneBatch ==
    run = Idle => \A x \in rows :
        x.by # "mine" /\ x.table \notin Keepers => x.gen >= done[x.by]

\* However often they are run and wherever they are cut off, no seeder leaves two
\* batches under one row.
NothingTwice ==
    \A x, y \in rows : x.by # "mine" /\ x.by = y.by /\ x.table = y.table /\ x.over = y.over => x = y

DemoDataSound ==
    /\ RealRowsStay
    /\ NoOrphans
    /\ OneBatch
    /\ NothingTwice
=============================================================================

--------------------------------- MODULE Seeding ---------------------------------
(***************************************************************************)
(* prisma/seed.ts and prisma/seed-system.ts: what a run of either leaves in *)
(* the database when operators edit the same roles, users, prompts and demo *)
(* rows, and when a run is cut off.  No run holds a transaction across its  *)
(* steps.                                                                   *)
(***************************************************************************)
EXTENDS Integers, FiniteSets, Sequences

CONSTANTS Perms,      \* permission keys
          Shipped,    \* those of the first release
          Preset,     \* the preset of a manager role
          MaxRuns,    \* bound of the runs of a seed
          MaxEdits,   \* bound of the edits of operators
          MaxCuts     \* bound of the runs that are cut off

\* The sections of demo rows, in the order of main; two rows stand for those of each.
SectionOrder == <<"audit", "phones", "portfolio", "backups">>
Sections == {"audit", "phones", "portfolio", "backups"}
All == {1, 2}
\* A phone has a unique number and a portfolio item a unique slug, and the first row
\* is the marker of its section; every audit event and backup run carries a mark.
Keyed == {"phones", "portfolio"}

VARIABLES coded,       \* permissions that the code of this release knows
          catalogue,   \* permissions that are in the database
          owner, manager,   \* the permissions of two system roles
          staff,       \* the role of the seeded manager, or "none"
          entries,     \* audit log: the roles with an assignment, "created" for the role
          assigning,   \* the role of an assignment that is not in the log yet
          prompt,      \* the active prompt: none, the shipped text, an operator's
          demo,        \* the demo rows of each section
          run,         \* the run at work
          runs, edits, cuts,        \* bounded counters
          saved,       \* history: what an operator last saved for the manager role
          mine,        \* history: no full seed has passed the manager role since
          mixed,       \* history: an operator saved between two steps of a run
          touched,     \* history: sections where a run was cut off or a row deleted
          unlogged,    \* history: the manager was assigned since a run logged the roles
          complete     \* history: a run has finished, and no permission came since

vars == <<coded, catalogue, owner, manager, staff, entries, assigning, prompt, demo,
          run, runs, edits, cuts, saved, mine, mixed, touched, unlogged, complete>>

Idle == [pc |-> "idle"]
At(pc) == run.pc = pc
Full == run.kind = "full"

Init ==
    /\ coded = Shipped /\ catalogue = {} /\ owner = {} /\ manager = {}
    /\ staff = "none" /\ entries = {} /\ assigning = "none" /\ prompt = "none"
    /\ demo = [s \in Sections |-> {}] /\ run = Idle /\ runs = 0 /\ edits = 0 /\ cuts = 0
    /\ saved = {} /\ mine = FALSE /\ mixed = FALSE /\ touched = {}
    /\ unlogged = FALSE /\ complete = FALSE

Roles == <<owner, manager>>
Accounts == <<staff, entries, assigning, prompt, unlogged>>
Bounds == <<runs, edits, cuts>>
Past == <<saved, mine, mixed, touched>>
To(pc) == run' = [run EXCEPT !.pc = pc]

-----------------------------------------------------------------------------
(* The roles.                                                              *)

\* The system seed takes the catalogue that migrations have left, and refuses an
\* empty one; the full seed writes its own first.
Start(kind) ==
    /\ At("idle") /\ runs < MaxRuns /\ runs' = runs + 1
    /\ kind = "system" => catalogue # {}
    /\ run' = [kind |-> kind, pc |-> IF kind = "full" THEN "catalogue" ELSE "owner", read |-> {}]
    /\ UNCHANGED <<coded, catalogue, Roles, Accounts, demo, edits, cuts, Past, complete>>

InCode == coded   \* PERMISSION_CATALOGUE
WriteCatalogue ==
    /\ At("catalogue") /\ catalogue' = catalogue \union InCode /\ To("clear")
    /\ UNCHANGED <<coded, Roles, Accounts, demo, Bounds, Past, complete>>

\* The full seed empties the owner role before it fills it.
ClearOwner ==
    /\ At("clear") /\ owner' = {} /\ To("owner")
    /\ UNCHANGED <<coded, catalogue, manager, Accounts, demo, Bounds, Past, complete>>
\* Mutant: only the permissions of the release.
GrantedByCode == owner \union coded
Granted == owner \union catalogue
FillOwner ==
    /\ At("owner") /\ owner' = Granted /\ To("read")
    /\ UNCHANGED <<coded, catalogue, manager, Accounts, demo, Bounds, Past, complete>>

\* syncSystemRole, or the count of the system seed.
ReadManager ==
    /\ At("read")
    /\ run' = [run EXCEPT !.read = manager,
                          !.pc = IF Full \/ manager = {} THEN "add" ELSE "end"]
    /\ UNCHANGED <<coded, catalogue, Roles, Accounts, demo, Bounds, Past, complete>>
Wanted == Preset \intersect catalogue
AddToManager ==
    /\ At("add")
    /\ manager' = manager \union (Wanted \ run.read) /\ To(IF Full THEN "drop" ELSE "end")
    /\ mixed' = (mixed \/ manager # run.read)
    /\ UNCHANGED <<coded, catalogue, owner, Accounts, demo, Bounds, saved, mine, touched, complete>>
DropFromManager ==
    /\ At("drop")
    /\ manager' = manager \ (run.read \ Wanted) /\ mine' = FALSE /\ To("log")
    /\ UNCHANGED <<coded, catalogue, owner, Accounts, demo, Bounds, saved, mixed, touched, complete>>

-----------------------------------------------------------------------------
(* Users, prompts and the audit log: the full seed.                        *)

\* role.create is logged once.
LogRole ==
    /\ At("log") /\ entries' = entries \union {"created"} /\ To("users")
    /\ UNCHANGED <<coded, catalogue, Roles, staff, assigning, prompt, unlogged, demo, Bounds, Past, complete>>

\* The users that the seed knows get their role back.
SeedUsers ==
    /\ At("users") /\ staff' = "manager" /\ unlogged' = TRUE /\ To("assignments")
    /\ UNCHANGED <<coded, catalogue, Roles, entries, assigning, prompt, demo, Bounds, Past, complete>>

\* One entry for each user and the role it has, if there never was one.
\* Mutant: if the user has no entry at all.
MissingForUser(role) == IF entries \subseteq {"created"} THEN {role} ELSE {}
Missing(role) == {role} \ entries
ReadAssignments ==
    /\ At("assignments") /\ run' = [run EXCEPT !.pc = "entry", !.read = {staff}]
    /\ UNCHANGED <<coded, catalogue, Roles, Accounts, demo, Bounds, Past, complete>>
LogAssignments ==
    /\ At("entry")
    /\ entries' = entries \union UNION {Missing(role) : role \in run.read}
    /\ unlogged' = (staff \notin run.read) /\ To("prompts")
    /\ UNCHANGED <<coded, catalogue, Roles, staff, assigning, prompt, demo, Bounds, Past, complete>>

\* The active prompt is written over in place; the values of settings are not.
SeedPrompts ==
    /\ At("prompts") /\ prompt' = "shipped" /\ To(Head(SectionOrder))
    /\ UNCHANGED <<coded, catalogue, Roles, staff, entries, assigning, unlogged, demo, Bounds, Past, complete>>

-----------------------------------------------------------------------------
(* The demo rows of the full seed.                                         *)

After(s) ==
    LET i == CHOOSE j \in DOMAIN SectionOrder : SectionOrder[j] = s
    IN IF i = Len(SectionOrder) THEN "end" ELSE SectionOrder[i + 1]

\* Row after row, unless the rows are there already.
SeedSection(s, present) ==
    /\ At(s)
    /\ IF present THEN To(After(s)) /\ UNCHANGED demo
       ELSE /\ demo' = [demo EXCEPT ![s] = @ \union {1}]
            /\ run' = [run EXCEPT !.pc = "second", !.read = {s}]
    /\ UNCHANGED <<coded, catalogue, Roles, Accounts, Bounds, Past, complete>>
SeedAuditDemoEvents == SeedSection("audit", demo["audit"] # {})
SeedPhoneNumbers == SeedSection("phones", 1 \in demo["phones"])
SeedPortfolio == SeedSection("portfolio", 1 \in demo["portfolio"])
SeedBackupRuns == SeedSection("backups", demo["backups"] # {})
\* A slug or a number that is taken ends the whole run.
SeedRest(s) ==
    /\ At("second") /\ s \in run.read
    /\ IF s \in Keyed /\ 2 \in demo[s] THEN run' = Idle ELSE To(After(s))
    /\ demo' = [demo EXCEPT ![s] = All]
    /\ UNCHANGED <<coded, catalogue, Roles, Accounts, Bounds, Past, complete>>

Finish ==
    /\ At("end") /\ run' = Idle /\ complete' = TRUE
    /\ UNCHANGED <<coded, catalogue, Roles, Accounts, demo, Bounds, Past>>

-----------------------------------------------------------------------------
(* Releases, operators, and a run that is cut off.                          *)

\* The next release, whose migrations add its permissions.
Release ==
    /\ coded # Perms /\ coded' = Perms /\ catalogue' = catalogue \union Perms /\ complete' = FALSE
    /\ run.pc \in {"idle"}
    /\ UNCHANGED <<Roles, Accounts, demo, run, Bounds, Past>>

Edit == edits < MaxEdits /\ edits' = edits + 1

\* updateRole; the owner role is locked.
SaveManager(keys) ==
    /\ Edit /\ keys # manager /\ keys \subseteq catalogue
    /\ manager' = keys /\ saved' = keys /\ mine' = TRUE /\ mixed' = ~At("idle")
    /\ UNCHANGED <<coded, catalogue, owner, Accounts, demo, run, runs, cuts, touched, complete>>
\* assignRoleToUser: the user, then the audit log; the server may die in between.
Assign(role) ==
    /\ Edit /\ assigning = "none" /\ staff \notin {"none", role}
    /\ staff' = role /\ assigning' = role /\ unlogged' = TRUE
    /\ UNCHANGED <<coded, catalogue, Roles, entries, prompt, demo, run, runs, cuts, Past, complete>>
LogAssigned(dies) ==
    /\ assigning # "none" /\ assigning' = "none"
    /\ entries' = IF dies THEN entries ELSE entries \union {assigning}
    /\ UNCHANGED <<coded, catalogue, Roles, staff, prompt, unlogged, demo, run, Bounds, Past, complete>>
\* updatePrompt of the active prompt.
EditPrompt ==
    /\ Edit /\ prompt = "shipped" /\ prompt' = "mine"
    /\ UNCHANGED <<coded, catalogue, Roles, staff, entries, assigning, unlogged, demo, run, runs, cuts, Past, complete>>
DeleteDemoRow(s, i) ==
    /\ Edit /\ i \in demo[s] /\ demo' = [demo EXCEPT ![s] = @ \ {i}] /\ touched' = touched \union {s}
    /\ UNCHANGED <<coded, catalogue, Roles, Accounts, run, runs, cuts, saved, mine, mixed, complete>>

Cut ==
    /\ ~At("idle") /\ cuts < MaxCuts /\ cuts' = cuts + 1 /\ run' = Idle
    /\ touched' = touched \union (IF At("second") THEN run.read ELSE {})
    /\ complete' = (complete /\ ~At("owner"))
    /\ mine' = (mine /\ ~At("drop"))
    /\ UNCHANGED <<coded, catalogue, Roles, Accounts, demo, runs, edits, saved, mixed>>

Next ==
    \/ \E kind \in {"full", "system"} : Start(kind)
    \/ WriteCatalogue \/ ClearOwner \/ FillOwner
    \/ ReadManager \/ AddToManager \/ DropFromManager
    \/ LogRole \/ SeedUsers \/ ReadAssignments \/ LogAssignments \/ SeedPrompts
    \/ SeedAuditDemoEvents \/ SeedPhoneNumbers \/ SeedPortfolio \/ SeedBackupRuns
    \/ \E s \in Sections : SeedRest(s)
    \/ Finish \/ Release \/ Cut
    \/ \E keys \in SUBSET Perms : SaveManager(keys)
    \/ \E role \in {"manager", "other"} : Assign(role)
    \/ \E dies \in BOOLEAN : LogAssigned(dies)
    \/ EditPrompt
    \/ \E s \in Sections, i \in All : DeleteDemoRow(s, i)

Spec == Init /\ [][Next]_vars

-----------------------------------------------------------------------------
(* Properties.                                                             *)

\* Every variable keeps its type.
TypeOK ==
    /\ coded \union catalogue \union owner \union manager \union saved \subseteq Perms
    /\ staff \in {"none", "manager", "other"} /\ entries \subseteq {"created", "manager", "other"}
    /\ prompt \in {"none", "shipped", "mine"}
    /\ demo \in [Sections -> SUBSET All] /\ touched \subseteq Sections
    /\ runs \in 0..MaxRuns /\ edits \in 0..MaxEdits /\ cuts \in 0..MaxCuts

\* Once a seed has finished the owner role has every permission, until a release
\* adds one or a full seed is cut off, or is still, between emptying and filling it.
OwnerHasAll == complete /\ ~At("owner") => catalogue \subseteq owner

\* What an operator saved for a manager role stays through the system seed, except
\* that an empty role is filled again, from the preset as far as the catalogue then
\* had it; the full seed is the one that takes it.
ManagerIsSaved ==
    mine /\ ~mixed /\ run.pc # "drop" => manager = saved \/ (saved = {} /\ manager \subseteq Preset)

\* A section of demo rows is whole or absent, unless a run was cut off in it or an
\* operator deleted a row: then the marker keeps the rest away, or stops the run.
SectionsWhole ==
    \A s \in Sections \ touched : demo[s] \in {{}, All} \/ (At("second") /\ s \in run.read)

\* Once a run has passed the users, the audit log names the role that the manager
\* has, even when the server died before it logged an assignment.
AssignmentsLogged == staff # "none" /\ ~unlogged => staff \in entries

SeedingSound ==
    /\ OwnerHasAll
    /\ ManagerIsSaved
    /\ SectionsWhole
    /\ AssignmentsLogged
=============================================================================

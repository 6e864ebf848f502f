---------------------------- MODULE MCComponents ----------------------------
(*****************************************************************************)
(* The components of the CRM beside the job pipeline, each behaviour about   *)
(* one of them: requests of operators that overlap, calls that fail,         *)
(* processes that die.                                                       *)
(*****************************************************************************)
EXTENDS Records, Integers, FiniteSets, TLC

CONSTANTS GreetHorizon, GreetJobs, GreetProfiles, GreetSwaps, PostConns,
          PostFaults, PostHorizon, PostJobs, PostProfiles, PostSwaps,
          PostTicks

VARIABLE part   \* the component that this behaviour is about
\* The variables of the components, by their names there; those that the behaviour
\* does not need are "-".
VARIABLES folder, file, shares, invite, op, clock, report, made, chunk, tick,
          twice, moved, place, own, done, minute, ticked, active, phoneAt,
          log, posts, swaps, unsure, shared, leaked, post, viewed, walk, now,
          area, number, slot, slugs, bound, placed

\* Bodies of PATCH requests; one has a second value that is refused.
PatchBodies ==
    {<< <<"flag", "off">>, <<"number", "bad">> >>, << <<"flag", "on">> >>,
     << <<"number", "high">>, <<"flag", "off">> >>}

\* Forms that operators send, for each kind of record.
SomeSalesForms ==
    [proposal |-> {[status |-> "Sent"], [status |-> "Replied"], [type |-> "Invite"], [connects |-> 2],
                   [boosted |-> TRUE, extra |-> 1]},
     lead |-> {[status |-> "WON"], [status |-> "ON_HOLD"]},
     enquiry |-> {[status |-> "WON"], [status |-> "ON_HOLD"]},
     post |-> {[status |-> "SCHEDULED", scheduledAt |-> TRUE], [scheduledAt |-> FALSE],
               [status |-> "PUBLISHED"], [publishedAt |-> TRUE]}]
\* Bodies of PATCH for a credential account: the answers alone are a change that is not seen.
SomeSecretForms == {[pw |-> 2], [ans |-> 0], [pw |-> 0, ans |-> 1]}

\* The servers that an operator may name to restore into.
SomeScratchTargets ==
    {[host |-> "localhost", name |-> "crm_scratch", marked |-> TRUE],
     [host |-> "localhost", name |-> "crm", marked |-> FALSE],
     [host |-> "remote", name |-> "crm_restore_1", marked |-> TRUE]}

\* What create and update of a portfolio item may be sent.
SomeItemForms ==
    LET js(caps) == [word |-> "js", caps |-> caps, blank |-> caps] IN
    {[slug |-> <<0>>, tags |-> <<js(TRUE), js(FALSE)>>, sent |-> TRUE, status |-> ""],
     [slug |-> <<>>, tags |-> <<[word |-> "ai", caps |-> FALSE, blank |-> FALSE]>>, sent |-> TRUE, status |-> ""],
     [slug |-> <<2>>, tags |-> <<>>, sent |-> FALSE, status |-> "READY"],
     [slug |-> <<0>>, tags |-> <<>>, sent |-> TRUE, status |-> ""]}

Tree == INSTANCE FileTree WITH
    Folders <- {"a", "b"}, Files <- {"x", "y"}, Names <- {"n", "m"},
    MaxOps <- 2, MaxFaults <- 1

Digest == INSTANCE ReportDigest WITH
    Projects <- {1, 2}, Cutoff <- 1, Reports <- {1, 2}, Ticks <- {1, 2},
    ChunkSize <- 1, Horizon <- 5, MaxLoad <- 3, MaxFaults <- 1

Demo == INSTANCE DemoData WITH
    Scripts <- {"people", "weekly", "margin", "topup"},
    Touched <- {"client", "invoice", "project", "entry", "employee", "rate", "payroll", "report", "post"},
    MaxRuns <- 2, MaxEdits <- 2, MaxCuts <- 1

Samples == INSTANCE DemoData WITH
    Scripts <- {"scanner", "upwork", "vault", "leads"},
    Touched <- {"freelancer", "change", "snapshot", "profile", "secret", "project", "link"},
    MaxRuns <- 2, MaxEdits <- 2, MaxCuts <- 1

Birthdays == INSTANCE DailyPosts_proofs WITH
    Profiles <- GreetProfiles, Ticks <- PostTicks, Conns <- PostConns,
    Enabled <- GreetJobs, Horizon <- GreetHorizon, MaxSwaps <- GreetSwaps,
    MaxFaults <- PostFaults

WeeklyPosts == INSTANCE DailyPosts_proofs WITH
    Profiles <- PostProfiles, Ticks <- PostTicks, Conns <- PostConns,
    Enabled <- PostJobs, Horizon <- PostHorizon, MaxSwaps <- PostSwaps,
    MaxFaults <- PostFaults

PostList == INSTANCE PostList WITH
    Ids <- 1..3, German <- {1, 3}, Scores <- {90},
    Walks <- {[f |-> [status |-> "any", minScore |-> -1, viewed |-> "unviewed", country |-> "any", gate |-> "any"], col |-> "matchScore", dir |-> "desc"], [f |-> [status |-> "NEW", minScore |-> -1, viewed |-> "any", country |-> "any", gate |-> "any"], col |-> "createdAt", dir |-> "asc"]},
    MaxAt <- 1, MaxChanges <- 4

Analytics == INSTANCE Analytics WITH
    Posts <- 1..2, Countries <- {"de", "us"}, German <- {"de"},
    Scores <- {55, 80}, Day <- 3, WeekDays <- 2, MonthDays <- 3, Winter <- 1,
    Summer <- 2, ClockChange <- 7, Horizon <- 10

PhoneBook == INSTANCE PhoneBook WITH
    Requests <- Callers, MaxRequests <- 3, Cards <- 1..3, Slots <- 0..2,
    Slugs <- {"whatsapp", "telegram"}, Limit <- 2,
    Raws <- {<<10, 3, 8, 0, 1>>, <<0, 1>>, <<0, 11, 3>>, <<3, 8, 0, 3>>, <<11, 11>>}

\* What the daily posts take their constants to be: finitely many ticks, days that are numbers.
ASSUME ComponentsAssumption ==
    /\ GreetHorizon \in Nat /\ PostHorizon \in Nat /\ IsFiniteSet(PostTicks)
    /\ GreetProfiles # {} /\ PostProfiles # {}

varsTree == <<folder, file, objects, shares, invite, op, crossed, faults>>
varsDigest == <<clock, report, made, chunk, late, tick, shown, twice, moved,
                 faults>>
varsConfig == <<row, value, cache, late, req, raised, skipped, begun, faults>>
varsFunnel == <<row, idea, req, begun, raced, dropped>>
varsIntake == <<row, objects, flying, keys, create, remove, event, excused,
                 taken, crashed>>
varsPortfolio == <<item, cover, rows, objects, req, begun, excused, raced,
                    crashed>>
varsRoles == <<roleOf, team, req, begun, form, mixed, demoted, dropped>>
varsAttached == <<owners, rows, files, placeOf, req, begun, left, lost>>
varsSeeds == <<coded, catalogue, owner, manager, staff, entries, assigning,
                prompt, demo, run, runs, edits, cuts, saved, mine, mixed,
                touched, unlogged, complete>>
varsDemo == <<place, rows, run, runs, edits, cuts, own, done>>
varsSamples == <<place, rows, run, runs, edits, cuts, own, done>>
varsCutover == <<src, dst, mode, row, todo, phase, exit, runs, writes,
                  faults, blind, overwritten>>
varsBirthdays == <<minute, ticked, active, tick, row, chunk, held, phoneAt,
                    log, posts, swaps, faults, unsure, shared, leaked>>
varsWeeklyPosts == <<minute, ticked, active, tick, row, chunk, held,
                      phoneAt, log, posts, swaps, faults, unsure, shared,
                      leaked>>
varsEvaluation == <<prompt, cache, req, eval, begun, reads, faults, crossed>>
varsPostList == <<post, viewed, walk, changes>>
varsAnalytics == <<now, post>>
varsVault == <<profile, row, versions, keys, req, begun, restarts, past,
                trampled>>
varsPhoneBook == <<area, number, slot, slugs, bound, req, begun, failed,
                    placed, raced>>
varsScratch == <<row, bucket, env, held, job, scratch, audit, code, key,
                  begun, changes, faults, touched, unheard>>
varsItems == <<slug, status, tags, shown, rule, req, begun, failed, used,
                last, raced>>
slots == <<folder, file, objects, shares, invite, op, crossed, faults, clock,
           report, made, chunk, late, tick, shown, twice, moved, row, value,
           cache, req, raised, skipped, begun, idea, raced, dropped, flying,
           keys, create, remove, event, excused, taken, crashed, item, cover,
           rows, roleOf, team, form, mixed, demoted, owners, files, placeOf,
           left, lost, coded, catalogue, owner, manager, staff, entries,
           assigning, prompt, demo, run, runs, edits, cuts, saved, mine,
           touched, unlogged, complete, place, own, done, src, dst, mode,
           todo, phase, exit, writes, blind, overwritten, minute, ticked,
           active, held, phoneAt, log, posts, swaps, unsure, shared, leaked,
           eval, reads, post, viewed, walk, changes, now, profile, versions,
           restarts, past, trampled, area, number, slot, slugs, bound,
           failed, placed, bucket, env, job, scratch, audit, code, key,
           unheard, slug, status, tags, rule, used, last>>
allVars == <<part, slots>>

\* What belongs to one component only, and its being absent.
ownTree == <<folder, file, shares, invite, op>>
ownDigest == <<clock, report, made, twice, moved>>
ownConfig == <<value, raised, skipped>>
ownFunnel == <<idea>>
ownIntake == <<flying, create, remove, event, taken>>
ownPortfolio == <<item, cover>>
ownRoles == <<roleOf, team, form, demoted>>
ownAttached == <<owners, files, placeOf, left, lost>>
ownSeeds == <<coded, catalogue, owner, manager, staff, entries, assigning,
               demo, saved, mine, unlogged, complete>>
ownCutover == <<src, dst, mode, todo, phase, exit, writes, blind,
                 overwritten>>
ownEvaluation == <<eval, reads>>
ownPostList == <<viewed, walk>>
ownAnalytics == <<now>>
ownVault == <<profile, versions, restarts, past, trampled>>
ownPhoneBook == <<area, number, slot, slugs, bound, placed>>
ownScratch == <<bucket, env, job, scratch, audit, code, key, unheard>>
ownItems == <<slug, status, tags, rule, used, last>>
NoTree ==
    /\ folder = "-" /\ file = "-" /\ shares = "-" /\ invite = "-" /\ op = "-"
NoDigest ==
    /\ clock = "-" /\ report = "-" /\ made = "-" /\ twice = "-" /\ moved = "-"
NoConfig ==
    /\ value = "-" /\ raised = "-" /\ skipped = "-"
NoFunnel ==
    /\ idea = "-"
NoIntake ==
    /\ flying = "-" /\ create = "-" /\ remove = "-" /\ event = "-" /\ taken = "-"
NoPortfolio ==
    /\ item = "-" /\ cover = "-"
NoRoles ==
    /\ roleOf = "-" /\ team = "-" /\ form = "-" /\ demoted = "-"
NoAttached ==
    /\ owners = "-" /\ files = "-" /\ placeOf = "-" /\ left = "-" /\ lost = "-"
NoSeeds ==
    /\ coded = "-" /\ catalogue = "-" /\ owner = "-" /\ manager = "-" /\ staff = "-"
    /\ entries = "-" /\ assigning = "-" /\ demo = "-" /\ saved = "-" /\ mine = "-"
    /\ unlogged = "-" /\ complete = "-"
NoCutover ==
    /\ src = "-" /\ dst = "-" /\ mode = "-" /\ todo = "-" /\ phase = "-"
    /\ exit = "-" /\ writes = "-" /\ blind = "-" /\ overwritten = "-"
NoEvaluation ==
    /\ eval = "-" /\ reads = "-"
NoPostList ==
    /\ viewed = "-" /\ walk = "-"
NoAnalytics ==
    /\ now = "-"
NoVault ==
    /\ profile = "-" /\ versions = "-" /\ restarts = "-" /\ past = "-" /\ trampled = "-"
NoPhoneBook ==
    /\ area = "-" /\ number = "-" /\ slot = "-" /\ slugs = "-" /\ bound = "-"
    /\ placed = "-"
NoScratch ==
    /\ bucket = "-" /\ env = "-" /\ job = "-" /\ scratch = "-" /\ audit = "-"
    /\ code = "-" /\ key = "-" /\ unheard = "-"
NoItems ==
    /\ slug = "-" /\ status = "-" /\ tags = "-" /\ rule = "-" /\ used = "-"
    /\ last = "-"

PartsInit ==
    \/ /\ part = "tree" /\ Tree!Init
       /\ NoDigest /\ NoConfig /\ NoFunnel /\ NoIntake /\ NoPortfolio
       /\ NoRoles /\ NoAttached /\ NoSeeds /\ NoCutover /\ NoEvaluation
       /\ NoPostList /\ NoAnalytics /\ NoVault /\ NoPhoneBook /\ NoScratch
       /\ NoItems /\ chunk = "-" /\ late = "-" /\ tick = "-" /\ shown = "-"
       /\ row = "-" /\ cache = "-" /\ req = "-" /\ begun = "-" /\ raced = "-"
       /\ dropped = "-" /\ keys = "-" /\ excused = "-" /\ crashed = "-" /\ rows = "-"
       /\ mixed = "-" /\ prompt = "-" /\ run = "-" /\ runs = "-" /\ edits = "-"
       /\ cuts = "-" /\ touched = "-" /\ place = "-" /\ own = "-" /\ done = "-"
       /\ minute = "-" /\ ticked = "-" /\ active = "-" /\ held = "-" /\ phoneAt = "-"
       /\ log = "-" /\ posts = "-" /\ swaps = "-" /\ unsure = "-" /\ shared = "-"
       /\ leaked = "-" /\ post = "-" /\ changes = "-" /\ failed = "-"
    \/ /\ part = "digest" /\ Digest!Init
       /\ NoTree /\ NoConfig /\ NoFunnel /\ NoIntake /\ NoPortfolio
       /\ NoRoles /\ NoAttached /\ NoSeeds /\ NoCutover /\ NoEvaluation
       /\ NoPostList /\ NoAnalytics /\ NoVault /\ NoPhoneBook /\ NoScratch
       /\ NoItems /\ objects = "-" /\ crossed = "-" /\ row = "-" /\ cache = "-"
       /\ req = "-" /\ begun = "-" /\ raced = "-" /\ dropped = "-" /\ keys = "-"
       /\ excused = "-" /\ crashed = "-" /\ rows = "-" /\ mixed = "-" /\ prompt = "-"
       /\ run = "-" /\ runs = "-" /\ edits = "-" /\ cuts = "-" /\ touched = "-"
       /\ place = "-" /\ own = "-" /\ done = "-" /\ minute = "-" /\ ticked = "-"
       /\ active = "-" /\ held = "-" /\ phoneAt = "-" /\ log = "-" /\ posts = "-"
       /\ swaps = "-" /\ unsure = "-" /\ shared = "-" /\ leaked = "-" /\ post = "-"
       /\ changes = "-" /\ failed = "-"
    \/ /\ part = "config" /\ Config!Init
       /\ NoTree /\ NoDigest /\ NoFunnel /\ NoIntake /\ NoPortfolio
       /\ NoRoles /\ NoAttached /\ NoSeeds /\ NoCutover /\ NoEvaluation
       /\ NoPostList /\ NoAnalytics /\ NoVault /\ NoPhoneBook /\ NoScratch
       /\ NoItems /\ objects = "-" /\ crossed = "-" /\ chunk = "-" /\ tick = "-"
       /\ shown = "-" /\ raced = "-" /\ dropped = "-" /\ keys = "-" /\ excused = "-"
       /\ crashed = "-" /\ rows = "-" /\ mixed = "-" /\ prompt = "-" /\ run = "-"
       /\ runs = "-" /\ edits = "-" /\ cuts = "-" /\ touched = "-" /\ place = "-"
       /\ own = "-" /\ done = "-" /\ minute = "-" /\ ticked = "-" /\ active = "-"
       /\ held = "-" /\ phoneAt = "-" /\ log = "-" /\ posts = "-" /\ swaps = "-"
       /\ unsure = "-" /\ shared = "-" /\ leaked = "-" /\ post = "-" /\ changes = "-"
       /\ failed = "-"
    \/ /\ part = "funnel" /\ Funnel!Init
       /\ NoTree /\ NoDigest /\ NoConfig /\ NoIntake /\ NoPortfolio
       /\ NoRoles /\ NoAttached /\ NoSeeds /\ NoCutover /\ NoEvaluation
       /\ NoPostList /\ NoAnalytics /\ NoVault /\ NoPhoneBook /\ NoScratch
       /\ NoItems /\ objects = "-" /\ crossed = "-" /\ faults = "-" /\ chunk = "-"
       /\ late = "-" /\ tick = "-" /\ shown = "-" /\ cache = "-" /\ keys = "-"
       /\ excused = "-" /\ crashed = "-" /\ rows = "-" /\ mixed = "-" /\ prompt = "-"
       /\ run = "-" /\ runs = "-" /\ edits = "-" /\ cuts = "-" /\ touched = "-"
       /\ place = "-" /\ own = "-" /\ done = "-" /\ minute = "-" /\ ticked = "-"
       /\ active = "-" /\ held = "-" /\ phoneAt = "-" /\ log = "-" /\ posts = "-"
       /\ swaps = "-" /\ unsure = "-" /\ shared = "-" /\ leaked = "-" /\ post = "-"
       /\ changes = "-" /\ failed = "-"
    \/ /\ part = "intake" /\ Intake!Init
       /\ NoTree /\ NoDigest /\ NoConfig /\ NoFunnel /\ NoPortfolio
       /\ NoRoles /\ NoAttached /\ NoSeeds /\ NoCutover /\ NoEvaluation
       /\ NoPostList /\ NoAnalytics /\ NoVault /\ NoPhoneBook /\ NoScratch
       /\ NoItems /\ crossed = "-" /\ faults = "-" /\ chunk = "-" /\ late = "-"
       /\ tick = "-" /\ shown = "-" /\ cache = "-" /\ req = "-" /\ begun = "-"
       /\ raced = "-" /\ dropped = "-" /\ rows = "-" /\ mixed = "-" /\ prompt = "-"
       /\ run = "-" /\ runs = "-" /\ edits = "-" /\ cuts = "-" /\ touched = "-"
       /\ place = "-" /\ own = "-" /\ done = "-" /\ minute = "-" /\ ticked = "-"
       /\ active = "-" /\ held = "-" /\ phoneAt = "-" /\ log = "-" /\ posts = "-"
       /\ swaps = "-" /\ unsure = "-" /\ shared = "-" /\ leaked = "-" /\ post = "-"
       /\ changes = "-" /\ failed = "-"
    \/ /\ part = "portfolio" /\ Portfolio!Init
       /\ NoTree /\ NoDigest /\ NoConfig /\ NoFunnel /\ NoIntake
       /\ NoRoles /\ NoAttached /\ NoSeeds /\ NoCutover /\ NoEvaluation
       /\ NoPostList /\ NoAnalytics /\ NoVault /\ NoPhoneBook /\ NoScratch
       /\ NoItems /\ crossed = "-" /\ faults = "-" /\ chunk = "-" /\ late = "-"
       /\ tick = "-" /\ shown = "-" /\ row = "-" /\ cache = "-" /\ dropped = "-"
       /\ keys = "-" /\ mixed = "-" /\ prompt = "-" /\ run = "-" /\ runs = "-"
       /\ edits = "-" /\ cuts = "-" /\ touched = "-" /\ place = "-" /\ own = "-"
       /\ done = "-" /\ minute = "-" /\ ticked = "-" /\ active = "-" /\ held = "-"
       /\ phoneAt = "-" /\ log = "-" /\ posts = "-" /\ swaps = "-" /\ unsure = "-"
       /\ shared = "-" /\ leaked = "-" /\ post = "-" /\ changes = "-" /\ failed = "-"
    \/ /\ part = "roles" /\ Roles!Init
       /\ NoTree /\ NoDigest /\ NoConfig /\ NoFunnel /\ NoIntake
       /\ NoPortfolio /\ NoAttached /\ NoSeeds /\ NoCutover /\ NoEvaluation
       /\ NoPostList /\ NoAnalytics /\ NoVault /\ NoPhoneBook /\ NoScratch
       /\ NoItems /\ objects = "-" /\ crossed = "-" /\ faults = "-" /\ chunk = "-"
       /\ late = "-" /\ tick = "-" /\ shown = "-" /\ row = "-" /\ cache = "-"
       /\ raced = "-" /\ keys = "-" /\ excused = "-" /\ crashed = "-" /\ rows = "-"
       /\ prompt = "-" /\ run = "-" /\ runs = "-" /\ edits = "-" /\ cuts = "-"
       /\ touched = "-" /\ place = "-" /\ own = "-" /\ done = "-" /\ minute = "-"
       /\ ticked = "-" /\ active = "-" /\ held = "-" /\ phoneAt = "-" /\ log = "-"
       /\ posts = "-" /\ swaps = "-" /\ unsure = "-" /\ shared = "-" /\ leaked = "-"
       /\ post = "-" /\ changes = "-" /\ failed = "-"
    \/ /\ part = "attached" /\ Attached!Init
       /\ NoTree /\ NoDigest /\ NoConfig /\ NoFunnel /\ NoIntake
       /\ NoPortfolio /\ NoRoles /\ NoSeeds /\ NoCutover /\ NoEvaluation
       /\ NoPostList /\ NoAnalytics /\ NoVault /\ NoPhoneBook /\ NoScratch
       /\ NoItems /\ objects = "-" /\ crossed = "-" /\ faults = "-" /\ chunk = "-"
       /\ late = "-" /\ tick = "-" /\ shown = "-" /\ row = "-" /\ cache = "-"
       /\ raced = "-" /\ dropped = "-" /\ keys = "-" /\ excused = "-" /\ crashed = "-"
       /\ mixed = "-" /\ prompt = "-" /\ run = "-" /\ runs = "-" /\ edits = "-"
       /\ cuts = "-" /\ touched = "-" /\ place = "-" /\ own = "-" /\ done = "-"
       /\ minute = "-" /\ ticked = "-" /\ active = "-" /\ held = "-" /\ phoneAt = "-"
       /\ log = "-" /\ posts = "-" /\ swaps = "-" /\ unsure = "-" /\ shared = "-"
       /\ leaked = "-" /\ post = "-" /\ changes = "-" /\ failed = "-"
    \/ /\ part = "seeds" /\ Seeds!Init
       /\ NoTree /\ NoDigest /\ NoConfig /\ NoFunnel /\ NoIntake
       /\ NoPortfolio /\ NoRoles /\ NoAttached /\ NoCutover /\ NoEvaluation
       /\ NoPostList /\ NoAnalytics /\ NoVault /\ NoPhoneBook /\ NoScratch
       /\ NoItems /\ objects = "-" /\ crossed = "-" /\ faults = "-" /\ chunk = "-"
       /\ late = "-" /\ tick = "-" /\ shown = "-" /\ row = "-" /\ cache = "-"
       /\ req = "-" /\ begun = "-" /\ raced = "-" /\ dropped = "-" /\ keys = "-"
       /\ excused = "-" /\ crashed = "-" /\ rows = "-" /\ place = "-" /\ own = "-"
       /\ done = "-" /\ minute = "-" /\ ticked = "-" /\ active = "-" /\ held = "-"
       /\ phoneAt = "-" /\ log = "-" /\ posts = "-" /\ swaps = "-" /\ unsure = "-"
       /\ shared = "-" /\ leaked = "-" /\ post = "-" /\ changes = "-" /\ failed = "-"
    \/ /\ part = "demo" /\ Demo!Init
       /\ NoTree /\ NoDigest /\ NoConfig /\ NoFunnel /\ NoIntake
       /\ NoPortfolio /\ NoRoles /\ NoAttached /\ NoSeeds /\ NoCutover
       /\ NoEvaluation /\ NoPostList /\ NoAnalytics /\ NoVault /\ NoPhoneBook
       /\ NoScratch /\ NoItems /\ objects = "-" /\ crossed = "-" /\ faults = "-"
       /\ chunk = "-" /\ late = "-" /\ tick = "-" /\ shown = "-" /\ row = "-"
       /\ cache = "-" /\ req = "-" /\ begun = "-" /\ raced = "-" /\ dropped = "-"
       /\ keys = "-" /\ excused = "-" /\ crashed = "-" /\ mixed = "-" /\ prompt = "-"
       /\ touched = "-" /\ minute = "-" /\ ticked = "-" /\ active = "-" /\ held = "-"
       /\ phoneAt = "-" /\ log = "-" /\ posts = "-" /\ swaps = "-" /\ unsure = "-"
       /\ shared = "-" /\ leaked = "-" /\ post = "-" /\ changes = "-" /\ failed = "-"
    \/ /\ part = "samples" /\ Samples!Init
       /\ NoTree /\ NoDigest /\ NoConfig /\ NoFunnel /\ NoIntake
       /\ NoPortfolio /\ NoRoles /\ NoAttached /\ NoSeeds /\ NoCutover
       /\ NoEvaluation /\ NoPostList /\ NoAnalytics /\ NoVault /\ NoPhoneBook
       /\ NoScratch /\ NoItems /\ objects = "-" /\ crossed = "-" /\ faults = "-"
       /\ chunk = "-" /\ late = "-" /\ tick = "-" /\ shown = "-" /\ row = "-"
       /\ cache = "-" /\ req = "-" /\ begun = "-" /\ raced = "-" /\ dropped = "-"
       /\ keys = "-" /\ excused = "-" /\ crashed = "-" /\ mixed = "-" /\ prompt = "-"
       /\ touched = "-" /\ minute = "-" /\ ticked = "-" /\ active = "-" /\ held = "-"
       /\ phoneAt = "-" /\ log = "-" /\ posts = "-" /\ swaps = "-" /\ unsure = "-"
       /\ shared = "-" /\ leaked = "-" /\ post = "-" /\ changes = "-" /\ failed = "-"
    \/ /\ part = "cutover" /\ Cutover!Init
       /\ NoTree /\ NoDigest /\ NoConfig /\ NoFunnel /\ NoIntake
       /\ NoPortfolio /\ NoRoles /\ NoAttached /\ NoSeeds /\ NoEvaluation
       /\ NoPostList /\ NoAnalytics /\ NoVault /\ NoPhoneBook /\ NoScratch
       /\ NoItems /\ objects = "-" /\ crossed = "-" /\ chunk = "-" /\ late = "-"
       /\ tick = "-" /\ shown = "-" /\ cache = "-" /\ req = "-" /\ begun = "-"
       /\ raced = "-" /\ dropped = "-" /\ keys = "-" /\ excused = "-" /\ crashed = "-"
       /\ rows = "-" /\ mixed = "-" /\ prompt = "-" /\ run = "-" /\ edits = "-"
       /\ cuts = "-" /\ touched = "-" /\ place = "-" /\ own = "-" /\ done = "-"
       /\ minute = "-" /\ ticked = "-" /\ active = "-" /\ held = "-" /\ phoneAt = "-"
       /\ log = "-" /\ posts = "-" /\ swaps = "-" /\ unsure = "-" /\ shared = "-"
       /\ leaked = "-" /\ post = "-" /\ changes = "-" /\ failed = "-"
    \/ /\ part = "birthdays" /\ Birthdays!Init
       /\ NoTree /\ NoDigest /\ NoConfig /\ NoFunnel /\ NoIntake
       /\ NoPortfolio /\ NoRoles /\ NoAttached /\ NoSeeds /\ NoCutover
       /\ NoEvaluation /\ NoPostList /\ NoAnalytics /\ NoVault /\ NoPhoneBook
       /\ NoScratch /\ NoItems /\ objects = "-" /\ crossed = "-" /\ late = "-"
       /\ shown = "-" /\ cache = "-" /\ req = "-" /\ begun = "-" /\ raced = "-"
       /\ dropped = "-" /\ keys = "-" /\ excused = "-" /\ crashed = "-" /\ rows = "-"
       /\ mixed = "-" /\ prompt = "-" /\ run = "-" /\ runs = "-" /\ edits = "-"
       /\ cuts = "-" /\ touched = "-" /\ place = "-" /\ own = "-" /\ done = "-"
       /\ post = "-" /\ changes = "-" /\ failed = "-"
    \/ /\ part = "weeklyposts" /\ WeeklyPosts!Init
       /\ NoTree /\ NoDigest /\ NoConfig /\ NoFunnel /\ NoIntake
       /\ NoPortfolio /\ NoRoles /\ NoAttached /\ NoSeeds /\ NoCutover
       /\ NoEvaluation /\ NoPostList /\ NoAnalytics /\ NoVault /\ NoPhoneBook
       /\ NoScratch /\ NoItems /\ objects = "-" /\ crossed = "-" /\ late = "-"
       /\ shown = "-" /\ cache = "-" /\ req = "-" /\ begun = "-" /\ raced = "-"
       /\ dropped = "-" /\ keys = "-" /\ excused = "-" /\ crashed = "-" /\ rows = "-"
       /\ mixed = "-" /\ prompt = "-" /\ run = "-" /\ runs = "-" /\ edits = "-"
       /\ cuts = "-" /\ touched = "-" /\ place = "-" /\ own = "-" /\ done = "-"
       /\ post = "-" /\ changes = "-" /\ failed = "-"
    \/ /\ part = "evaluation" /\ Evaluation!Init
       /\ NoTree /\ NoDigest /\ NoConfig /\ NoFunnel /\ NoIntake
       /\ NoPortfolio /\ NoRoles /\ NoAttached /\ NoSeeds /\ NoCutover
       /\ NoPostList /\ NoAnalytics /\ NoVault /\ NoPhoneBook /\ NoScratch
       /\ NoItems /\ objects = "-" /\ chunk = "-" /\ late = "-" /\ tick = "-"
       /\ shown = "-" /\ row = "-" /\ raced = "-" /\ dropped = "-" /\ keys = "-"
       /\ excused = "-" /\ crashed = "-" /\ rows = "-" /\ mixed = "-" /\ run = "-"
       /\ runs = "-" /\ edits = "-" /\ cuts = "-" /\ touched = "-" /\ place = "-"
       /\ own = "-" /\ done = "-" /\ minute = "-" /\ ticked = "-" /\ active = "-"
       /\ held = "-" /\ phoneAt = "-" /\ log = "-" /\ posts = "-" /\ swaps = "-"
       /\ unsure = "-" /\ shared = "-" /\ leaked = "-" /\ post = "-" /\ changes = "-"
       /\ failed = "-"
    \/ /\ part = "postlist" /\ PostList!Init
       /\ NoTree /\ NoDigest /\ NoConfig /\ NoFunnel /\ NoIntake
       /\ NoPortfolio /\ NoRoles /\ NoAttached /\ NoSeeds /\ NoCutover
       /\ NoEvaluation /\ NoAnalytics /\ NoVault /\ NoPhoneBook /\ NoScratch
       /\ NoItems /\ objects = "-" /\ crossed = "-" /\ faults = "-" /\ chunk = "-"
       /\ late = "-" /\ tick = "-" /\ shown = "-" /\ row = "-" /\ cache = "-"
       /\ req = "-" /\ begun = "-" /\ raced = "-" /\ dropped = "-" /\ keys = "-"
       /\ excused = "-" /\ crashed = "-" /\ rows = "-" /\ mixed = "-" /\ prompt = "-"
       /\ run = "-" /\ runs = "-" /\ edits = "-" /\ cuts = "-" /\ touched = "-"
       /\ place = "-" /\ own = "-" /\ done = "-" /\ minute = "-" /\ ticked = "-"
       /\ active = "-" /\ held = "-" /\ phoneAt = "-" /\ log = "-" /\ posts = "-"
       /\ swaps = "-" /\ unsure = "-" /\ shared = "-" /\ leaked = "-" /\ failed = "-"
    \/ /\ part = "analytics" /\ Analytics!Init
       /\ NoTree /\ NoDigest /\ NoConfig /\ NoFunnel /\ NoIntake
       /\ NoPortfolio /\ NoRoles /\ NoAttached /\ NoSeeds /\ NoCutover
       /\ NoEvaluation /\ NoPostList /\ NoVault /\ NoPhoneBook /\ NoScratch
       /\ NoItems /\ objects = "-" /\ crossed = "-" /\ faults = "-" /\ chunk = "-"
       /\ late = "-" /\ tick = "-" /\ shown = "-" /\ row = "-" /\ cache = "-"
       /\ req = "-" /\ begun = "-" /\ raced = "-" /\ dropped = "-" /\ keys = "-"
       /\ excused = "-" /\ crashed = "-" /\ rows = "-" /\ mixed = "-" /\ prompt = "-"
       /\ run = "-" /\ runs = "-" /\ edits = "-" /\ cuts = "-" /\ touched = "-"
       /\ place = "-" /\ own = "-" /\ done = "-" /\ minute = "-" /\ ticked = "-"
       /\ active = "-" /\ held = "-" /\ phoneAt = "-" /\ log = "-" /\ posts = "-"
       /\ swaps = "-" /\ unsure = "-" /\ shared = "-" /\ leaked = "-" /\ changes = "-"
       /\ failed = "-"
    \/ /\ part = "vault" /\ Vault!Init
       /\ NoTree /\ NoDigest /\ NoConfig /\ NoFunnel /\ NoIntake
       /\ NoPortfolio /\ NoRoles /\ NoAttached /\ NoSeeds /\ NoCutover
       /\ NoEvaluation /\ NoPostList /\ NoAnalytics /\ NoPhoneBook /\ NoScratch
       /\ NoItems /\ objects = "-" /\ crossed = "-" /\ faults = "-" /\ chunk = "-"
       /\ late = "-" /\ tick = "-" /\ shown = "-" /\ cache = "-" /\ raced = "-"
       /\ dropped = "-" /\ excused = "-" /\ crashed = "-" /\ rows = "-" /\ mixed = "-"
       /\ prompt = "-" /\ run = "-" /\ runs = "-" /\ edits = "-" /\ cuts = "-"
       /\ touched = "-" /\ place = "-" /\ own = "-" /\ done = "-" /\ minute = "-"
       /\ ticked = "-" /\ active = "-" /\ held = "-" /\ phoneAt = "-" /\ log = "-"
       /\ posts = "-" /\ swaps = "-" /\ unsure = "-" /\ shared = "-" /\ leaked = "-"
       /\ post = "-" /\ changes = "-" /\ failed = "-"
    \/ /\ part = "phonebook" /\ PhoneBook!Init
       /\ NoTree /\ NoDigest /\ NoConfig /\ NoFunnel /\ NoIntake
       /\ NoPortfolio /\ NoRoles /\ NoAttached /\ NoSeeds /\ NoCutover
       /\ NoEvaluation /\ NoPostList /\ NoAnalytics /\ NoVault /\ NoScratch
       /\ NoItems /\ objects = "-" /\ crossed = "-" /\ faults = "-" /\ chunk = "-"
       /\ late = "-" /\ tick = "-" /\ shown = "-" /\ row = "-" /\ cache = "-"
       /\ dropped = "-" /\ keys = "-" /\ excused = "-" /\ crashed = "-" /\ rows = "-"
       /\ mixed = "-" /\ prompt = "-" /\ run = "-" /\ runs = "-" /\ edits = "-"
       /\ cuts = "-" /\ touched = "-" /\ place = "-" /\ own = "-" /\ done = "-"
       /\ minute = "-" /\ ticked = "-" /\ active = "-" /\ held = "-" /\ phoneAt = "-"
       /\ log = "-" /\ posts = "-" /\ swaps = "-" /\ unsure = "-" /\ shared = "-"
       /\ leaked = "-" /\ post = "-" /\ changes = "-"
    \/ /\ part = "scratch" /\ Scratch!Init
       /\ NoTree /\ NoDigest /\ NoConfig /\ NoFunnel /\ NoIntake
       /\ NoPortfolio /\ NoRoles /\ NoAttached /\ NoSeeds /\ NoCutover
       /\ NoEvaluation /\ NoPostList /\ NoAnalytics /\ NoVault /\ NoPhoneBook
       /\ NoItems /\ objects = "-" /\ crossed = "-" /\ chunk = "-" /\ late = "-"
       /\ tick = "-" /\ shown = "-" /\ cache = "-" /\ req = "-" /\ raced = "-"
       /\ dropped = "-" /\ keys = "-" /\ excused = "-" /\ crashed = "-" /\ rows = "-"
       /\ mixed = "-" /\ prompt = "-" /\ run = "-" /\ runs = "-" /\ edits = "-"
       /\ cuts = "-" /\ place = "-" /\ own = "-" /\ done = "-" /\ minute = "-"
       /\ ticked = "-" /\ active = "-" /\ phoneAt = "-" /\ log = "-" /\ posts = "-"
       /\ swaps = "-" /\ unsure = "-" /\ shared = "-" /\ leaked = "-" /\ post = "-"
       /\ failed = "-"
    \/ /\ part = "items" /\ Items!Init
       /\ NoTree /\ NoDigest /\ NoConfig /\ NoFunnel /\ NoIntake
       /\ NoPortfolio /\ NoRoles /\ NoAttached /\ NoSeeds /\ NoCutover
       /\ NoEvaluation /\ NoPostList /\ NoAnalytics /\ NoVault /\ NoPhoneBook
       /\ NoScratch /\ objects = "-" /\ crossed = "-" /\ faults = "-" /\ chunk = "-"
       /\ late = "-" /\ tick = "-" /\ row = "-" /\ cache = "-" /\ dropped = "-"
       /\ keys = "-" /\ excused = "-" /\ crashed = "-" /\ rows = "-" /\ mixed = "-"
       /\ prompt = "-" /\ run = "-" /\ runs = "-" /\ edits = "-" /\ cuts = "-"
       /\ touched = "-" /\ place = "-" /\ own = "-" /\ done = "-" /\ minute = "-"
       /\ ticked = "-" /\ active = "-" /\ held = "-" /\ phoneAt = "-" /\ log = "-"
       /\ posts = "-" /\ swaps = "-" /\ unsure = "-" /\ shared = "-" /\ leaked = "-"
       /\ post = "-" /\ changes = "-"

PartsNext ==
    \/ /\ part = "tree" /\ Tree!Next
       /\ UNCHANGED <<part, ownDigest, chunk, late, tick, shown, row,
                       ownConfig, cache, req, begun, ownFunnel, raced,
                       dropped, ownIntake, keys, excused, crashed,
                       ownPortfolio, rows, ownRoles, mixed, ownAttached,
                       ownSeeds, prompt, run, runs, edits, cuts, touched,
                       place, own, done, ownCutover, minute, ticked, active,
                       held, phoneAt, log, posts, swaps, unsure, shared,
                       leaked, ownEvaluation, post, ownPostList, changes,
                       ownAnalytics, ownVault, ownPhoneBook, failed,
                       ownScratch, ownItems>>
    \/ /\ part = "digest" /\ Digest!Next
       /\ UNCHANGED <<part, ownTree, objects, crossed, row, ownConfig,
                       cache, req, begun, ownFunnel, raced, dropped,
                       ownIntake, keys, excused, crashed, ownPortfolio, rows,
                       ownRoles, mixed, ownAttached, ownSeeds, prompt, run,
                       runs, edits, cuts, touched, place, own, done,
                       ownCutover, minute, ticked, active, held, phoneAt,
                       log, posts, swaps, unsure, shared, leaked,
                       ownEvaluation, post, ownPostList, changes,
                       ownAnalytics, ownVault, ownPhoneBook, failed,
                       ownScratch, ownItems>>
    \/ /\ part = "config" /\ Config!Next
       /\ UNCHANGED <<part, ownTree, objects, crossed, ownDigest, chunk,
                       tick, shown, ownFunnel, raced, dropped, ownIntake,
                       keys, excused, crashed, ownPortfolio, rows, ownRoles,
                       mixed, ownAttached, ownSeeds, prompt, run, runs,
                       edits, cuts, touched, place, own, done, ownCutover,
                       minute, ticked, active, held, phoneAt, log, posts,
                       swaps, unsure, shared, leaked, ownEvaluation, post,
                       ownPostList, changes, ownAnalytics, ownVault,
                       ownPhoneBook, failed, ownScratch, ownItems>>
    \/ /\ part = "funnel" /\ Funnel!Next
       /\ UNCHANGED <<part, ownTree, objects, crossed, faults, ownDigest,
                       chunk, late, tick, shown, ownConfig, cache, ownIntake,
                       keys, excused, crashed, ownPortfolio, rows, ownRoles,
                       mixed, ownAttached, ownSeeds, prompt, run, runs,
                       edits, cuts, touched, place, own, done, ownCutover,
                       minute, ticked, active, held, phoneAt, log, posts,
                       swaps, unsure, shared, leaked, ownEvaluation, post,
                       ownPostList, changes, ownAnalytics, ownVault,
                       ownPhoneBook, failed, ownScratch, ownItems>>
    \/ /\ part = "intake" /\ Intake!Next
       /\ UNCHANGED <<part, ownTree, crossed, faults, ownDigest, chunk,
                       late, tick, shown, ownConfig, cache, req, begun,
                       ownFunnel, raced, dropped, ownPortfolio, rows,
                       ownRoles, mixed, ownAttached, ownSeeds, prompt, run,
                       runs, edits, cuts, touched, place, own, done,
                       ownCutover, minute, ticked, active, held, phoneAt,
                       log, posts, swaps, unsure, shared, leaked,
                       ownEvaluation, post, ownPostList, changes,
                       ownAnalytics, ownVault, ownPhoneBook, failed,
                       ownScratch, ownItems>>
    \/ /\ part = "portfolio" /\ Portfolio!Next
       /\ UNCHANGED <<part, ownTree, crossed, faults, ownDigest, chunk,
                       late, tick, shown, row, ownConfig, cache, ownFunnel,
                       dropped, ownIntake, keys, ownRoles, mixed,
                       ownAttached, ownSeeds, prompt, run, runs, edits, cuts,
                       touched, place, own, done, ownCutover, minute, ticked,
                       active, held, phoneAt, log, posts, swaps, unsure,
                       shared, leaked, ownEvaluation, post, ownPostList,
                       changes, ownAnalytics, ownVault, ownPhoneBook, failed,
                       ownScratch, ownItems>>
    \/ /\ part = "roles" /\ Roles!Next
       /\ UNCHANGED <<part, ownTree, objects, crossed, faults, ownDigest,
                       chunk, late, tick, shown, row, ownConfig, cache,
                       ownFunnel, raced, ownIntake, keys, excused, crashed,
                       ownPortfolio, rows, ownAttached, ownSeeds, prompt,
                       run, runs, edits, cuts, touched, place, own, done,
                       ownCutover, minute, ticked, active, held, phoneAt,
                       log, posts, swaps, unsure, shared, leaked,
                       ownEvaluation, post, ownPostList, changes,
                       ownAnalytics, ownVault, ownPhoneBook, failed,
                       ownScratch, ownItems>>
    \/ /\ part = "attached" /\ Attached!Next
       /\ UNCHANGED <<part, ownTree, objects, crossed, faults, ownDigest,
                       chunk, late, tick, shown, row, ownConfig, cache,
                       ownFunnel, raced, dropped, ownIntake, keys, excused,
                       crashed, ownPortfolio, ownRoles, mixed, ownSeeds,
                       prompt, run, runs, edits, cuts, touched, place, own,
                       done, ownCutover, minute, ticked, active, held,
                       phoneAt, log, posts, swaps, unsure, shared, leaked,
                       ownEvaluation, post, ownPostList, changes,
                       ownAnalytics, ownVault, ownPhoneBook, failed,
                       ownScratch, ownItems>>
    \/ /\ part = "seeds" /\ Seeds!Next
       /\ UNCHANGED <<part, ownTree, objects, crossed, faults, ownDigest,
                       chunk, late, tick, shown, row, ownConfig, cache, req,
                       begun, ownFunnel, raced, dropped, ownIntake, keys,
                       excused, crashed, ownPortfolio, rows, ownRoles,
                       ownAttached, place, own, done, ownCutover, minute,
                       ticked, active, held, phoneAt, log, posts, swaps,
                       unsure, shared, leaked, ownEvaluation, post,
                       ownPostList, changes, ownAnalytics, ownVault,
                       ownPhoneBook, failed, ownScratch, ownItems>>
    \/ /\ part = "demo" /\ Demo!Next
       /\ UNCHANGED <<part, ownTree, objects, crossed, faults, ownDigest,
                       chunk, late, tick, shown, row, ownConfig, cache, req,
                       begun, ownFunnel, raced, dropped, ownIntake, keys,
                       excused, crashed, ownPortfolio, ownRoles, mixed,
                       ownAttached, ownSeeds, prompt, touched, ownCutover,
                       minute, ticked, active, held, phoneAt, log, posts,
                       swaps, unsure, shared, leaked, ownEvaluation, post,
                       ownPostList, changes, ownAnalytics, ownVault,
                       ownPhoneBook, failed, ownScratch, ownItems>>
    \/ /\ part = "samples" /\ Samples!Next
       /\ UNCHANGED <<part, ownTree, objects, crossed, faults, ownDigest,
                       chunk, late, tick, shown, row, ownConfig, cache, req,
                       begun, ownFunnel, raced, dropped, ownIntake, keys,
                       excused, crashed, ownPortfolio, ownRoles, mixed,
                       ownAttached, ownSeeds, prompt, touched, ownCutover,
                       minute, ticked, active, held, phoneAt, log, posts,
                       swaps, unsure, shared, leaked, ownEvaluation, post,
                       ownPostList, changes, ownAnalytics, ownVault,
                       ownPhoneBook, failed, ownScratch, ownItems>>
    \/ /\ part = "cutover" /\ Cutover!Next
       /\ UNCHANGED <<part, ownTree, objects, crossed, ownDigest, chunk,
                       late, tick, shown, ownConfig, cache, req, begun,
                       ownFunnel, raced, dropped, ownIntake, keys, excused,
                       crashed, ownPortfolio, rows, ownRoles, mixed,
                       ownAttached, ownSeeds, prompt, run, edits, cuts,
                       touched, place, own, done, minute, ticked, active,
                       held, phoneAt, log, posts, swaps, unsure, shared,
                       leaked, ownEvaluation, post, ownPostList, changes,
                       ownAnalytics, ownVault, ownPhoneBook, failed,
                       ownScratch, ownItems>>
    \/ /\ part = "birthdays" /\ Birthdays!Next
       /\ UNCHANGED <<part, ownTree, objects, crossed, ownDigest, late,
                       shown, ownConfig, cache, req, begun, ownFunnel, raced,
                       dropped, ownIntake, keys, excused, crashed,
                       ownPortfolio, rows, ownRoles, mixed, ownAttached,
                       ownSeeds, prompt, run, runs, edits, cuts, touched,
                       place, own, done, ownCutover, ownEvaluation, post,
                       ownPostList, changes, ownAnalytics, ownVault,
                       ownPhoneBook, failed, ownScratch, ownItems>>
    \/ /\ part = "weeklyposts" /\ WeeklyPosts!Next
       /\ UNCHANGED <<part, ownTree, objects, crossed, ownDigest, late,
                       shown, ownConfig, cache, req, begun, ownFunnel, raced,
                       dropped, ownIntake, keys, excused, crashed,
                       ownPortfolio, rows, ownRoles, mixed, ownAttached,
                       ownSeeds, prompt, run, runs, edits, cuts, touched,
                       place, own, done, ownCutover, ownEvaluation, post,
                       ownPostList, changes, ownAnalytics, ownVault,
                       ownPhoneBook, failed, ownScratch, ownItems>>
    \/ /\ part = "evaluation" /\ Evaluation!Next
       /\ UNCHANGED <<part, ownTree, objects, ownDigest, chunk, late, tick,
                       shown, row, ownConfig, ownFunnel, raced, dropped,
                       ownIntake, keys, excused, crashed, ownPortfolio, rows,
                       ownRoles, mixed, ownAttached, ownSeeds, run, runs,
                       edits, cuts, touched, place, own, done, ownCutover,
                       minute, ticked, active, held, phoneAt, log, posts,
                       swaps, unsure, shared, leaked, post, ownPostList,
                       changes, ownAnalytics, ownVault, ownPhoneBook, failed,
                       ownScratch, ownItems>>
    \/ /\ part = "postlist" /\ PostList!Next
       /\ UNCHANGED <<part, ownTree, objects, crossed, faults, ownDigest,
                       chunk, late, tick, shown, row, ownConfig, cache, req,
                       begun, ownFunnel, raced, dropped, ownIntake, keys,
                       excused, crashed, ownPortfolio, rows, ownRoles, mixed,
                       ownAttached, ownSeeds, prompt, run, runs, edits, cuts,
                       touched, place, own, done, ownCutover, minute, ticked,
                       active, held, phoneAt, log, posts, swaps, unsure,
                       shared, leaked, ownEvaluation, ownAnalytics, ownVault,
                       ownPhoneBook, failed, ownScratch, ownItems>>
    \/ /\ part = "analytics" /\ Analytics!Next
       /\ UNCHANGED <<part, ownTree, objects, crossed, faults, ownDigest,
                       chunk, late, tick, shown, row, ownConfig, cache, req,
                       begun, ownFunnel, raced, dropped, ownIntake, keys,
                       excused, crashed, ownPortfolio, rows, ownRoles, mixed,
                       ownAttached, ownSeeds, prompt, run, runs, edits, cuts,
                       touched, place, own, done, ownCutover, minute, ticked,
                       active, held, phoneAt, log, posts, swaps, unsure,
                       shared, leaked, ownEvaluation, ownPostList, changes,
                       ownVault, ownPhoneBook, failed, ownScratch, ownItems>>
    \/ /\ part = "vault" /\ Vault!Next
       /\ UNCHANGED <<part, ownTree, objects, crossed, faults, ownDigest,
                       chunk, late, tick, shown, ownConfig, cache, ownFunnel,
                       raced, dropped, ownIntake, excused, crashed,
                       ownPortfolio, rows, ownRoles, mixed, ownAttached,
                       ownSeeds, prompt, run, runs, edits, cuts, touched,
                       place, own, done, ownCutover, minute, ticked, active,
                       held, phoneAt, log, posts, swaps, unsure, shared,
                       leaked, ownEvaluation, post, ownPostList, changes,
                       ownAnalytics, ownPhoneBook, failed, ownScratch,
                       ownItems>>
    \/ /\ part = "phonebook" /\ PhoneBook!Next
       /\ UNCHANGED <<part, ownTree, objects, crossed, faults, ownDigest,
                       chunk, late, tick, shown, row, ownConfig, cache,
                       ownFunnel, dropped, ownIntake, keys, excused, crashed,
                       ownPortfolio, rows, ownRoles, mixed, ownAttached,
                       ownSeeds, prompt, run, runs, edits, cuts, touched,
                       place, own, done, ownCutover, minute, ticked, active,
                       held, phoneAt, log, posts, swaps, unsure, shared,
                       leaked, ownEvaluation, post, ownPostList, changes,
                       ownAnalytics, ownVault, ownScratch, ownItems>>
    \/ /\ part = "scratch" /\ Scratch!Next
       /\ UNCHANGED <<part, ownTree, objects, crossed, ownDigest, chunk,
                       late, tick, shown, ownConfig, cache, req, ownFunnel,
                       raced, dropped, ownIntake, keys, excused, crashed,
                       ownPortfolio, rows, ownRoles, mixed, ownAttached,
                       ownSeeds, prompt, run, runs, edits, cuts, place, own,
                       done, ownCutover, minute, ticked, active, phoneAt,
                       log, posts, swaps, unsure, shared, leaked,
                       ownEvaluation, post, ownPostList, ownAnalytics,
                       ownVault, ownPhoneBook, failed, ownItems>>
    \/ /\ part = "items" /\ Items!Next
       /\ UNCHANGED <<part, ownTree, objects, crossed, faults, ownDigest,
                       chunk, late, tick, row, ownConfig, cache, ownFunnel,
                       dropped, ownIntake, keys, excused, crashed,
                       ownPortfolio, rows, ownRoles, mixed, ownAttached,
                       ownSeeds, prompt, run, runs, edits, cuts, touched,
                       place, own, done, ownCutover, minute, ticked, active,
                       held, phoneAt, log, posts, swaps, unsure, shared,
                       leaked, ownEvaluation, post, ownPostList, changes,
                       ownAnalytics, ownVault, ownPhoneBook, ownScratch>>

PartsSpec == PartsInit /\ [][PartsNext]_allVars

Symmetry == Permutations(Callers)

\* Every component keeps its types, stated in each module.
TypesOK ==
    /\ part = "tree" => Tree!TypeOK
    /\ part = "digest" => Digest!TypeOK
    /\ part = "config" => Config!TypeOK
    /\ part = "funnel" => Funnel!TypeOK
    /\ part = "intake" => Intake!TypeOK
    /\ part = "portfolio" => Portfolio!TypeOK
    /\ part = "roles" => Roles!TypeOK
    /\ part = "attached" => Attached!TypeOK
    /\ part = "seeds" => Seeds!TypeOK
    /\ part = "demo" => Demo!TypeOK
    /\ part = "samples" => Samples!TypeOK
    /\ part = "cutover" => Cutover!TypeOK
    /\ part = "birthdays" => Birthdays!TypeOK
    /\ part = "weeklyposts" => WeeklyPosts!TypeOK
    /\ part = "evaluation" => Evaluation!TypeOK
    /\ part = "postlist" => PostList!TypeOK
    /\ part = "analytics" => Analytics!TypeOK
    /\ part = "vault" => Vault!TypeOK
    /\ part = "phonebook" => PhoneBook!TypeOK
    /\ part = "scratch" => Scratch!TypeOK
    /\ part = "items" => Items!TypeOK

\* What is listed, posted and counted agrees with what is kept: files and folders, report
\* digests, pages of posts and figures, stated in each module.
RecordsAgree ==
    /\ part = "tree" => Tree!FilesSafe
    /\ part = "digest" => Digest!DigestSound
    /\ part = "postlist" => PostList!PostListSound
    /\ part = "analytics" => Analytics!FiguresAgree

\* Portfolios, slugs and tags of their items, settings, roles, attachments, seeds, the move of
\* the store, restores, credentials and prompts, stated in each module.
PlatformSound ==
    /\ part = "config" => Config!SettingsSound
    /\ part = "portfolio" => Portfolio!PortfolioSound
    /\ part = "roles" => Roles!RolesSound
    /\ part = "attached" => Attached!AttachmentsSound
    /\ part = "seeds" => Seeds!SeedingSound
    /\ part = "cutover" => Cutover!BucketCutoverSound
    /\ part = "evaluation" => Evaluation!PromptsSound
    /\ part = "vault" => Vault!CredentialsSound
    /\ part = "scratch" => Scratch!RestoreSafe
    /\ part = "items" => Items!PortfolioItemsSound

\* The registry of the settings, demo rows, and the board of phone numbers, stated in each
\* module.
DataSound ==
    /\ part = "config" => Config!RegistrySound
    /\ part = "demo" => Demo!DemoDataSound
    /\ part = "samples" => Samples!DemoDataSound
    /\ part = "phonebook" => PhoneBook!PhoneBookSound

\* The funnel from proposal to lead, posts, and the requests of the site, stated in each module.
SalesSound ==
    /\ part = "funnel" => Funnel!SalesFunnelSound
    /\ part = "intake" => Intake!ClientIntakeSound

\* The daily posts to Discord go out, once, and a repeat has a cause.
PostsSound ==
    /\ part = "birthdays" => Birthdays!DailyPostsSound
    /\ part = "weeklyposts" => WeeklyPosts!DailyPostsSound

=============================================================================

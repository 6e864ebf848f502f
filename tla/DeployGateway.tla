---------------------------- MODULE DeployGateway ----------------------------
(***************************************************************************)
(* The deploy gateway, ops/gateway/sargas-claude-deploy-gw: deploy-run     *)
(* (preflight, lock, spawn, wait), the detached runner with its fifteen    *)
(* steps, and deploy-unlock.  A deploy may stop anywhere; what it has done *)
(* stays, its lock is held until an operator removes it, and a retry goes  *)
(* by the recorded state.  Versions are numbered in the order of main.     *)
(***************************************************************************)
EXTENDS Integers, FiniteSets

CONSTANTS BeTip, FeTip,     \* last versions pushed to main of either repository
          Migrating,        \* backend versions that bring a migration
          Seeding,          \* backend versions that change what is seeded
          Keep,             \* releases kept besides the current and previous one
          MaxDeploys,       \* bound of the calls of deploy-run
          MaxUnlocks,       \* bound of the calls of deploy-unlock
          MaxFaults         \* bound of restarts behind the gateway's back

Deploys == 1..MaxDeploys
Releases == 0..MaxDeploys   \* 0 is the release of the installation

VARIABLES tip,      \* origin/main of both repositories
          head,     \* HEAD of both working trees
          built,    \* the backend build in the working tree
          running,  \* the build that the backend process has loaded
          db,       \* the migrations and seeds applied
          state,    \* state.json
          release,  \* fe-releases: what each release directory holds
          dist,     \* the release that the dist symlink names
          lock,     \* the lock directory and the deploy its meta names
          caller,   \* deploy-run in the process that was called
          run,      \* the detached runner
          unlock,   \* deploy-unlock between its checks and its rm
          faults, unlocks,
          raced     \* history: a lock was removed under a deploy

vars == <<tip, head, built, running, db, state, release, dist, lock, caller,
          run, unlock, faults, unlocks, raced>>

NoLock == [dir |-> "no", id |-> 0]
NewRun == [pc |-> "new", be |-> 0, fe |-> 0, prevBe |-> 0, prevFe |-> 0,
           base |-> 0, backup |-> "no", old |-> 0]
Changing == {"ff", "build", "backup", "migrate", "seed", "restart", "health",
             "feBuild", "swap", "probe", "rollback", "prune", "release"}
Alive == Changing \union {"spawned", "preflight"}

Init ==
    /\ tip = [be |-> 1, fe |-> 1] /\ head = [be |-> 1, fe |-> 1]
    /\ built = 1 /\ running = 1
    /\ db = [migrated |-> Migrating \intersect {1}, seeded |-> Seeding \intersect {1},
             failed |-> "no"]
    /\ state = [dbe |-> 1, pbe |-> 0, pfe |-> 1, prfe |-> 0, rel |-> 0, prel |-> 0]
    /\ release = [r \in Releases |-> IF r = 0 THEN "whole" ELSE "none"]
    /\ dist = 0
    /\ lock = NoLock
    /\ caller = [d \in Deploys |-> "new"]
    /\ run = [d \in Deploys |-> NewRun]
    /\ unlock = 0 /\ faults = 0 /\ unlocks = 0
    /\ raced = "no"

code   == <<tip, head, built, running>>
data   == <<db, state>>
front  == <<release, dist>>
bounds == <<faults, unlocks>>

Goto(d, pc) == [run EXCEPT ![d].pc = pc]

-----------------------------------------------------------------------------
(* The world around: pushes, and what restarts the backend by itself.      *)

Push(repo, last) ==
    /\ tip[repo] < last
    /\ tip' = [tip EXCEPT ![repo] = @ + 1]
    /\ UNCHANGED <<head, built, running, data, front, lock, caller, run, unlock,
                   bounds, raced>>

\* PM2 restarts a crashed backend on whatever is built.
Pm2Restart ==
    /\ running # built
    /\ faults < MaxFaults /\ faults' = faults + 1
    /\ running' = built
    /\ UNCHANGED <<tip, head, built, data, front, lock, caller, run, unlock,
                   unlocks, raced>>

-----------------------------------------------------------------------------
(* deploy-run and its preflight.                                           *)

Between(base, v, S) == {x \in S : base < x /\ x <= v}
\* Mutant: the deltas of the migrations are forgotten.
NeededSeeds(base, v) == Between(base, v, Seeding) # {}
Needed(base, v) == Between(base, v, Migrating \union Seeding) # {}

\* Mutant: HEAD must be what was deployed.
HeadOkOnlyDeployed(h, dep, target) == h = dep
\* HEAD is what was deployed, or already the target of the deploy to retry.
HeadOk(h, dep, target) == h = dep \/ h = target

\* prisma migrate status: all migrations of HEAD applied, or HEAD is the target.
DbOk(be) ==
    /\ db.failed = "no"
    /\ Between(0, head.be, Migrating) \subseteq db.migrated \/ head.be = be

PlanOk(be, fe) ==
    /\ be = tip.be /\ fe = tip.fe
    /\ HeadOk(head.be, state.dbe, be) /\ HeadOk(head.fe, state.pfe, fe)
    /\ DbOk(be)

NextDeploy(d) == caller[d] = "new" /\ \A e \in 1..(d - 1) : caller[e] # "new"

Plan(d) ==
    /\ NextDeploy(d) /\ lock.dir = "no" /\ PlanOk(tip.be, tip.fe)
    /\ caller' = [caller EXCEPT ![d] = "mkdir"]
    /\ run' = [run EXCEPT ![d].be = tip.be, ![d].fe = tip.fe]
    /\ UNCHANGED <<code, data, front, lock, unlock, bounds, raced>>

\* Mutant: mkdir -p.
MkdirP == TRUE
Mkdir == lock.dir = "no"

\* mkdir is atomic; the runner is spawned right after.
LockDir(d) ==
    /\ caller[d] = "mkdir"
    /\ IF Mkdir
       THEN /\ lock' = [dir |-> "yes", id |-> 0]
            /\ caller' = [caller EXCEPT ![d] = "wait"]
            /\ run' = Goto(d, "spawned")
       ELSE /\ caller' = [caller EXCEPT ![d] = "done"]
            /\ UNCHANGED <<lock, run>>
    /\ UNCHANGED <<code, data, front, unlock, bounds, raced>>

\* The wait ends with a meta, anybody's, or after five seconds without one.
CallerSees(d) ==
    /\ caller[d] = "wait" /\ lock.dir = "yes" /\ lock.id # 0
    /\ caller' = [caller EXCEPT ![d] = "done"]
    /\ UNCHANGED <<code, data, front, lock, run, unlock, bounds, raced>>

CallerTimesOut(d) ==
    /\ caller[d] = "wait" /\ (lock.dir = "no" \/ lock.id = 0)
    /\ caller' = [caller EXCEPT ![d] = "rm"]
    /\ UNCHANGED <<code, data, front, lock, run, unlock, bounds, raced>>

\* A lock is removed that is not, or no longer, the one of deploy id, or while
\* a runner is alive.
Hurried(id) == IF lock.id # id \/ \E d \in Deploys : run[d].pc \in Alive THEN "yes" ELSE raced

CallerRemovesLock(d) ==
    /\ caller[d] = "rm"
    /\ lock' = NoLock
    /\ caller' = [caller EXCEPT ![d] = "done"]
    /\ raced' = Hurried(0)
    /\ UNCHANGED <<code, data, front, run, unlock, bounds>>

-----------------------------------------------------------------------------
(* The runner.                                                             *)

\* Step 1: the meta goes into the lock directory; without one the write dies.
WriteMeta(d) ==
    /\ run[d].pc = "spawned"
    /\ IF lock.dir = "yes"
       THEN /\ lock' = [lock EXCEPT !.id = d]
            /\ run' = [run EXCEPT ![d].pc = "preflight", ![d].prevBe = state.dbe,
                                  ![d].prevFe = state.pfe]
       ELSE /\ run' = Goto(d, "dead")
            /\ UNCHANGED lock
    /\ UNCHANGED <<code, data, front, caller, unlock, bounds, raced>>

\* Step 2: the plan again, under the lock, which must be one's own.
OwnsLock(d) == lock.dir = "yes" /\ lock.id = d

Preflight(d) ==
    /\ run[d].pc = "preflight"
    /\ run' = IF OwnsLock(d) /\ PlanOk(run[d].be, run[d].fe)
              THEN [run EXCEPT ![d].pc = "ff", ![d].base = state.dbe]
              ELSE Goto(d, "dead")
    /\ UNCHANGED <<code, data, front, lock, caller, unlock, bounds, raced>>

\* Mutant: the lock is released on every exit.
StopsUnlocking(d) ==
    /\ run[d].pc \in Alive
    /\ run' = Goto(d, "dead")
    /\ lock' = NoLock
    /\ UNCHANGED <<code, data, front, caller, unlock, bounds, raced>>

\* A step fails or times out, or the runner is killed: it ends, and whatever
\* it holds stays.
Stops(d) ==
    /\ run[d].pc \in Alive
    /\ run' = Goto(d, "dead")
    /\ UNCHANGED <<code, data, front, lock, caller, unlock, bounds, raced>>

\* git merge --ff-only: nothing happens when HEAD is ahead.
Merged(repo, v) == IF v > head[repo] THEN [head EXCEPT ![repo] = v] ELSE head

FastForwardBe(d) ==
    /\ run[d].pc = "ff"
    /\ head' = Merged("be", run[d].be)
    /\ run' = Goto(d, "build")
    /\ UNCHANGED <<tip, built, running, data, front, lock, caller, unlock, bounds, raced>>

Build(d) ==
    /\ run[d].pc = "build"
    /\ built' = head.be
    /\ run' = Goto(d, IF Needed(run[d].base, run[d].be) THEN "backup" ELSE "restart")
    /\ UNCHANGED <<tip, head, running, data, front, lock, caller, unlock, bounds, raced>>

\* Steps 4 and 5: scripts/backup.ts reports VERIFIED and the gate lets its id
\* through (BackupRun); anything else is Stops.
BackupAndGate(d) ==
    /\ run[d].pc = "backup"
    /\ run' = [run EXCEPT ![d].pc = "migrate", ![d].backup = "verified"]
    /\ UNCHANGED <<code, data, front, lock, caller, unlock, bounds, raced>>

\* Step 6: prisma applies what is pending in the working tree; a migration
\* that fails is recorded and every later plan is refused.
Pending == Between(0, head.be, Migrating) \ db.migrated

MigrateDeploy(d) ==
    /\ run[d].pc = "migrate"
    /\ \/ /\ db' = IF Between(run[d].base, run[d].be, Migrating) = {} THEN db
                   ELSE [db EXCEPT !.migrated = @ \union Pending]
          /\ run' = Goto(d, "seed")
       \/ /\ Pending # {}
          /\ db' = [db EXCEPT !.failed = "yes"]
          /\ run' = Goto(d, "dead")
    /\ UNCHANGED <<code, state, front, lock, caller, unlock, bounds, raced>>

\* Mutant: the seeds of HEAD, and only these, count as missing.
SeedDeltaLast(d) == Seeding \intersect {run[d].be}
\* Mutant: every version since the base counts as one that seeds.
SeedDeltaAny(d) == (run[d].base + 1)..run[d].be
SeedDelta(d) == Between(run[d].base, run[d].be, Seeding)

SeedSystem(d) ==
    /\ run[d].pc = "seed"
    /\ db' = [db EXCEPT !.seeded = @ \union SeedDelta(d)]
    /\ run' = Goto(d, "restart")
    /\ UNCHANGED <<code, state, front, lock, caller, unlock, bounds, raced>>

\* Step 8, and the start of step 9.
RestartBackend(d) ==
    /\ run[d].pc = "restart"
    /\ running' = built
    /\ run' = Goto(d, "health")
    /\ UNCHANGED <<tip, head, built, data, front, lock, caller, unlock, bounds, raced>>

\* Mutant: what was deployed before becomes the previous one, on a retry too.
KeptPreviousNaive(d) == run[d].prevBe
KeptPrevious(d) == IF run[d].prevBe = run[d].be THEN state.pbe ELSE run[d].prevBe

\* Step 9 when the backend is healthy and no migration is missing: the state
\* is written in one rename.
RecordBackend(d) ==
    /\ run[d].pc = "health"
    /\ Between(run[d].base, run[d].be, Migrating) # {} => Pending = {}
    /\ state' = [state EXCEPT !.dbe = run[d].be, !.pbe = KeptPrevious(d)]
    /\ run' = Goto(d, "feBuild")
    /\ UNCHANGED <<code, db, front, lock, caller, unlock, bounds, raced>>

\* Steps 10 to 12: a release directory of its own; what vite has written when
\* it is cut off stays there in part.
BuildFrontend(d) ==
    /\ run[d].pc = "feBuild"
    /\ head' = Merged("fe", run[d].fe)
    /\ \/ /\ release' = [release EXCEPT ![d] = "whole"]
          /\ run' = Goto(d, "swap")
       \/ /\ release' = [release EXCEPT ![d] = "part"]
          /\ run' = Goto(d, "dead")
    /\ UNCHANGED <<tip, built, running, data, dist, lock, caller, unlock, bounds, raced>>

\* Step 13: rename over the symlink.
SwapDist(d) ==
    /\ run[d].pc = "swap"
    /\ run' = [run EXCEPT ![d].pc = "probe", ![d].old = dist]
    /\ dist' = d
    /\ UNCHANGED <<code, data, release, lock, caller, unlock, bounds, raced>>

\* Step 14: a failing probe rolls the symlink back and ends the deploy.
ProbeFails(d) ==
    /\ run[d].pc = "probe"
    /\ run' = Goto(d, "rollback")
    /\ UNCHANGED <<code, data, front, lock, caller, unlock, bounds, raced>>

RollBack(d) ==
    /\ run[d].pc = "rollback"
    /\ dist' = IF release[run[d].old] = "none" THEN dist ELSE run[d].old
    /\ run' = Goto(d, "dead")
    /\ UNCHANGED <<code, data, release, lock, caller, unlock, bounds, raced>>

RecordFrontend(d) ==
    /\ run[d].pc = "probe"
    /\ state' = [state EXCEPT !.pfe = run[d].fe, !.prfe = run[d].prevFe,
                              !.rel = d, !.prel = run[d].old]
    /\ run' = Goto(d, "prune")
    /\ UNCHANGED <<code, db, front, lock, caller, unlock, bounds, raced>>

\* Mutant: the previous release is pruned like any other.
KeptReleasesCurrent(d) == {d}
\* Step 15: the current, the previous and the newest releases stay; the
\* first one has no deploy's id and is never touched.
KeptReleases(d) == {d, run[d].old}
Newer(r, d) == {q \in Deploys \ KeptReleases(d) : q > r /\ release[q] # "none"}
Pruned(d) == {r \in Deploys \ KeptReleases(d) :
                 release[r] # "none" /\ Cardinality(Newer(r, d)) >= Keep}

Prune(d) ==
    /\ run[d].pc = "prune"
    /\ release' = [r \in Releases |-> IF r \in Pruned(d) THEN "none" ELSE release[r]]
    /\ run' = Goto(d, "release")
    /\ UNCHANGED <<code, data, dist, lock, caller, unlock, bounds, raced>>

ReleaseLock(d) ==
    /\ run[d].pc = "release"
    /\ lock' = NoLock
    /\ run' = Goto(d, "deployed")
    /\ UNCHANGED <<code, data, front, caller, unlock, bounds, raced>>

-----------------------------------------------------------------------------
(* deploy-unlock: the id must match and its runner be proven dead.         *)

ProvenDead(d) == run[d].pc \notin Alive

UnlockCheck(d) ==
    /\ unlocks < MaxUnlocks /\ unlock = 0
    /\ lock.dir = "yes" /\ lock.id = d /\ ProvenDead(d)
    /\ unlock' = d /\ unlocks' = unlocks + 1
    /\ UNCHANGED <<code, data, front, lock, caller, run, faults, raced>>

UnlockRemove ==
    /\ unlock # 0
    /\ lock' = NoLock
    /\ raced' = Hurried(unlock)
    /\ unlock' = 0
    /\ UNCHANGED <<code, data, front, caller, run, bounds>>

RunnerStep(d) ==
    \/ WriteMeta(d) \/ Preflight(d) \/ Stops(d) \/ FastForwardBe(d) \/ Build(d)
    \/ BackupAndGate(d) \/ MigrateDeploy(d) \/ SeedSystem(d) \/ RestartBackend(d)
    \/ RecordBackend(d) \/ BuildFrontend(d) \/ SwapDist(d) \/ ProbeFails(d)
    \/ RollBack(d) \/ RecordFrontend(d) \/ Prune(d) \/ ReleaseLock(d)

\* The runs end where a lock is removed under a deploy: what then happens is
\* up to the operator.
Next ==
  /\ raced = "no"
  /\ \/ Push("be", BeTip) \/ Push("fe", FeTip) \/ Pm2Restart
     \/ \E d \in Deploys :
           \/ Plan(d) \/ LockDir(d) \/ CallerSees(d) \/ CallerTimesOut(d)
           \/ CallerRemovesLock(d) \/ RunnerStep(d) \/ UnlockCheck(d)
     \/ UnlockRemove

Spec == Init /\ [][Next]_vars

-----------------------------------------------------------------------------
(* Properties.                                                             *)

\* Every variable keeps its type; a recorded version is one of main's.
TypeOK ==
    /\ tip \in [be : 1..BeTip, fe : 1..FeTip] /\ head \in [be : 1..BeTip, fe : 1..FeTip]
    /\ built \in 1..BeTip /\ running \in 1..BeTip
    /\ db.migrated \subseteq Migrating /\ db.seeded \subseteq Seeding
    /\ state \in [dbe : 1..BeTip, pbe : 0..BeTip, pfe : 1..FeTip, prfe : 0..FeTip,
                  rel : Releases, prel : Releases]
    /\ release \in [Releases -> {"none", "part", "whole"}] /\ dist \in Releases
    /\ lock \in [dir : {"no", "yes"}, id : 0..MaxDeploys]
    /\ \A d \in Deploys : run[d].pc \in Alive \union {"new", "dead", "deployed"}

\* Two runners are never past their preflight at once, unless a lock was
\* removed under a deploy: by a caller that gave up on a runner about to
\* start, or by an unlock that was overtaken by a new deploy (v_deploy_run,
\* "removing the dir makes any late-starting runner die").
OneRunner ==
    \A d, e \in Deploys : run[d].pc \in Changing /\ run[e].pc \in Changing => d = e

\* What state.json calls deployed has its migrations and its seeds in the
\* database, across every partial failure and retry (the deltas are computed
\* from the recorded base).
DeployedIsInDb ==
    /\ Between(0, state.dbe, Migrating) \subseteq db.migrated
    /\ Between(1, state.dbe, Seeding) \subseteq db.seeded

\* The release that is served is whole and on disk, and so are the two that
\* state.json names for a rollback by hand, whatever was pruned and however
\* often a deploy was cut off.
ServedReleasesExist ==
    raced = "no" => \A r \in {dist, state.rel, state.prel} : release[r] = "whole"

\* When no deploy holds the lock, and none was ever unlocked, everything
\* agrees with what is recorded.
FreeMeansAgreed ==
    lock.dir = "no" /\ unlocks = 0 /\ raced = "no"
        => /\ head = [be |-> state.dbe, fe |-> state.pfe]
           /\ running = state.dbe /\ dist = state.rel

\* A deploy that stopped can be tried again once its lock is removed, unless
\* a migration failed or main has moved on.
RetryAllowed ==
    \A d \in Deploys :
        /\ run[d].pc = "dead" /\ raced = "no" /\ db.failed = "no"
        /\ \A e \in Deploys : e > d => caller[e] = "new"
        /\ [be |-> run[d].be, fe |-> run[d].fe] = tip
        => PlanOk(tip.be, tip.fe)

\* The backend to go back to by hand is never the one that is deployed.
PreviousBackendKept == state.pbe # state.dbe

\* The database is only written by a runner that has a verified backup of its
\* own, and a runner only restarts the backend on code whose migrations are in.
GuardedStep ==
    /\ db # db' => \E d \in Deploys : run[d] # run'[d] /\ run[d].backup = "verified"
    /\ \A d \in Deploys :
          run[d].pc = "restart" /\ run'[d].pc = "health" /\ raced = "no"
             => Between(0, running', Migrating) \subseteq db.migrated
WritesGuarded == [][GuardedStep]_vars

\* What a deploy promises, wherever it stops: one runner at a time, the recorded
\* state true of database, releases and processes, and the way to retry open
\* (runner_main, v_deploy_run, v_deploy_unlock).
DeploySafe ==
    /\ OneRunner
    /\ DeployedIsInDb
    /\ ServedReleasesExist
    /\ FreeMeansAgreed
    /\ RetryAllowed
    /\ PreviousBackendKept
=============================================================================

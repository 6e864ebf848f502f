------------------------------ MODULE BackupRun ------------------------------
(***************************************************************************)
(* Database backups: runBackup, started by the API (BackupsService.trigger,*)
(* one pooled Prisma client) or by scripts/backup.ts (a process and a      *)
(* client of its own), the migration gate, the retention script and the    *)
(* watchdog of stuck rows.  Runs are numbered in the order they start.     *)
(***************************************************************************)
EXTENDS Integers, FiniteSets

CONSTANTS MaxRuns,      \* bound of the runs ever started
          ApiConns,     \* connections of the API's pool: numbers that are no runs
          Window,       \* TRIGGER_IN_FLIGHT_WINDOW_MS, in units of the clock
          Stuck,        \* STUCK_HOURS
          Fresh,        \* DEFAULT_MAX_AGE_MS of the migration gate
          Retention,    \* BACKUP_RETENTION_DAYS
          Horizon,      \* bound of the clock
          MaxFaults     \* bound of the failures, crashes and lost replies

Runs == 1..MaxRuns

VARIABLES clock,
          pc,       \* where each run of runBackup is
          proc,     \* the process of a run
          row,      \* the BackupRun rows
          bucket,   \* the artifact of a run in B2
          lock,     \* how often each connection holds the advisory lock
          prune,    \* scripts/prune-backups.ts at work: its snapshot
          watch,    \* scripts/mark-stuck-running.ts at work: its snapshot
          gate,     \* runs whose migration was let through
          faults,
          reversed  \* history: verdicts VERIFIED that were overwritten

vars == <<clock, pc, proc, row, bucket, lock, prune, watch, gate, faults,
          reversed>>

NoRow == [st |-> "none", at |-> 0, no |-> 0, key |-> "no"]
Idle == [pc |-> "idle", todo |-> {}]
AtWork == {"row", "dump", "manifest", "verify", "mark", "catch", "release"}
Conns == ApiConns \union Runs       \* a script has a connection of its own
ConnsOf(r) == IF proc[r] = "api" THEN ApiConns ELSE {r}
Verified == {r \in Runs : row[r].st = "VERIFIED"}
Latest(S) == {r \in S : \A q \in S : row[q].no <= row[r].no}

Init ==
    /\ clock = 0
    /\ pc = [r \in Runs |-> "new"] /\ proc = [r \in Runs |-> "none"]
    /\ row = [r \in Runs |-> NoRow]
    /\ bucket = [r \in Runs |-> "none"]
    /\ lock = [c \in Conns |-> 0]
    /\ prune = Idle /\ watch = Idle
    /\ gate = {} /\ faults = 0 /\ reversed = {}

Fault == faults < MaxFaults /\ faults' = faults + 1
scripts == <<prune, watch, gate>>

-----------------------------------------------------------------------------
(* runBackup.                                                              *)

NextToStart(r) == pc[r] = "new" /\ \A q \in 1..(r - 1) : pc[q] # "new"

\* BackupsService.trigger: refused while the youngest RUNNING row is young.
InFlight ==
    LET running == {q \in Runs : row[q].st = "RUNNING"}
    IN  \E q \in Latest(running) : clock - row[q].at < Window

Trigger(r) ==
    /\ NextToStart(r) /\ ~InFlight
    /\ pc' = [pc EXCEPT ![r] = "lock"] /\ proc' = [proc EXCEPT ![r] = "api"]
    /\ UNCHANGED <<clock, row, bucket, lock, scripts, faults, reversed>>

Script(r) ==
    /\ NextToStart(r)
    /\ pc' = [pc EXCEPT ![r] = "lock"] /\ proc' = [proc EXCEPT ![r] = "cli"]
    /\ UNCHANGED <<clock, row, bucket, lock, scripts, faults, reversed>>

\* pg_try_advisory_lock on any connection of the client: a session that has
\* the lock gets it again.
GrantedPerProcess(c) == \A d \in ApiConns \ {c} : lock[d] = 0
Granted(c) == \A d \in Conns \ {c} : lock[d] = 0

TryAcquireLock(r, c) ==
    /\ pc[r] = "lock" /\ c \in ConnsOf(r)
    /\ IF Granted(c)
       THEN /\ lock' = [lock EXCEPT ![c] = @ + 1]
            /\ pc' = [pc EXCEPT ![r] = "row"]
       ELSE /\ pc' = [pc EXCEPT ![r] = "done"]
            /\ UNCHANGED lock
    /\ UNCHANGED <<clock, proc, row, bucket, scripts, faults, reversed>>

\* A process that ends takes the locks of its connections with it.
DisconnectNever(r) == lock
Disconnect(r) == [lock EXCEPT ![r] = 0]

\* mkdtemp rejects: the lock is taken and nothing will release it, but the
\* end of a script does.
ScratchFails(r) ==
    /\ pc[r] = "row" /\ Fault
    /\ pc' = [pc EXCEPT ![r] = "done"]
    /\ lock' = IF proc[r] = "cli" THEN Disconnect(r) ELSE lock
    /\ UNCHANGED <<clock, proc, row, bucket, scripts, reversed>>

\* When the reply is lost the catch has no run to mark FAILED.
Created == Cardinality({q \in Runs : row[q].st # "none"})

CreateRow(r) ==
    /\ pc[r] = "row"
    /\ row' = [row EXCEPT ![r] = [st |-> "RUNNING", at |-> clock, no |-> Created + 1,
                                  key |-> "no"]]
    /\ \/ pc' = [pc EXCEPT ![r] = "dump"] /\ UNCHANGED faults
       \/ pc' = [pc EXCEPT ![r] = "release"] /\ Fault
    /\ UNCHANGED <<clock, proc, bucket, lock, scripts, reversed>>

\* pg_dump, its checks and the upload of the artifact; what B2 keeps may
\* differ from what was sent.
UploadArtifact(r) ==
    /\ pc[r] = "dump"
    /\ \/ bucket' = [bucket EXCEPT ![r] = "ok"] /\ UNCHANGED faults
       \/ bucket' = [bucket EXCEPT ![r] = "bad"] /\ Fault
    /\ pc' = [pc EXCEPT ![r] = "manifest"]
    /\ UNCHANGED <<clock, proc, row, lock, scripts, reversed>>

UploadManifest(r) ==
    /\ pc[r] = "manifest"
    /\ pc' = [pc EXCEPT ![r] = "verify"]
    /\ UNCHANGED <<clock, proc, row, bucket, lock, scripts, faults, reversed>>

\* Download, hash again, pg_restore --list.
RoundTripOkAlways(r) == TRUE
RoundTripOk(r) == bucket[r] = "ok"

VerifyRoundTrip(r) ==
    /\ pc[r] = "verify"
    /\ pc' = [pc EXCEPT ![r] = IF RoundTripOk(r) THEN "mark" ELSE "catch"]
    /\ UNCHANGED <<clock, proc, row, bucket, lock, scripts, faults, reversed>>

\* The row may have been pruned (P2025); a reply may be lost after the commit.
MarkVerified(r) ==
    /\ pc[r] = "mark"
    /\ \/ /\ row[r].st # "deleted"
          /\ row' = [row EXCEPT ![r].st = "VERIFIED", ![r].key = "yes"]
          /\ \/ pc' = [pc EXCEPT ![r] = "release"] /\ UNCHANGED faults
             \/ pc' = [pc EXCEPT ![r] = "catch"] /\ Fault
       \/ /\ row[r].st = "deleted"
          /\ pc' = [pc EXCEPT ![r] = "catch"]
          /\ UNCHANGED <<row, faults>>
    /\ UNCHANGED <<clock, proc, bucket, lock, scripts, reversed>>

\* Any awaited call of the try block may reject.
StepFails(r) ==
    /\ pc[r] \in {"row", "dump", "manifest", "verify", "mark"} /\ Fault
    /\ pc' = [pc EXCEPT ![r] = "catch"]
    /\ UNCHANGED <<clock, proc, row, bucket, lock, scripts, reversed>>

\* The update by id has no status guard; it may fail, which is only logged.
Overwritten(S) == {r \in S : row[r].st = "VERIFIED"}

Catch(r) ==
    /\ pc[r] = "catch"
    /\ pc' = [pc EXCEPT ![r] = "release"]
    /\ \/ /\ row[r].st \notin {"none", "deleted"}
          /\ row' = [row EXCEPT ![r].st = "FAILED"]
          /\ reversed' = reversed \union Overwritten({r})
          /\ UNCHANGED faults
       \/ /\ row[r].st \in {"none", "deleted"}
          /\ UNCHANGED <<row, faults, reversed>>
       \/ Fault /\ UNCHANGED <<row, reversed>>
    /\ UNCHANGED <<clock, proc, bucket, lock, scripts>>

UnlockedBlind(n) == n - 1
Unlocked(n) == IF n > 0 THEN n - 1 ELSE 0

\* pg_advisory_unlock on any connection of the client; on another one than
\* took the lock it does nothing.  A script ends right after.
ReleaseLock(r, c) ==
    /\ pc[r] = "release" /\ c \in ConnsOf(r)
    /\ pc' = [pc EXCEPT ![r] = "done"]
    /\ lock' = IF proc[r] = "cli" THEN Disconnect(r)
               ELSE [lock EXCEPT ![c] = Unlocked(@)]
    /\ UNCHANGED <<clock, proc, row, bucket, scripts, faults, reversed>>

ApiRestart ==
    /\ Fault
    /\ pc' = [r \in Runs |-> IF proc[r] = "api" THEN "done" ELSE pc[r]]
    /\ lock' = [c \in Conns |-> IF c \in ApiConns THEN 0 ELSE lock[c]]
    /\ UNCHANGED <<clock, proc, row, bucket, scripts, reversed>>

\* The script is killed, by the deploy's timeout or by hand.
ScriptKilled(r) ==
    /\ proc[r] = "cli" /\ pc[r] # "done" /\ Fault
    /\ pc' = [pc EXCEPT ![r] = "done"]
    /\ lock' = Disconnect(r)
    /\ UNCHANGED <<clock, proc, row, bucket, scripts, reversed>>

-----------------------------------------------------------------------------
(* The scripts around it.                                                  *)

\* evaluateMigrationGate with requireCurrentRun, in production.
GateOpensLatest(r) == r \in Latest(Verified)
GateOpens(r) == r \in Latest(Verified) /\ clock - row[r].at <= Fresh

MigrationGate(r) ==
    /\ proc[r] = "cli" /\ pc[r] = "done" /\ r \notin gate
    /\ GateOpens(r)
    /\ gate' = gate \union {r}
    /\ UNCHANGED <<clock, pc, proc, row, bucket, lock, prune, watch, faults, reversed>>

StuckRowsAny == {r \in Runs : row[r].st = "RUNNING"}
StuckRows == {r \in Runs : row[r].st = "RUNNING" /\ clock - row[r].at > Stuck}

WatchRead ==
    /\ watch.pc = "idle"
    /\ StuckRows # {}
    /\ watch' = [pc |-> "mark", todo |-> StuckRows]
    /\ UNCHANGED <<clock, pc, proc, row, bucket, lock, prune, gate, faults, reversed>>

WatchMark(r) ==
    /\ watch.pc = "mark" /\ r \in watch.todo
    /\ IF row[r].st = "deleted" THEN UNCHANGED <<row, reversed>>
       ELSE /\ row' = [row EXCEPT ![r].st = "FAILED"]
            /\ reversed' = reversed \union Overwritten({r})
    /\ watch' = IF watch.todo = {r} THEN Idle ELSE [watch EXCEPT !.todo = @ \ {r}]
    /\ UNCHANGED <<clock, pc, proc, bucket, lock, prune, gate, faults>>

\* pickRunsToPrune: all rows past the cutoff but the last VERIFIED one.
Rows == {r \in Runs : row[r].st \notin {"none", "deleted"}}
Expired(r) == clock - row[r].at > Retention
RunsToPruneAll == {r \in Rows : Expired(r)}
RunsToPrune == {r \in Rows : Expired(r)} \ Latest(Verified)

PruneRead ==
    /\ prune.pc = "idle" /\ RunsToPrune # {}
    /\ prune' = [pc |-> "object", todo |-> {[id |-> r, key |-> row[r].key] : r \in RunsToPrune}]
    /\ UNCHANGED <<clock, pc, proc, row, bucket, lock, watch, gate, faults, reversed>>

\* The objects the snapshot names go first, then the row, whatever came of
\* the first; each of the two may fail.
PruneRun(c) ==
    /\ prune.pc = "object" /\ c \in prune.todo
    /\ \/ bucket' = [bucket EXCEPT ![c.id] = IF c.key = "yes" THEN "none" ELSE @]
          /\ UNCHANGED faults
       \/ UNCHANGED bucket /\ Fault
    /\ prune' = [pc |-> "row", todo |-> prune.todo]
    /\ UNCHANGED <<clock, pc, proc, row, lock, watch, gate, reversed>>

PruneRow(c) ==
    /\ prune.pc = "row" /\ c \in prune.todo
    /\ \/ row' = [row EXCEPT ![c.id].st = "deleted"] /\ UNCHANGED faults
       \/ UNCHANGED row /\ Fault
    /\ prune' = IF prune.todo = {c} THEN Idle
                ELSE [pc |-> "object", todo |-> prune.todo \ {c}]
    /\ UNCHANGED <<clock, pc, proc, bucket, lock, watch, gate, reversed>>

\* No run is at work so long that retention (a year) gives its row up.
Tick ==
    /\ clock < Horizon
    /\ \A r \in Runs : pc[r] \in AtWork /\ row[r].st # "none"
                        => clock - row[r].at < Retention
    /\ clock' = clock + 1
    /\ UNCHANGED <<pc, proc, row, bucket, lock, scripts, faults, reversed>>

RunStep(r) ==
    \/ Trigger(r) \/ Script(r)
    \/ \E c \in Conns : TryAcquireLock(r, c) \/ ReleaseLock(r, c)
    \/ ScratchFails(r) \/ CreateRow(r) \/ UploadArtifact(r) \/ UploadManifest(r)
    \/ VerifyRoundTrip(r) \/ MarkVerified(r) \/ StepFails(r) \/ Catch(r)
    \/ ScriptKilled(r)

Next ==
    \/ \E r \in Runs : RunStep(r) \/ MigrationGate(r) \/ WatchMark(r)
    \/ WatchRead \/ PruneRead
    \/ \E c \in prune.todo : PruneRun(c) \/ PruneRow(c)
    \/ ApiRestart \/ Tick

Spec == Init /\ [][Next]_vars

-----------------------------------------------------------------------------
(* Properties.                                                             *)

\* Every variable keeps its type; in particular a lock count never exceeds
\* the runs that could have taken it (tryAcquireLock and releaseLock).
TypeOK ==
    /\ clock \in 0..Horizon /\ faults \in 0..MaxFaults
    /\ pc \in [Runs -> AtWork \union {"new", "lock", "done"}]
    /\ proc \in [Runs -> {"none", "api", "cli"}]
    /\ row \in [Runs -> [st : {"none", "RUNNING", "VERIFIED", "FAILED", "deleted"},
                         at : 0..Horizon, no : 0..MaxRuns, key : {"no", "yes"}]]
    /\ bucket \in [Runs -> {"none", "ok", "bad"}]
    /\ lock \in [Conns -> 0..MaxRuns]
    /\ prune.pc \in {"idle", "object", "row"} /\ watch.pc \in {"idle", "mark"}
    /\ gate \subseteq Runs /\ reversed \subseteq Runs

\* A row says VERIFIED only of an artifact that is in the bucket and sound;
\* only one that the retention script has given up may be gone.  The row is
\* written long after the upload, and pruned in two calls that may each fail.
VerifiedIsStored ==
    \A r \in Verified : bucket[r] = "ok" \/ (bucket[r] = "none" /\ Expired(r))

\* Once a backup was VERIFIED there is a VERIFIED one in the bucket, for ever
\* and whatever the retention script's snapshot is overtaken by, unless a
\* verdict was overwritten by the watchdog or by a lost reply.
LastBackupKept ==
    (\E r \in Runs : row[r].key = "yes") /\ reversed = {}
        => \E r \in Verified : bucket[r] = "ok"

\* Backups of two processes never work at the same time; those of the API
\* may, on a connection that has the lock already.
OneProcessDumps ==
    \A r, q \in Runs : r # q /\ pc[r] \in AtWork /\ pc[q] \in AtWork
                        => proc[r] = "api" /\ proc[q] = "api"

\* A script that has ended leaves no lock behind; one that is held by nobody
\* at work is the API's (a scratch directory that cannot be made, an unlock
\* on another connection), and every backup of another process is refused
\* until the API restarts.
OnlyApiLeaksLock ==
    \A r \in Runs : lock[r] > 0 => pc[r] \in AtWork

\* A migration is let through on a sound backup of its own deploy that is no
\* older than the gate's limit, when the gate opens.
MigrationHasBackup ==
    \A r \in gate' \ gate : bucket[r] = "ok" /\ clock - row[r].at <= Fresh

\* A verdict VERIFIED of a run that finished in time is never overwritten:
\* only the watchdog's stale snapshot of a run past its limit and a lost
\* reply can do it.
TimelyVerdictStands ==
    \A r \in reversed' \ reversed :
        pc[r] = "catch" \/ clock - row[r].at > Stuck

\* What the backups promise at all times: a verified run is stored, the last one
\* survives retention, one process dumps at once, and only the API leaks the lock
\* (runBackup, prune-backups.ts, the pooled advisory lock).
BackupsSafe ==
    /\ VerifiedIsStored
    /\ LastBackupKept
    /\ OneProcessDumps
    /\ OnlyApiLeaksLock

\* Neither the gate nor the watchdog takes a step that it should not.
SafeStep == MigrationHasBackup /\ TimelyVerdictStands
BackupStepsSafe == [][SafeStep]_vars
=============================================================================

------------------------------ MODULE Machines ------------------------------
(***************************************************************************)
(* What runs by the clock or in several steps by itself: the backups, the  *)
(* call reminders, the maintenance of phone numbers, the deploy gateway    *)
(* and the upload sessions, each with the proof of what it promises.       *)
(***************************************************************************)
EXTENDS Integers, Sequences, FiniteSets, FiniteSetTheorems, TLAPS

CONSTANTS ApiConns, BackupFresh, BackupHorizon, BeTip, CallHorizon, Callers,
          Calls, FeTip, Keep, MaxCalls, MaxDeploys, MaxEdits, MaxExpiries,
          MaxFaults, MaxMissed, MaxRequests, MaxRuns, MaxUnlocks, Migrating,
          Operators, PhoneHorizon, Phones, Retention, Seeding, Sizes, Slots,
          StatusRequests, Stuck, Users, Window

\* The variables of the components, by their names there.
VARIABLES clock, pc, proc, row, bucket, lock, prune, watch, gate, faults,
          reversed, up, call, stamps, tick, sent, notices, op, edits, missed,
          hurt, now, phone, task, sweep, req, calls, edited, said, tip, head,
          built, running, db, state, release, dist, caller, run, unlock,
          unlocks, raced, b2, file, folder, expiries

\* What the components take their constants to be, each explained there: a backup that the gate
\* accepts is not yet pruned, a file has bytes, "-" is no call.
ASSUME MachinesAssumption ==
    /\ MaxRuns \in Nat /\ Retention \in Nat /\ Stuck \in Nat /\ BackupHorizon \in Nat
    /\ BackupFresh \in Nat /\ BackupFresh <= Retention /\ ApiConns \intersect 1..MaxRuns = {}
    /\ Sizes \subseteq Nat \ {0} /\ MaxRequests \in Nat /\ MaxFaults \in Nat
    /\ PhoneHorizon \in Nat
    /\ "-" \notin Calls /\ Slots \subseteq Nat /\ CallHorizon \in Nat
    /\ StatusRequests \subseteq {"same", "scheduled", "cancelled", "completed"}
    /\ BeTip \in Nat \ {0} /\ FeTip \in Nat \ {0} /\ MaxDeploys \in Nat
    /\ Migrating \subseteq 1..BeTip /\ Seeding \subseteq 1..BeTip

-----------------------------------------------------------------------------
(* Backups.  Two inductions: one over the rows, the artifacts and the      *)
(* snapshots of the scripts, one over the advisory lock.                   *)

Backup == INSTANCE BackupRun WITH
    Fresh <- BackupFresh, Horizon <- BackupHorizon

\* The gate's limit is a day, retention a year; a connection is no run.
BackupLimits ==
    /\ MaxRuns \in Nat /\ Retention \in Nat /\ Stuck \in Nat /\ BackupFresh \in Nat
    /\ BackupHorizon \in Nat /\ MaxFaults \in Nat
    /\ BackupFresh <= Retention
    /\ ApiConns \intersect Backup!Runs = {}

BackupPcs == Backup!AtWork \union {"new", "lock", "done"}
BackupRowOf == [st : {"none", "RUNNING", "VERIFIED", "FAILED", "deleted"}, at : Nat, no : Nat, key : {"no", "yes"}]

BackupTyped ==
    /\ clock \in Nat
    /\ pc \in [Backup!Runs -> BackupPcs]
    /\ row \in [Backup!Runs -> BackupRowOf]
    /\ bucket \in [Backup!Runs -> {"none", "ok", "bad"}]
    /\ prune \in [pc : {"idle", "object", "row"}, todo : SUBSET [id : Backup!Runs, key : {"no", "yes"}]]
    /\ watch \in [pc : {"idle", "mark"}, todo : SUBSET Backup!Runs]

\* A run at p with row w and artifact b, at time t.
BackupRun(p, w, b, t) ==
    /\ p \in {"new", "lock", "row"} => w = Backup!NoRow
    /\ p \in {"dump", "manifest", "verify", "mark"} => w.st # "none"
    /\ w.st = "VERIFIED" => w.key = "yes"
    /\ w.key = "yes" => p \in {"release", "catch", "done"}
    /\ w.key = "yes" => b = "ok" \/ (b = "none" /\ t - w.at > Retention)
    /\ p = "mark" => b = "ok"
    /\ p \in Backup!AtWork /\ w.st # "none" => t - w.at <= Retention

BackupRunInv == \A r \in Backup!Runs : BackupRun(pc[r], row[r], bucket[r], clock)

\* The snapshots: what they name is as old as they said, and keeps its key.
BackupPruneInv ==
    \A c \in prune.todo :
        /\ row[c.id].st # "none" /\ clock - row[c.id].at > Retention
        /\ c.key = "yes" => row[c.id].key = "yes"
BackupWatchInv == \A r \in watch.todo : row[r].st # "none" /\ clock - row[r].at > Stuck

\* The last verified backup is stored, and no snapshot names it.
BackupKept ==
    reversed = {} =>
        /\ (\E r \in Backup!Runs : row[r].key = "yes") => Backup!Latest(Backup!Verified) # {}
        /\ \A r \in Backup!Latest(Backup!Verified) : bucket[r] = "ok" /\ \A c \in prune.todo : c.id # r

BackupInv == BackupTyped /\ BackupRunInv /\ BackupPruneInv /\ BackupWatchInv /\ BackupKept

\* Before the first run the invariant holds.
LEMMA BackupInit == ASSUME BackupLimits PROVE Backup!Init => BackupInv
<1> SUFFICES ASSUME Backup!Init PROVE BackupInv
  OBVIOUS
<1>1. Backup!NoRow \in BackupRowOf /\ Backup!NoRow.st = "none" /\ Backup!NoRow.key = "no"
  BY DEF Backup!NoRow, BackupRowOf
<1>2. Backup!Idle \in [pc : {"idle", "object", "row"}, todo : SUBSET [id : Backup!Runs, key : {"no", "yes"}]]
      /\ Backup!Idle \in [pc : {"idle", "mark"}, todo : SUBSET Backup!Runs] /\ Backup!Idle.todo = {}
  BY DEF Backup!Idle
<1>3. BackupTyped
  BY <1>1, <1>2 DEF Backup!Init, BackupTyped, BackupPcs
<1>4. BackupRunInv
  BY <1>1 DEF Backup!Init, BackupRunInv, BackupRun, Backup!AtWork
<1>5. BackupPruneInv /\ BackupWatchInv /\ BackupKept
  BY <1>1, <1>2 DEF Backup!Init, BackupPruneInv, BackupWatchInv, BackupKept, Backup!Latest, Backup!Verified
<1> QED BY <1>3, <1>4, <1>5 DEF BackupInv

\* Rows once made keep their date, number and key.
BackupGrows(w, x) == w.st # "none" => x.st # "none" /\ x.at = w.at /\ x.no = w.no /\ (w.key = "yes" => x.key = "yes")

\* What retention and the watchdog remember stays true while rows only grow older and move on.
LEMMA BackupSnapshotsKept ==
  ASSUME BackupInv, \A r \in Backup!Runs : BackupGrows(row[r], row'[r]), clock' = clock \/ clock' = clock + 1, BackupLimits,
         row' \in [Backup!Runs -> BackupRowOf]
  PROVE  /\ prune'.todo \subseteq prune.todo => BackupPruneInv'
         /\ watch'.todo \subseteq watch.todo => BackupWatchInv'
<1>1. clock \in Nat /\ clock' \in Nat /\ clock' >= clock /\ Retention \in Nat /\ Stuck \in Nat
  BY DEF BackupInv, BackupTyped, BackupLimits
<1>2. ASSUME NEW r \in Backup!Runs, row[r].st # "none"
      PROVE  /\ row'[r].st # "none" /\ row'[r].at = row[r].at /\ row[r].at \in Nat
             /\ row[r].key = "yes" => row'[r].key = "yes"
  BY <1>2 DEF BackupGrows, BackupInv, BackupTyped, BackupRowOf
<1>3. \A c \in prune.todo : c.id \in Backup!Runs
  BY DEF BackupInv, BackupTyped
<1>4. \A r \in watch.todo : r \in Backup!Runs
  BY DEF BackupInv, BackupTyped
<1>5. ASSUME prune'.todo \subseteq prune.todo PROVE BackupPruneInv'
  <2> SUFFICES ASSUME NEW c \in prune.todo
               PROVE  /\ row'[c.id].st # "none" /\ clock' - row'[c.id].at > Retention
                      /\ c.key = "yes" => row'[c.id].key = "yes"
    BY <1>5 DEF BackupPruneInv
  <2>1. row[c.id].st # "none" /\ clock - row[c.id].at > Retention /\ (c.key = "yes" => row[c.id].key = "yes")
    BY DEF BackupInv, BackupPruneInv
  <2> QED BY <1>1, <1>2, <1>3, <2>1
<1>6. ASSUME watch'.todo \subseteq watch.todo PROVE BackupWatchInv'
  <2> SUFFICES ASSUME NEW r \in watch.todo PROVE row'[r].st # "none" /\ clock' - row'[r].at > Stuck
    BY <1>6 DEF BackupWatchInv
  <2>1. row[r].st # "none" /\ clock - row[r].at > Stuck
    BY DEF BackupInv, BackupWatchInv
  <2> QED BY <1>1, <1>2, <1>4, <2>1
<1> QED BY <1>5, <1>6

\* One run changes, and no snapshot: the last verified backup stays, when the run
\* is as verified as it was, or has just been verified, or was overwritten.
LEMMA BackupKeptByRun ==
  ASSUME BackupInv, NEW r \in Backup!Runs, prune'.todo \subseteq prune.todo,
         row' \in [Backup!Runs -> BackupRowOf], row'[r].no = row[r].no \/ row[r].st = "none",
         \A q \in Backup!Runs : q # r => row'[q] = row[q] /\ bucket'[q] = bucket[q],
         reversed \subseteq reversed',
         \/ reversed' # {}
         \/ /\ row'[r].st = "VERIFIED" <=> row[r].st = "VERIFIED"
            /\ row'[r].key = "yes" => row[r].key = "yes"
            /\ row[r].st = "VERIFIED" => bucket'[r] = bucket[r]
         \/ /\ row'[r].st = "VERIFIED" /\ bucket'[r] = "ok" /\ row[r].st # "none"
            /\ \A c \in prune.todo : c.id # r
  PROVE  BackupKept'
<1> SUFFICES ASSUME reversed' = {}
             PROVE  /\ (\E q \in Backup!Runs : row'[q].key = "yes") => Backup!Latest(Backup!Verified)' # {}
                    /\ \A q \in Backup!Latest(Backup!Verified)' : bucket'[q] = "ok" /\ \A c \in prune'.todo : c.id # q
  BY DEF BackupKept
<1>1. /\ (\E q \in Backup!Runs : row[q].key = "yes") => Backup!Latest(Backup!Verified) # {}
      /\ \A q \in Backup!Latest(Backup!Verified) : bucket[q] = "ok" /\ \A c \in prune.todo : c.id # q
  BY DEF BackupInv, BackupKept
<1>2. \A q \in Backup!Runs : row[q].no \in Nat /\ row'[q].no \in Nat
  BY DEF BackupInv, BackupTyped, BackupRowOf
<1>3. CASE /\ row'[r].st = "VERIFIED" <=> row[r].st = "VERIFIED"
           /\ row'[r].key = "yes" => row[r].key = "yes"
           /\ row[r].st = "VERIFIED" => bucket'[r] = bucket[r]
  <2>1. Backup!Verified' = Backup!Verified
    BY <1>3 DEF Backup!Verified
  <2>2. \A q \in Backup!Verified : row'[q].no = row[q].no /\ bucket'[q] = bucket[q]
    BY <1>3 DEF Backup!Verified
  <2>3. Backup!Latest(Backup!Verified)' = Backup!Latest(Backup!Verified)
    BY <2>1, <2>2 DEF Backup!Latest
  <2>4. \A q \in Backup!Latest(Backup!Verified) : q \in Backup!Verified
    BY DEF Backup!Latest
  <2> QED BY <1>1, <1>3, <2>2, <2>3, <2>4
<1>4. CASE /\ row'[r].st = "VERIFIED" /\ bucket'[r] = "ok" /\ row[r].st # "none"
           /\ \A c \in prune.todo : c.id # r
  <2>1. Backup!Verified' = Backup!Verified \union {r}
    BY <1>4 DEF Backup!Verified
  <2>2. \A q \in Backup!Runs : row'[q].no = row[q].no
    BY <1>4
  <2>3. Backup!Latest(Backup!Verified)' \subseteq Backup!Latest(Backup!Verified) \union {r}
    BY <2>1, <2>2 DEF Backup!Latest, Backup!Verified
  <2>4. Backup!Latest(Backup!Verified)' # {}
    <3>1. CASE Backup!Latest(Backup!Verified) = {}
      <4>1. \A q \in Backup!Runs : row[q].st # "VERIFIED"
        BY <1>1, <3>1 DEF BackupInv, BackupRunInv, BackupRun
      <4>2. Backup!Verified' = {r}
        BY <2>1, <4>1 DEF Backup!Verified
      <4> QED BY <1>2, <4>2 DEF Backup!Latest
    <3>2. ASSUME NEW l \in Backup!Latest(Backup!Verified) PROVE Backup!Latest(Backup!Verified)' # {}
      <4>1. l \in Backup!Verified /\ l \in Backup!Runs /\ \A q \in Backup!Verified : row[q].no <= row[l].no
        BY <3>2 DEF Backup!Latest, Backup!Verified
      <4>2. CASE row[r].no <= row[l].no
        <5>1. l \in Backup!Latest(Backup!Verified)'
          BY <2>1, <2>2, <4>1, <4>2 DEF Backup!Latest, Backup!Verified
        <5> QED BY <5>1
      <4>3. CASE ~(row[r].no <= row[l].no)
        <5>1. \A q \in Backup!Verified : q \in Backup!Runs /\ row[q].no <= row[r].no
          BY <1>2, <4>1, <4>3 DEF Backup!Verified
        <5>2. r \in Backup!Latest(Backup!Verified)'
          BY <1>2, <2>1, <2>2, <5>1 DEF Backup!Latest
        <5> QED BY <5>2
      <4> QED BY <4>2, <4>3
    <3> QED BY <3>1, <3>2
  <2>5. \A q \in Backup!Latest(Backup!Verified) : q \in Backup!Runs /\ (q # r => bucket'[q] = bucket[q])
    BY DEF Backup!Latest, Backup!Verified
  <2> QED BY <1>1, <1>4, <2>3, <2>4, <2>5
<1> QED BY <1>3, <1>4

-----------------------------------------------------------------------------
\* A step that changes one run, its row or its artifact.
BackupOnly(r) ==
    /\ clock' = clock
    /\ pc' = [pc EXCEPT ![r] = pc'[r]] /\ row' = [row EXCEPT ![r] = row'[r]]
    /\ bucket' = [bucket EXCEPT ![r] = bucket'[r]]
    /\ pc'[r] \in BackupPcs /\ row'[r] \in BackupRowOf /\ bucket'[r] \in {"none", "ok", "bad"}
    /\ prune' = prune
    /\ watch' \in [pc : {"idle", "mark"}, todo : SUBSET watch.todo]
    /\ BackupGrows(row[r], row'[r])

\* A step that changes one run keeps the invariant if its row, its artifact and its program counter still agree.
LEMMA BackupOneRun ==
  ASSUME BackupLimits, BackupInv, NEW r \in Backup!Runs, BackupOnly(r), BackupRun(pc'[r], row'[r], bucket'[r], clock),
         reversed \subseteq reversed',
         \/ reversed' # {}
         \/ /\ row'[r].st = "VERIFIED" <=> row[r].st = "VERIFIED"
            /\ row'[r].key = "yes" => row[r].key = "yes"
            /\ row[r].st = "VERIFIED" => bucket'[r] = bucket[r]
         \/ /\ row'[r].st = "VERIFIED" /\ bucket'[r] = "ok" /\ row[r].st # "none"
            /\ \A c \in prune.todo : c.id # r
  PROVE  BackupInv'
<1>0. BackupTyped
  BY DEF BackupInv
<1>1. /\ \A q \in Backup!Runs : q # r => pc'[q] = pc[q] /\ row'[q] = row[q] /\ bucket'[q] = bucket[q]
      /\ pc' \in [Backup!Runs -> BackupPcs] /\ row' \in [Backup!Runs -> BackupRowOf] /\ bucket' \in [Backup!Runs -> {"none", "ok", "bad"}]
  BY <1>0 DEF BackupOnly, BackupTyped
<1>2. BackupTyped'
  BY <1>0, <1>1 DEF BackupOnly, BackupTyped
<1>3. BackupRunInv'
  BY <1>1 DEF BackupInv, BackupRunInv, BackupOnly
<1>4. \A q \in Backup!Runs : BackupGrows(row[q], row'[q])
  BY <1>1 DEF BackupOnly, BackupGrows
<1>5. BackupPruneInv' /\ BackupWatchInv'
  BY <1>1, <1>4, BackupSnapshotsKept DEF BackupOnly
<1>6. row'[r].no = row[r].no \/ row[r].st = "none"
  BY DEF BackupOnly, BackupGrows
<1>7. prune'.todo \subseteq prune.todo
  BY DEF BackupOnly
<1>8. BackupKept'
  BY <1>1, <1>6, <1>7, BackupKeptByRun
<1> QED BY <1>2, <1>3, <1>5, <1>8 DEF BackupInv

\* One run moves on, and its row and its artifact stay.
LEMMA BackupMoves ==
  ASSUME BackupLimits, BackupInv, NEW r \in Backup!Runs, NEW p \in BackupPcs, pc' = [pc EXCEPT ![r] = p],
         UNCHANGED <<clock, row, bucket, prune, watch, reversed>>,
         BackupRun(p, row[r], bucket[r], clock)
  PROVE  BackupInv'
<1>0. BackupTyped /\ pc'[r] = p
  BY DEF BackupInv, BackupTyped
<1>1. row[r] \in BackupRowOf /\ bucket[r] \in {"none", "ok", "bad"}
  BY <1>0 DEF BackupTyped
<1>2. row' = [row EXCEPT ![r] = row'[r]] /\ bucket' = [bucket EXCEPT ![r] = bucket'[r]]
  BY <1>0 DEF BackupTyped
<1>3. watch' \in [pc : {"idle", "mark"}, todo : SUBSET watch.todo]
  BY <1>0 DEF BackupTyped
<1>4. BackupOnly(r)
  BY <1>0, <1>1, <1>2, <1>3 DEF BackupOnly, BackupGrows
<1>5. BackupRun(pc'[r], row'[r], bucket'[r], clock) /\ reversed \subseteq reversed'
  BY <1>0
<1>6. /\ row'[r].st = "VERIFIED" <=> row[r].st = "VERIFIED"
      /\ row'[r].key = "yes" => row[r].key = "yes"
      /\ row[r].st = "VERIFIED" => bucket'[r] = bucket[r]
  OBVIOUS
<1> QED BY <1>4, <1>5, <1>6, BackupOneRun

\* The steps of a run that write neither row nor artifact, or leave the row alone.
LEMMA BackupMovesKeep ==
  ASSUME BackupLimits, BackupInv, NEW r \in Backup!Runs,
         \/ Backup!Trigger(r) \/ Backup!Script(r) \/ (\E c \in Backup!Conns : Backup!TryAcquireLock(r, c) \/ Backup!ReleaseLock(r, c))
         \/ Backup!ScratchFails(r) \/ Backup!UploadManifest(r) \/ Backup!VerifyRoundTrip(r) \/ Backup!StepFails(r)
         \/ Backup!ScriptKilled(r)
  PROVE  BackupInv'
<1>1. BackupRun(pc[r], row[r], bucket[r], clock) /\ pc[r] \in BackupPcs /\ Backup!NoRow.st = "none" /\ Backup!NoRow.key = "no"
  BY DEF BackupInv, BackupRunInv, BackupTyped, Backup!NoRow
<1>2. CASE Backup!Trigger(r) \/ Backup!Script(r)
  <2>1. pc' = [pc EXCEPT ![r] = "lock"] /\ UNCHANGED <<clock, row, bucket, prune, watch, reversed>> /\ pc[r] = "new"
    BY <1>2 DEF Backup!Trigger, Backup!Script, Backup!NextToStart, Backup!scripts
  <2>2. BackupRun("lock", row[r], bucket[r], clock) /\ "lock" \in BackupPcs
    BY <1>1, <2>1 DEF BackupRun, Backup!AtWork, BackupPcs
  <2> QED BY <2>1, <2>2, BackupMoves
<1>3. ASSUME NEW c \in Backup!Conns, Backup!TryAcquireLock(r, c) PROVE BackupInv'
  <2>1. /\ pc[r] = "lock" /\ UNCHANGED <<clock, row, bucket, prune, watch, reversed>>
        /\ pc' = [pc EXCEPT ![r] = "row"] \/ pc' = [pc EXCEPT ![r] = "done"]
    BY <1>3 DEF Backup!TryAcquireLock, Backup!scripts
  <2>2. BackupRun("row", row[r], bucket[r], clock) /\ BackupRun("done", row[r], bucket[r], clock) /\ {"row", "done"} \subseteq BackupPcs
    BY <1>1, <2>1 DEF BackupRun, Backup!AtWork, BackupPcs
  <2> QED BY <2>1, <2>2, BackupMoves
<1>4. CASE (\E c \in Backup!Conns : Backup!ReleaseLock(r, c)) \/ Backup!ScratchFails(r)
  <2>1. /\ pc[r] \in {"row", "release"} /\ UNCHANGED <<clock, row, bucket, prune, watch, reversed>>
        /\ pc' = [pc EXCEPT ![r] = "done"]
    BY <1>4 DEF Backup!ReleaseLock, Backup!ScratchFails, Backup!scripts
  <2>2. BackupRun("done", row[r], bucket[r], clock) /\ "done" \in BackupPcs
    BY <1>1, <2>1 DEF BackupRun, Backup!AtWork, BackupPcs
  <2> QED BY <2>1, <2>2, BackupMoves
<1>5. CASE Backup!UploadManifest(r)
  <2>1. /\ pc[r] = "manifest" /\ UNCHANGED <<clock, row, bucket, prune, watch, reversed>>
        /\ pc' = [pc EXCEPT ![r] = "verify"]
    BY <1>5 DEF Backup!UploadManifest, Backup!scripts
  <2>2. BackupRun("verify", row[r], bucket[r], clock) /\ "verify" \in BackupPcs
    BY <1>1, <2>1 DEF BackupRun, Backup!AtWork, BackupPcs
  <2> QED BY <2>1, <2>2, BackupMoves
<1>6. CASE Backup!VerifyRoundTrip(r)
  <2> DEFINE p == IF Backup!RoundTripOk(r) THEN "mark" ELSE "catch"
  <2>1. /\ pc[r] = "verify" /\ UNCHANGED <<clock, row, bucket, prune, watch, reversed>>
        /\ pc' = [pc EXCEPT ![r] = p]
    BY <1>6 DEF Backup!VerifyRoundTrip, Backup!scripts
  <2>2. BackupRun(p, row[r], bucket[r], clock) /\ p \in BackupPcs
    BY <1>1, <2>1 DEF BackupRun, Backup!AtWork, BackupPcs, Backup!RoundTripOk
  <2> HIDE DEF p
  <2> QED BY <2>1, <2>2, BackupMoves
<1>7. CASE Backup!StepFails(r)
  <2>1. /\ pc[r] \in {"row", "dump", "manifest", "verify", "mark"}
        /\ UNCHANGED <<clock, row, bucket, prune, watch, reversed>> /\ pc' = [pc EXCEPT ![r] = "catch"]
    BY <1>7 DEF Backup!StepFails, Backup!scripts
  <2>2. BackupRun("catch", row[r], bucket[r], clock) /\ "catch" \in BackupPcs
    BY <1>1, <2>1 DEF BackupRun, Backup!AtWork, BackupPcs
  <2> QED BY <2>1, <2>2, BackupMoves
<1>8. CASE Backup!ScriptKilled(r)
  <2>1. UNCHANGED <<clock, row, bucket, prune, watch, reversed>> /\ pc' = [pc EXCEPT ![r] = "done"]
    BY <1>8 DEF Backup!ScriptKilled, Backup!scripts
  <2>2. BackupRun("done", row[r], bucket[r], clock) /\ "done" \in BackupPcs
    BY <1>1 DEF BackupRun, Backup!AtWork, BackupPcs
  <2> QED BY <2>1, <2>2, BackupMoves
<1> QED BY <1>2, <1>3, <1>4, <1>5, <1>6, <1>7, <1>8

\* The number of runs with a row is a number.
LEMMA BackupCreatedIsNat == ASSUME BackupLimits PROVE Backup!Created \in Nat
<1>1. IsFiniteSet(Backup!Runs)
  BY FS_Interval DEF Backup!Runs, BackupLimits
<1>2. {q \in Backup!Runs : row[q].st # "none"} \subseteq Backup!Runs
  OBVIOUS
<1>3. IsFiniteSet({q \in Backup!Runs : row[q].st # "none"})
  BY <1>1, <1>2, FS_Subset
<1> QED BY <1>3, FS_CardinalityType DEF Backup!Created, Backup!Cardinality, Cardinality

\* The steps that write a row or an artifact, and the watchdog.
LEMMA BackupWritesKeep ==
  ASSUME BackupLimits, BackupInv, NEW r \in Backup!Runs,
         Backup!CreateRow(r) \/ Backup!UploadArtifact(r) \/ Backup!MarkVerified(r) \/ Backup!Catch(r) \/ Backup!WatchMark(r)
  PROVE  BackupInv'
<1>0. /\ BackupRun(pc[r], row[r], bucket[r], clock) /\ pc[r] \in BackupPcs /\ row[r] \in BackupRowOf
      /\ clock \in Nat /\ Retention \in Nat /\ bucket[r] \in {"none", "ok", "bad"} /\ row[r].at \in Nat
  BY DEF BackupInv, BackupRunInv, BackupTyped, BackupRowOf, BackupLimits
<1>1. watch \in [pc : {"idle", "mark"}, todo : SUBSET watch.todo] /\ bucket = [bucket EXCEPT ![r] = bucket[r]]
      /\ pc = [pc EXCEPT ![r] = pc[r]] /\ row = [row EXCEPT ![r] = row[r]]
      /\ DOMAIN row = Backup!Runs /\ DOMAIN pc = Backup!Runs /\ DOMAIN bucket = Backup!Runs
  BY DEF BackupInv, BackupTyped
<1>2. CASE Backup!CreateRow(r)
  <2> DEFINE w == [st |-> "RUNNING", at |-> clock, no |-> Backup!Created + 1, key |-> "no"]
  <2>1. w \in BackupRowOf /\ w.st = "RUNNING" /\ w.key = "no" /\ w.at = clock
    BY <1>0, BackupCreatedIsNat DEF BackupRowOf
  <2>2. /\ pc[r] = "row" /\ row' = [row EXCEPT ![r] = w] /\ UNCHANGED <<clock, bucket, prune, watch, reversed>>
        /\ pc' = [pc EXCEPT ![r] = "dump"] \/ pc' = [pc EXCEPT ![r] = "release"]
    BY <1>2 DEF Backup!CreateRow, Backup!scripts
  <2>3. row[r] = Backup!NoRow /\ row[r].st = "none" /\ row[r].key = "no"
    BY <1>0, <2>2 DEF BackupRun, Backup!NoRow
  <2> HIDE DEF w
  <2>4. row'[r] = w /\ pc'[r] \in {"dump", "release"}
    BY <1>1, <2>2
  <2>5. BackupRun("dump", w, bucket[r], clock) /\ BackupRun("release", w, bucket[r], clock)
    BY <1>0, <2>1 DEF BackupRun, Backup!AtWork
  <2>6. BackupOnly(r)
    BY <1>0, <1>1, <2>1, <2>2, <2>3, <2>4 DEF BackupOnly, BackupGrows, BackupPcs, Backup!AtWork
  <2>7. BackupRun(pc'[r], row'[r], bucket'[r], clock) /\ reversed \subseteq reversed'
    BY <2>2, <2>4, <2>5
  <2>8. row'[r].st # "VERIFIED" /\ row'[r].key # "yes" /\ row[r].st # "VERIFIED"
    BY <2>1, <2>3, <2>4
  <2> QED BY <2>6, <2>7, <2>8, BackupOneRun
<1>3. CASE Backup!UploadArtifact(r)
  <2>1. /\ pc[r] = "dump" /\ pc' = [pc EXCEPT ![r] = "manifest"]
        /\ UNCHANGED <<clock, row, prune, watch, reversed>>
        /\ bucket' = [bucket EXCEPT ![r] = "ok"] \/ bucket' = [bucket EXCEPT ![r] = "bad"]
    BY <1>3 DEF Backup!UploadArtifact, Backup!scripts
  <2>2. row[r].key # "yes" /\ row[r].st # "VERIFIED"
    BY <1>0, <2>1 DEF BackupRun
  <2>3. pc'[r] = "manifest" /\ row'[r] = row[r] /\ bucket'[r] \in {"ok", "bad"}
        /\ bucket' = [bucket EXCEPT ![r] = bucket'[r]]
    BY <1>1, <2>1
  <2>4. BackupRun("manifest", row[r], bucket'[r], clock)
    BY <1>0, <2>1, <2>2, <2>3 DEF BackupRun, Backup!AtWork
  <2>5. BackupOnly(r)
    BY <1>0, <1>1, <2>1, <2>3 DEF BackupOnly, BackupGrows, BackupPcs, Backup!AtWork
  <2> QED BY <2>1, <2>2, <2>3, <2>4, <2>5, BackupOneRun
<1>4. CASE Backup!MarkVerified(r) /\ row[r].st # "deleted"
  <2> DEFINE w == [row[r] EXCEPT !.st = "VERIFIED", !.key = "yes"]
  <2>1. /\ w \in BackupRowOf /\ w.st = "VERIFIED" /\ w.key = "yes" /\ w.at = row[r].at /\ w.no = row[r].no
    BY <1>0 DEF BackupRowOf
  <2>2. /\ pc[r] = "mark" /\ row' = [row EXCEPT ![r] = w] /\ UNCHANGED <<clock, bucket, prune, watch, reversed>>
        /\ pc' = [pc EXCEPT ![r] = "release"] \/ pc' = [pc EXCEPT ![r] = "catch"]
    <3>1. row' = [row EXCEPT ![r].st = "VERIFIED", ![r].key = "yes"]
      BY <1>4 DEF Backup!MarkVerified
    <3>2. row' = [row EXCEPT ![r] = [[row[r] EXCEPT !.st = "VERIFIED"] EXCEPT !.key = "yes"]]
      BY <1>1, <3>1
    <3>3. row' = [row EXCEPT ![r] = w]
      BY <1>0, <3>2 DEF BackupRowOf
    <3> QED BY <1>4, <3>3 DEF Backup!MarkVerified, Backup!scripts
  <2> HIDE DEF w
  <2>3. row'[r] = w /\ pc'[r] \in {"release", "catch"}
    BY <1>1, <2>2
  <2>4. bucket[r] = "ok" /\ row[r].st # "none" /\ clock - row[r].at <= Retention
    BY <1>0, <2>2 DEF BackupRun, Backup!AtWork
  <2>5. BackupRun("release", w, bucket[r], clock) /\ BackupRun("catch", w, bucket[r], clock)
    BY <1>0, <2>1, <2>4 DEF BackupRun
  <2>6. BackupOnly(r)
    BY <1>0, <1>1, <2>1, <2>2, <2>3 DEF BackupOnly, BackupGrows, BackupPcs, Backup!AtWork
  <2>7. \A c \in prune.todo : c.id # r
    <3>1. \A c \in prune.todo : clock - row[c.id].at > Retention
      BY DEF BackupInv, BackupPruneInv
    <3> QED BY <1>0, <2>4, <3>1
  <2> QED BY <2>1, <2>2, <2>3, <2>4, <2>5, <2>6, <2>7, BackupOneRun
<1>5. CASE Backup!MarkVerified(r) /\ row[r].st = "deleted"
  <2>1. /\ pc[r] = "mark" /\ UNCHANGED <<clock, row, bucket, prune, watch, reversed>>
        /\ pc' = [pc EXCEPT ![r] = "catch"]
    BY <1>5 DEF Backup!MarkVerified, Backup!scripts
  <2>2. BackupRun("catch", row[r], bucket[r], clock) /\ "catch" \in BackupPcs
    BY <1>0, <2>1 DEF BackupRun, Backup!AtWork, BackupPcs
  <2> QED BY <2>1, <2>2, BackupMoves
<1>6. ASSUME row[r].st # "none",
             row' = [row EXCEPT ![r].st = "FAILED"], reversed' = reversed \union Backup!Overwritten({r}),
             UNCHANGED <<clock, bucket, prune>>,
             watch' \in [pc : {"idle", "mark"}, todo : SUBSET watch.todo],
             \/ UNCHANGED pc
             \/ pc[r] = "catch" /\ pc' = [pc EXCEPT ![r] = "release"]
      PROVE  BackupInv'
  <2> DEFINE w == [row[r] EXCEPT !.st = "FAILED"]
  <2>1. w \in BackupRowOf /\ w.st = "FAILED" /\ w.key = row[r].key /\ w.at = row[r].at /\ w.no = row[r].no
    BY <1>0 DEF BackupRowOf
  <2>2. row' = [row EXCEPT ![r] = w]
    BY <1>1, <1>6
  <2> HIDE DEF w
  <2>3. row'[r] = w /\ pc'[r] \in {pc[r], "release"} /\ (pc'[r] # pc[r] => pc[r] = "catch")
    BY <1>1, <1>6, <2>2
  <2>4. pc[r] \notin {"new", "lock", "row"}
    BY <1>0, <1>6 DEF BackupRun, Backup!NoRow
  <2>5. BackupRun(pc'[r], w, bucket[r], clock)
    BY <1>0, <1>6, <2>1, <2>3, <2>4 DEF BackupRun, Backup!AtWork
  <2>6. pc' = [pc EXCEPT ![r] = pc'[r]]
    BY <1>1, <1>6
  <2>7. BackupOnly(r)
    BY <1>0, <1>1, <1>6, <2>1, <2>2, <2>3, <2>6 DEF BackupOnly, BackupGrows, BackupPcs, Backup!AtWork
  <2>8. row[r].st = "VERIFIED" => reversed' # {}
    BY <1>6 DEF Backup!Overwritten
  <2> QED BY <1>6, <2>1, <2>3, <2>5, <2>7, <2>8, BackupOneRun
<1>7. CASE Backup!Catch(r)
  <2>1. CASE UNCHANGED <<row, reversed>>
    <3>1. /\ pc[r] = "catch" /\ UNCHANGED <<clock, row, bucket, prune, watch, reversed>>
          /\ pc' = [pc EXCEPT ![r] = "release"]
      BY <1>7, <2>1 DEF Backup!Catch, Backup!scripts
    <3>2. BackupRun("release", row[r], bucket[r], clock) /\ "release" \in BackupPcs
      BY <1>0, <3>1 DEF BackupRun, Backup!AtWork, BackupPcs
    <3> QED BY <3>1, <3>2, BackupMoves
  <2>2. CASE ~UNCHANGED <<row, reversed>>
    <3>1. /\ row[r].st # "none" /\ row' = [row EXCEPT ![r].st = "FAILED"]
          /\ reversed' = reversed \union Backup!Overwritten({r})
          /\ UNCHANGED <<clock, bucket, prune>> /\ watch' = watch
          /\ pc[r] = "catch" /\ pc' = [pc EXCEPT ![r] = "release"]
      BY <1>7, <2>2 DEF Backup!Catch, Backup!scripts
    <3> QED BY <1>1, <1>6, <3>1
  <2> QED BY <2>1, <2>2
<1>8. CASE Backup!WatchMark(r)
  <2>1. row[r].st # "none" /\ UNCHANGED <<clock, bucket, prune, pc>> /\ r \in watch.todo
    BY <1>8 DEF Backup!WatchMark, BackupInv, BackupWatchInv
  <2>2. watch' \in [pc : {"idle", "mark"}, todo : SUBSET watch.todo]
    BY <1>1, <1>8 DEF Backup!WatchMark, Backup!Idle
  <2>3. CASE row[r].st = "deleted"
    <3>1. UNCHANGED <<row, reversed>>
      BY <1>8, <2>3 DEF Backup!WatchMark
    <3>2. BackupOnly(r)
      BY <1>0, <1>1, <2>1, <2>2, <3>1 DEF BackupOnly, BackupGrows
    <3> QED BY <1>0, <2>1, <3>1, <3>2, BackupOneRun
  <2>4. CASE row[r].st # "deleted"
    <3>1. row' = [row EXCEPT ![r].st = "FAILED"] /\ reversed' = reversed \union Backup!Overwritten({r})
      BY <1>8, <2>4 DEF Backup!WatchMark
    <3> QED BY <1>6, <2>1, <2>2, <3>1
  <2> QED BY <2>3, <2>4
<1> QED BY <1>2, <1>3, <1>4, <1>5, <1>7, <1>8

\* The scripts and the clock.
LEMMA BackupScriptsKeep ==
  ASSUME BackupLimits, BackupInv,
         Backup!ApiRestart \/ (\E r \in Backup!Runs : Backup!MigrationGate(r)) \/ Backup!WatchRead \/ Backup!PruneRead \/ Backup!Tick \/ UNCHANGED Backup!vars
  PROVE  BackupInv'
<1>0. /\ BackupTyped /\ BackupRunInv /\ BackupPruneInv /\ BackupWatchInv /\ BackupKept
      /\ clock \in Nat /\ Retention \in Nat /\ Stuck \in Nat
      /\ \A r \in Backup!Runs : row[r] \in BackupRowOf /\ row[r].at \in Nat /\ row[r].key \in {"no", "yes"}
  BY DEF BackupInv, BackupTyped, BackupRowOf, BackupLimits
<1>1. CASE Backup!ApiRestart
  <2>1. /\ UNCHANGED <<clock, row, bucket, prune, watch, reversed>>
        /\ pc' = [r \in Backup!Runs |-> IF proc[r] = "api" THEN "done" ELSE pc[r]]
    BY <1>1 DEF Backup!ApiRestart, Backup!scripts
  <2>2. BackupTyped'
    BY <1>0, <2>1 DEF BackupTyped, BackupPcs
  <2>3. \A r \in Backup!Runs : pc'[r] = pc[r] \/ pc'[r] = "done"
    BY <2>1
  <2>4. BackupRunInv'
    BY <1>0, <2>1, <2>3 DEF BackupRunInv, BackupRun, Backup!AtWork
  <2>5. BackupPruneInv' /\ BackupWatchInv' /\ BackupKept'
    BY <1>0, <2>1 DEF BackupPruneInv, BackupWatchInv, BackupKept, Backup!Latest, Backup!Verified
  <2> QED BY <2>2, <2>4, <2>5 DEF BackupInv
<1>2. CASE (\E r \in Backup!Runs : Backup!MigrationGate(r)) \/ UNCHANGED Backup!vars
  <2>1. UNCHANGED <<clock, pc, row, bucket, prune, watch, reversed>>
    BY <1>2 DEF Backup!MigrationGate, Backup!vars
  <2> QED BY <1>0, <2>1 DEF BackupInv, BackupTyped, BackupRunInv, BackupRun, BackupPruneInv, BackupWatchInv, BackupKept, Backup!Latest, Backup!Verified
<1>3. CASE Backup!WatchRead
  <2>1. /\ UNCHANGED <<clock, pc, row, bucket, prune, reversed>>
        /\ watch' = [pc |-> "mark", todo |-> Backup!StuckRows]
    BY <1>3 DEF Backup!WatchRead
  <2>2. BackupTyped'
    BY <1>0, <2>1 DEF BackupTyped, Backup!StuckRows
  <2>3. watch'.todo = Backup!StuckRows
    BY <2>1
  <2>4. BackupWatchInv'
    BY <2>1, <2>3 DEF BackupWatchInv, Backup!StuckRows
  <2>5. BackupRunInv' /\ BackupPruneInv' /\ BackupKept'
    BY <1>0, <2>1 DEF BackupRunInv, BackupRun, BackupPruneInv, BackupKept, Backup!Latest, Backup!Verified
  <2> QED BY <2>2, <2>4, <2>5 DEF BackupInv
<1>4. CASE Backup!PruneRead
  <2> DEFINE todo == {[id |-> r, key |-> row[r].key] : r \in Backup!RunsToPrune}
  <2>1. /\ UNCHANGED <<clock, pc, row, bucket, watch, reversed>>
        /\ prune' = [pc |-> "object", todo |-> todo]
    BY <1>4 DEF Backup!PruneRead
  <2>2. \A c \in todo : c.id \in Backup!RunsToPrune /\ c.key = row[c.id].key /\ c \in [id : Backup!Runs, key : {"no", "yes"}]
    BY <1>0 DEF Backup!RunsToPrune, Backup!Rows
  <2> HIDE DEF todo
  <2>3. prune'.todo = todo
    BY <2>1
  <2>4. BackupTyped'
    BY <1>0, <2>1, <2>2 DEF BackupTyped
  <2>5. \A r \in Backup!RunsToPrune : /\ row[r].st # "none" /\ clock - row[r].at > Retention
                                      /\ r \notin Backup!Latest(Backup!Verified)
    BY DEF Backup!RunsToPrune, Backup!Rows, Backup!Expired
  <2>6. BackupPruneInv'
    BY <2>1, <2>2, <2>3, <2>5 DEF BackupPruneInv
  <2>7. BackupKept'
    <3>1. Backup!Latest(Backup!Verified)' = Backup!Latest(Backup!Verified)
      BY <2>1 DEF Backup!Latest, Backup!Verified
    <3> QED BY <1>0, <2>1, <2>2, <2>3, <2>5, <3>1 DEF BackupKept
  <2>8. BackupRunInv' /\ BackupWatchInv'
    BY <1>0, <2>1 DEF BackupRunInv, BackupRun, BackupWatchInv
  <2> QED BY <2>4, <2>6, <2>7, <2>8 DEF BackupInv
<1>5. CASE Backup!Tick
  <2>1. /\ clock' = clock + 1 /\ UNCHANGED <<pc, row, bucket, prune, watch, reversed>>
        /\ \A r \in Backup!Runs : pc[r] \in Backup!AtWork /\ row[r].st # "none" => clock - row[r].at < Retention
    BY <1>5 DEF Backup!Tick, Backup!scripts
  <2>2. BackupTyped'
    BY <1>0, <2>1 DEF BackupTyped
  <2>3. ASSUME NEW r \in Backup!Runs PROVE BackupRun(pc[r], row[r], bucket[r], clock + 1)
    <3>1. BackupRun(pc[r], row[r], bucket[r], clock) /\ (pc[r] \in Backup!AtWork /\ row[r].st # "none" => clock - row[r].at < Retention)
      BY <1>0, <2>1 DEF BackupRunInv
    <3> QED BY <1>0, <3>1 DEF BackupRun
  <2>4. BackupRunInv'
    BY <2>1, <2>3 DEF BackupRunInv
  <2>5. BackupPruneInv' /\ BackupWatchInv'
    BY <1>0, <2>1, BackupSnapshotsKept DEF BackupGrows, BackupTyped
  <2>6. BackupKept'
    BY <1>0, <2>1 DEF BackupKept, Backup!Latest, Backup!Verified
  <2> QED BY <2>2, <2>4, <2>5, <2>6 DEF BackupInv
<1> QED BY <1>1, <1>2, <1>3, <1>4, <1>5

\* Retention deletes only artifacts of runs older than the ones kept.
LEMMA BackupPruneRunKeeps == ASSUME BackupLimits, BackupInv, NEW c \in prune.todo, Backup!PruneRun(c) PROVE BackupInv'
<1>0. /\ BackupTyped /\ BackupRunInv /\ BackupPruneInv /\ BackupWatchInv /\ BackupKept
      /\ clock \in Nat /\ Retention \in Nat /\ c.id \in Backup!Runs /\ c.key \in {"no", "yes"}
      /\ \A r \in Backup!Runs : row[r].at \in Nat
  BY DEF BackupInv, BackupTyped, BackupRowOf, BackupLimits
<1>1. /\ UNCHANGED <<clock, pc, row, watch, reversed>>
      /\ prune' = [pc |-> "row", todo |-> prune.todo] /\ prune'.todo = prune.todo
      /\ \/ UNCHANGED bucket
         \/ bucket' = [bucket EXCEPT ![c.id] = IF c.key = "yes" THEN "none" ELSE @]
  BY DEF Backup!PruneRun
<1>2. /\ bucket' \in [Backup!Runs -> {"none", "ok", "bad"}]
      /\ \A r \in Backup!Runs : bucket'[r] = bucket[r] \/ (r = c.id /\ c.key = "yes" /\ bucket'[r] = "none")
  BY <1>0, <1>1 DEF BackupTyped
<1>3. clock - row[c.id].at > Retention /\ (c.key = "yes" => row[c.id].key = "yes")
  BY <1>0 DEF BackupPruneInv
<1>4. BackupTyped'
  BY <1>0, <1>1, <1>2 DEF BackupTyped
<1>5. ASSUME NEW r \in Backup!Runs PROVE BackupRun(pc[r], row[r], bucket'[r], clock)
  <2>1. BackupRun(pc[r], row[r], bucket[r], clock)
    BY <1>0 DEF BackupRunInv
  <2>2. CASE bucket'[r] = bucket[r]
    BY <2>1, <2>2
  <2>3. CASE r = c.id /\ c.key = "yes" /\ bucket'[r] = "none"
    BY <1>0, <1>3, <2>1, <2>3 DEF BackupRun, Backup!AtWork
  <2> QED BY <1>2, <2>2, <2>3
<1>6. BackupRunInv'
  BY <1>1, <1>5 DEF BackupRunInv
<1>7. BackupPruneInv' /\ BackupWatchInv'
  BY <1>0, <1>1 DEF BackupPruneInv, BackupWatchInv
<1>8. BackupKept'
  <2>1. Backup!Latest(Backup!Verified)' = Backup!Latest(Backup!Verified) /\ \A r \in Backup!Latest(Backup!Verified) : r \in Backup!Runs
    BY <1>1 DEF Backup!Latest, Backup!Verified
  <2> QED BY <1>0, <1>1, <1>2, <2>1 DEF BackupKept
<1> QED BY <1>4, <1>6, <1>7, <1>8 DEF BackupInv

\* The row is marked PRUNED after its artifact has gone.
LEMMA BackupPruneRowKeeps == ASSUME BackupLimits, BackupInv, NEW c \in prune.todo, Backup!PruneRow(c) PROVE BackupInv'
<1>0. /\ BackupTyped /\ BackupRunInv /\ BackupPruneInv /\ BackupWatchInv /\ BackupKept
      /\ clock \in Nat /\ Retention \in Nat /\ c.id \in Backup!Runs
      /\ \A r \in Backup!Runs : row[r] \in BackupRowOf /\ row[r].at \in Nat /\ row[r].no \in Nat
  BY DEF BackupInv, BackupTyped, BackupRowOf, BackupLimits
<1>1. /\ UNCHANGED <<clock, pc, bucket, watch, reversed>>
      /\ row' = row \/ row' = [row EXCEPT ![c.id].st = "deleted"]
      /\ prune' = IF prune.todo = {c} THEN Backup!Idle
                  ELSE [pc |-> "object", todo |-> prune.todo \ {c}]
  BY DEF Backup!PruneRow
<1>2. prune'.todo \subseteq prune.todo /\ prune' \in [pc : {"idle", "object", "row"}, todo : SUBSET [id : Backup!Runs, key : {"no", "yes"}]]
  BY <1>0, <1>1 DEF Backup!Idle, BackupTyped
<1>3. row[c.id].st # "none" /\ clock - row[c.id].at > Retention
  BY <1>0 DEF BackupPruneInv
<1> DEFINE w == [row[c.id] EXCEPT !.st = "deleted"]
<1>4. w \in BackupRowOf /\ w.st = "deleted" /\ w.at = row[c.id].at /\ w.no = row[c.id].no /\ w.key = row[c.id].key
  BY <1>0 DEF BackupRowOf
<1>5. row' = row \/ row' = [row EXCEPT ![c.id] = w]
  BY <1>0, <1>1 DEF BackupTyped
<1> HIDE DEF w
<1>6. /\ row' \in [Backup!Runs -> BackupRowOf]
      /\ \A r \in Backup!Runs : row'[r] = row[r] \/ (r = c.id /\ row'[r] = w)
  BY <1>0, <1>4, <1>5 DEF BackupTyped
<1>7. BackupTyped'
  BY <1>0, <1>1, <1>2, <1>6 DEF BackupTyped
<1>8. ASSUME NEW r \in Backup!Runs PROVE BackupRun(pc[r], row'[r], bucket[r], clock)
  <2>1. BackupRun(pc[r], row[r], bucket[r], clock)
    BY <1>0 DEF BackupRunInv
  <2>2. CASE row'[r] = row[r]
    BY <2>1, <2>2
  <2>3. CASE r = c.id /\ row'[r] = w
    BY <1>0, <1>3, <1>4, <2>1, <2>3 DEF BackupRun, Backup!NoRow
  <2> QED BY <1>6, <2>2, <2>3
<1>9. BackupRunInv'
  BY <1>1, <1>8 DEF BackupRunInv
<1>10. \A r \in Backup!Runs : BackupGrows(row[r], row'[r])
  BY <1>3, <1>4, <1>6 DEF BackupGrows
<1>11. watch'.todo \subseteq watch.todo
  BY <1>1
<1>12. BackupPruneInv' /\ BackupWatchInv'
  BY <1>1, <1>2, <1>6, <1>10, <1>11, BackupSnapshotsKept
<1>13. BackupKept'
  <2> SUFFICES ASSUME reversed = {}
               PROVE  /\ (\E q \in Backup!Runs : row'[q].key = "yes") => Backup!Latest(Backup!Verified)' # {}
                      /\ \A q \in Backup!Latest(Backup!Verified)' : bucket'[q] = "ok" /\ \A d \in prune'.todo : d.id # q
    BY <1>1 DEF BackupKept
  <2>1. /\ (\E q \in Backup!Runs : row[q].key = "yes") => Backup!Latest(Backup!Verified) # {}
        /\ \A q \in Backup!Latest(Backup!Verified) : bucket[q] = "ok" /\ \A d \in prune.todo : d.id # q
    BY <1>0 DEF BackupKept
  <2>2. \A q \in Backup!Runs : row'[q].no = row[q].no /\ row'[q].key = row[q].key
    BY <1>4, <1>6
  <2>3. c.id \notin Backup!Latest(Backup!Verified)
    BY <2>1
  <2>4. Backup!Latest(Backup!Verified)' = Backup!Latest(Backup!Verified)
    <3>1. \A q \in Backup!Runs : q # c.id => row'[q] = row[q]
      BY <1>6
    <3>2. row'[c.id].st = "deleted" \/ row'[c.id] = row[c.id]
      BY <1>0, <1>4, <1>6
    <3>3. Backup!Verified' = Backup!Verified \/ Backup!Verified' = Backup!Verified \ {c.id}
      BY <3>1, <3>2 DEF Backup!Verified
    <3>4. CASE Backup!Verified' = Backup!Verified
      BY <2>2, <3>4 DEF Backup!Latest, Backup!Verified
    <3>5. CASE Backup!Verified' = Backup!Verified \ {c.id} /\ c.id \in Backup!Verified
      <4>1. row[c.id].key = "yes"
        BY <1>0, <3>5 DEF Backup!Verified, BackupRunInv, BackupRun
      <4>2. PICK l \in Backup!Latest(Backup!Verified) : TRUE
        BY <1>0, <2>1, <4>1
      <4>3. l \in Backup!Verified /\ l # c.id /\ l \in Backup!Runs /\ \A q \in Backup!Verified : row[q].no <= row[l].no
        BY <2>3 DEF Backup!Latest, Backup!Verified
      <4>4. ASSUME NEW q \in Backup!Verified \ {c.id}, \A p \in Backup!Verified \ {c.id} : row[p].no <= row[q].no
            PROVE  \A p \in Backup!Verified : row[p].no <= row[q].no
        <5>1. row[c.id].no <= row[l].no /\ row[l].no <= row[q].no /\ q \in Backup!Runs
          BY <3>5, <4>3, <4>4 DEF Backup!Verified
        <5>2. row[c.id].no <= row[q].no
          BY <1>0, <4>3, <5>1
        <5> QED BY <4>4, <5>2
      <4>5. Backup!Latest(Backup!Verified)' = {q \in Backup!Verified \ {c.id} : \A p \in Backup!Verified \ {c.id} : row[p].no <= row[q].no}
        BY <2>2, <3>5 DEF Backup!Latest, Backup!Verified
      <4>6. Backup!Latest(Backup!Verified) = {q \in Backup!Verified : \A p \in Backup!Verified : row[p].no <= row[q].no}
        BY DEF Backup!Latest
      <4> QED BY <2>3, <4>4, <4>5, <4>6
    <3> QED BY <3>3, <3>4, <3>5
  <2> QED BY <1>1, <1>2, <2>1, <2>2, <2>4 DEF Backup!Latest, Backup!Verified
<1> QED BY <1>7, <1>9, <1>12, <1>13 DEF BackupInv

\* The invariant is inductive.
LEMMA BackupStep == ASSUME BackupLimits, BackupInv, [Backup!Next]_(Backup!vars) PROVE BackupInv'
<1>1. CASE UNCHANGED Backup!vars
  BY <1>1, BackupScriptsKeep
<1>2. CASE Backup!Next
  <2>1. ASSUME NEW r \in Backup!Runs, Backup!RunStep(r) PROVE BackupInv'
    BY <1>2, <2>1, BackupMovesKeep, BackupWritesKeep DEF Backup!RunStep
  <2>2. ASSUME NEW r \in Backup!Runs, Backup!WatchMark(r) PROVE BackupInv'
    BY <2>2, BackupWritesKeep
  <2>3. ASSUME NEW c \in prune.todo, Backup!PruneRun(c) \/ Backup!PruneRow(c) PROVE BackupInv'
    BY <2>3, BackupPruneRunKeeps, BackupPruneRowKeeps
  <2>4. CASE Backup!ApiRestart \/ (\E r \in Backup!Runs : Backup!MigrationGate(r)) \/ Backup!WatchRead \/ Backup!PruneRead \/ Backup!Tick
    BY <1>2, <2>4, BackupScriptsKeep
  <2> QED BY <1>2, <2>1, <2>2, <2>3, <2>4 DEF Backup!Next
<1> QED BY <1>1, <1>2

\* Hence it holds of every behaviour.
LEMMA BackupAlwaysInv == ASSUME BackupLimits PROVE Backup!Spec => []BackupInv
BY BackupInit, BackupStep, PTL DEF Backup!Spec

-----------------------------------------------------------------------------
(* The lock.  A script at work has it on its own connection; the backups   *)
(* of the API at work are no more than some pooled connection holds it.    *)

BackupApiAtWork == {r \in Backup!Runs : pc[r] \in Backup!AtWork /\ proc[r] = "api"}

BackupLockInv ==
    /\ lock \in [Backup!Conns -> Nat]
    /\ pc \in [Backup!Runs -> BackupPcs] /\ proc \in [Backup!Runs -> {"none", "api", "cli"}]
    /\ \A r \in Backup!Runs : pc[r] \in Backup!AtWork \union {"lock"} => proc[r] # "none"
    /\ \A r \in Backup!Runs : lock[r] > 0 <=> pc[r] \in Backup!AtWork /\ proc[r] = "cli"
    /\ \A c, d \in Backup!Conns : lock[c] > 0 /\ lock[d] > 0 => c = d
    /\ BackupApiAtWork # {} => \E c \in ApiConns : lock[c] >= Cardinality(BackupApiAtWork)

\* A set of runs is finite, and has a size.
LEMMA BackupFiniteAtWork ==
  ASSUME BackupLimits, NEW S \in SUBSET Backup!Runs
  PROVE  IsFiniteSet(S) /\ Cardinality(S) \in Nat /\ (S # {} => Cardinality(S) > 0)
<1>1. IsFiniteSet(Backup!Runs)
  BY FS_Interval DEF Backup!Runs, BackupLimits
<1>2. IsFiniteSet(S)
  BY <1>1, FS_Subset
<1> QED BY <1>2, FS_CardinalityType, FS_EmptySet

\* Whoever is at work or asks for the lock stays, and so do the locks.
LEMMA BackupLocksStay ==
  ASSUME BackupLimits, BackupLockInv, lock' = lock, proc' = proc, pc' \in [Backup!Runs -> BackupPcs],
         \A r \in Backup!Runs : pc'[r] = pc[r] \/ (pc[r] \in Backup!AtWork /\ pc'[r] \in Backup!AtWork)
  PROVE  BackupLockInv'
<1>1. BackupApiAtWork' = BackupApiAtWork
  BY DEF BackupApiAtWork
<1>2. \A r \in Backup!Runs : pc'[r] \in Backup!AtWork <=> pc[r] \in Backup!AtWork
  OBVIOUS
<1>3. \A r \in Backup!Runs : pc'[r] \in Backup!AtWork \union {"lock"} => pc[r] \in Backup!AtWork \union {"lock"}
  OBVIOUS
<1> QED BY <1>1, <1>2, <1>3 DEF BackupLockInv

\* A run that starts holds no lock.
LEMMA BackupStartLocks ==
  ASSUME BackupLimits, BackupLockInv, NEW r \in Backup!Runs, Backup!Trigger(r) \/ Backup!Script(r)
  PROVE  BackupLockInv'
<1>1. /\ pc[r] = "new" /\ pc' = [pc EXCEPT ![r] = "lock"] /\ lock' = lock
      /\ proc' = [proc EXCEPT ![r] = "api"] \/ proc' = [proc EXCEPT ![r] = "cli"]
  BY DEF Backup!Trigger, Backup!Script, Backup!NextToStart
<1>2. /\ pc'[r] = "lock" /\ proc'[r] # "none" /\ pc' \in [Backup!Runs -> BackupPcs] /\ proc' \in [Backup!Runs -> {"none", "api", "cli"}]
      /\ \A q \in Backup!Runs : q # r => pc'[q] = pc[q] /\ proc'[q] = proc[q]
  BY <1>1 DEF BackupLockInv, BackupPcs
<1>3. "new" \notin Backup!AtWork /\ "lock" \notin Backup!AtWork
  BY DEF Backup!AtWork
<1>4. BackupApiAtWork' = BackupApiAtWork
  BY <1>1, <1>2, <1>3 DEF BackupApiAtWork
<1> QED BY <1>1, <1>2, <1>3, <1>4 DEF BackupLockInv

\* pg_try_advisory_lock succeeds only where no other connection holds the lock.
LEMMA BackupAcquireLocks ==
  ASSUME BackupLimits, BackupLockInv, NEW r \in Backup!Runs, NEW c \in Backup!Conns, Backup!TryAcquireLock(r, c)
  PROVE  BackupLockInv'
<1>1. pc[r] = "lock" /\ c \in Backup!ConnsOf(r) /\ proc' = proc /\ "lock" \notin Backup!AtWork /\ "done" \notin Backup!AtWork
      /\ "row" \in Backup!AtWork /\ ApiConns \intersect Backup!Runs = {}
  BY DEF Backup!TryAcquireLock, Backup!AtWork, BackupLimits
<1>2. CASE ~Backup!Granted(c)
  <2>1. pc' = [pc EXCEPT ![r] = "done"] /\ lock' = lock
    BY <1>2 DEF Backup!TryAcquireLock
  <2>2. pc'[r] = "done" /\ pc' \in [Backup!Runs -> BackupPcs] /\ \A q \in Backup!Runs : q # r => pc'[q] = pc[q]
    BY <2>1 DEF BackupLockInv, BackupPcs
  <2>3. BackupApiAtWork' = BackupApiAtWork
    BY <1>1, <2>2 DEF BackupApiAtWork
  <2> QED BY <1>1, <2>1, <2>2, <2>3 DEF BackupLockInv
<1>3. CASE Backup!Granted(c)
  <2>1. /\ lock' = [lock EXCEPT ![c] = @ + 1] /\ pc' = [pc EXCEPT ![r] = "row"]
        /\ \A d \in Backup!Conns \ {c} : lock[d] = 0
    BY <1>3 DEF Backup!TryAcquireLock, Backup!Granted
  <2>2. pc'[r] = "row" /\ pc' \in [Backup!Runs -> BackupPcs] /\ \A q \in Backup!Runs : q # r => pc'[q] = pc[q]
    BY <2>1 DEF BackupLockInv, BackupPcs, Backup!AtWork
  <2>3. /\ lock' \in [Backup!Conns -> Nat] /\ lock'[c] = lock[c] + 1 /\ lock[c] \in Nat
        /\ \A d \in Backup!Conns \ {c} : lock'[d] = 0
    BY <2>1 DEF BackupLockInv
  <2>4. CASE proc[r] = "cli"
    <3>1. c = r
      BY <1>1, <2>4 DEF Backup!ConnsOf
    <3>2. BackupApiAtWork' = BackupApiAtWork
      BY <1>1, <2>2, <2>4 DEF BackupApiAtWork
    <3>3. BackupApiAtWork = {}
      <4> SUFFICES ASSUME BackupApiAtWork # {} PROVE FALSE
        OBVIOUS
      <4>1. PICK d \in ApiConns : lock[d] >= Cardinality(BackupApiAtWork)
        BY DEF BackupLockInv
      <4>2. Cardinality(BackupApiAtWork) \in Nat /\ Cardinality(BackupApiAtWork) > 0
        BY BackupFiniteAtWork DEF BackupApiAtWork
      <4>3. d \in Backup!Conns \ {c}
        BY <1>1, <3>1 DEF Backup!Conns
      <4> QED BY <2>1, <4>1, <4>2, <4>3
    <3>4. \A q \in Backup!Runs : lock'[q] > 0 <=> pc'[q] \in Backup!AtWork /\ proc'[q] = "cli"
      <4> SUFFICES ASSUME NEW q \in Backup!Runs PROVE lock'[q] > 0 <=> pc'[q] \in Backup!AtWork /\ proc'[q] = "cli"
        OBVIOUS
      <4>1. CASE q = r
        BY <1>1, <2>2, <2>3, <2>4, <3>1, <4>1
      <4>2. CASE q # r
        <5>1. q \in Backup!Conns \ {c} /\ lock[q] = 0 /\ lock'[q] = 0
          BY <2>1, <2>3, <3>1, <4>2 DEF Backup!Conns
        <5>2. ~(pc[q] \in Backup!AtWork /\ proc[q] = "cli")
          BY <5>1 DEF BackupLockInv
        <5> QED BY <1>1, <2>2, <4>2, <5>1, <5>2
      <4> QED BY <4>1, <4>2
    <3> QED BY <1>1, <2>2, <2>3, <2>4, <3>2, <3>3, <3>4 DEF BackupLockInv
  <2>5. CASE proc[r] = "api"
    <3>1. c \in ApiConns /\ c \notin Backup!Runs
      BY <1>1, <2>5 DEF Backup!ConnsOf
    <3>2. BackupApiAtWork' = BackupApiAtWork \union {r} /\ r \notin BackupApiAtWork
      BY <1>1, <2>2, <2>5 DEF BackupApiAtWork
    <3>3. /\ IsFiniteSet(BackupApiAtWork) /\ Cardinality(BackupApiAtWork) \in Nat
          /\ BackupApiAtWork # {} => Cardinality(BackupApiAtWork) > 0
      BY BackupFiniteAtWork DEF BackupApiAtWork
    <3>4. Cardinality(BackupApiAtWork') = Cardinality(BackupApiAtWork) + 1
      BY <3>2, <3>3, FS_AddElement
    <3>5. lock[c] >= Cardinality(BackupApiAtWork)
      <4>1. CASE BackupApiAtWork = {}
        BY <2>3, <4>1, FS_EmptySet
      <4>2. CASE BackupApiAtWork # {}
        <5>1. PICK d \in ApiConns : lock[d] >= Cardinality(BackupApiAtWork)
          BY <4>2 DEF BackupLockInv
        <5>2. d = c
          BY <2>1, <3>3, <4>2, <5>1 DEF Backup!Conns
        <5> QED BY <5>1, <5>2
      <4> QED BY <4>1, <4>2
    <3>6. lock'[c] >= Cardinality(BackupApiAtWork')
      BY <2>3, <3>3, <3>4, <3>5
    <3>7. \A q \in Backup!Runs : lock'[q] = lock[q] /\ q \in Backup!Conns \ {c}
      BY <2>1, <3>1 DEF BackupLockInv, Backup!Conns
    <3>8. \A q \in Backup!Runs : lock'[q] > 0 <=> pc'[q] \in Backup!AtWork /\ proc'[q] = "cli"
      BY <1>1, <2>2, <2>5, <3>7 DEF BackupLockInv
    <3> QED BY <1>1, <2>2, <2>3, <3>1, <3>6, <3>8 DEF BackupLockInv
  <2> QED BY <1>1, <2>4, <2>5 DEF BackupLockInv
<1> QED BY <1>2, <1>3

\* A script that ends takes its lock with it; a backup of the API that ends
\* gives back one at most.
LEMMA BackupScriptEndsLocks ==
  ASSUME BackupLimits, BackupLockInv, NEW r \in Backup!Runs, proc[r] = "cli", proc' = proc,
         pc' = [pc EXCEPT ![r] = "done"], lock' = Backup!Disconnect(r)
  PROVE  BackupLockInv'
<1>1. /\ pc'[r] = "done" /\ pc' \in [Backup!Runs -> BackupPcs] /\ \A q \in Backup!Runs : q # r => pc'[q] = pc[q]
      /\ "done" \notin Backup!AtWork /\ ApiConns \intersect Backup!Runs = {}
  BY DEF BackupLockInv, BackupPcs, Backup!AtWork, BackupLimits
<1>2. /\ lock' \in [Backup!Conns -> Nat] /\ lock'[r] = 0
      /\ \A d \in Backup!Conns : d # r => lock'[d] = lock[d]
  BY DEF BackupLockInv, Backup!Disconnect, Backup!Conns
<1>3. BackupApiAtWork' = BackupApiAtWork
  BY <1>1 DEF BackupApiAtWork
<1>4. \A q \in Backup!Runs : lock'[q] > 0 <=> pc'[q] \in Backup!AtWork /\ proc'[q] = "cli"
  BY <1>1, <1>2 DEF BackupLockInv, Backup!Conns
<1>5. \A c, d \in Backup!Conns : lock'[c] > 0 /\ lock'[d] > 0 => c = d
  <2> SUFFICES ASSUME NEW c \in Backup!Conns, NEW d \in Backup!Conns, lock'[c] > 0, lock'[d] > 0 PROVE c = d
    OBVIOUS
  <2>1. c # r /\ d # r
    BY <1>2
  <2> QED BY <1>2, <2>1 DEF BackupLockInv
<1>6. \A c \in ApiConns : lock'[c] = lock[c]
  BY <1>1, <1>2 DEF Backup!Conns
<1> QED BY <1>1, <1>2, <1>3, <1>4, <1>5, <1>6 DEF BackupLockInv

\* A run of the API that ends has unlocked, or leaks through its pooled connection.
LEMMA BackupApiEndsLocks ==
  ASSUME BackupLimits, BackupLockInv, NEW r \in Backup!Runs, proc[r] = "api", pc[r] \in Backup!AtWork, proc' = proc,
         pc' = [pc EXCEPT ![r] = "done"], NEW c \in ApiConns,
         lock' = lock \/ lock' = [lock EXCEPT ![c] = Backup!Unlocked(@)]
  PROVE  BackupLockInv'
<1>1. /\ pc'[r] = "done" /\ pc' \in [Backup!Runs -> BackupPcs] /\ \A q \in Backup!Runs : q # r => pc'[q] = pc[q]
      /\ "done" \notin Backup!AtWork /\ ApiConns \intersect Backup!Runs = {}
  BY DEF BackupLockInv, BackupPcs, Backup!AtWork, BackupLimits
<1>2. /\ lock' \in [Backup!Conns -> Nat] /\ \A d \in Backup!Conns : lock[d] \in Nat
      /\ \A d \in Backup!Conns : lock'[d] = lock[d] \/ (d \in ApiConns /\ lock[d] > 0 /\ lock'[d] = lock[d] - 1)
  BY DEF BackupLockInv, Backup!Unlocked, Backup!Conns
<1>3. /\ IsFiniteSet(BackupApiAtWork) /\ Cardinality(BackupApiAtWork) \in Nat
      /\ r \in BackupApiAtWork /\ BackupApiAtWork' = BackupApiAtWork \ {r}
  BY <1>1, BackupFiniteAtWork DEF BackupApiAtWork
<1>4. Cardinality(BackupApiAtWork') = Cardinality(BackupApiAtWork) - 1
  BY <1>3, FS_RemoveElement
<1>5. \E d \in ApiConns : lock'[d] >= Cardinality(BackupApiAtWork')
  <2>1. PICK d \in ApiConns : lock[d] >= Cardinality(BackupApiAtWork)
    BY <1>3 DEF BackupLockInv
  <2>2. lock[d] \in Nat /\ lock'[d] >= lock[d] - 1
    BY <1>2 DEF Backup!Conns
  <2> QED BY <1>2, <1>3, <1>4, <2>1, <2>2 DEF Backup!Conns
<1>6. \A q \in Backup!Runs : lock'[q] = lock[q]
  BY <1>1, <1>2 DEF Backup!Conns
<1>7. \A q \in Backup!Runs : lock'[q] > 0 <=> pc'[q] \in Backup!AtWork /\ proc'[q] = "cli"
  BY <1>1, <1>6 DEF BackupLockInv
<1>8. \A b, d \in Backup!Conns : lock'[b] > 0 /\ lock'[d] > 0 => b = d
  BY <1>2 DEF BackupLockInv
<1> QED BY <1>1, <1>2, <1>5, <1>7, <1>8 DEF BackupLockInv

\* A restart of the API closes its connections and with them their locks.
LEMMA BackupRestartLocks == ASSUME BackupLimits, BackupLockInv, Backup!ApiRestart PROVE BackupLockInv'
<1>1. /\ proc' = proc /\ "done" \in BackupPcs /\ "done" \notin Backup!AtWork /\ ApiConns \intersect Backup!Runs = {}
      /\ pc' = [r \in Backup!Runs |-> IF proc[r] = "api" THEN "done" ELSE pc[r]]
      /\ lock' = [c \in Backup!Conns |-> IF c \in ApiConns THEN 0 ELSE lock[c]]
  BY DEF Backup!ApiRestart, Backup!scripts, BackupLimits, BackupPcs, Backup!AtWork
<1>2. pc' \in [Backup!Runs -> BackupPcs] /\ lock' \in [Backup!Conns -> Nat]
  BY <1>1 DEF BackupLockInv
<1>3. BackupApiAtWork' = {}
  BY <1>1 DEF BackupApiAtWork
<1>4. \A q \in Backup!Runs : /\ lock'[q] = lock[q]
                             /\ proc[q] = "api" => pc'[q] = "done"
                             /\ proc[q] # "api" => pc'[q] = pc[q]
  BY <1>1 DEF Backup!Conns
<1>5. \A d \in Backup!Conns : lock'[d] > 0 => lock[d] > 0
  BY <1>1
<1>6. \A q \in Backup!Runs : lock'[q] > 0 <=> pc'[q] \in Backup!AtWork /\ proc'[q] = "cli"
  BY <1>1, <1>4 DEF BackupLockInv
<1>7. \A q \in Backup!Runs : pc'[q] \in Backup!AtWork \union {"lock"} => proc'[q] # "none"
  BY <1>1, <1>4 DEF BackupLockInv
<1>8. \A c, d \in Backup!Conns : lock'[c] > 0 /\ lock'[d] > 0 => c = d
  BY <1>5 DEF BackupLockInv
<1> QED BY <1>1, <1>2, <1>3, <1>6, <1>7, <1>8 DEF BackupLockInv

\* The invariant of the lock is inductive.
LEMMA BackupLocksStep == ASSUME BackupLimits, BackupLockInv, [Backup!Next]_(Backup!vars) PROVE BackupLockInv'
<1>0. /\ DOMAIN pc = Backup!Runs /\ {"row", "dump", "manifest", "verify", "mark", "catch", "release"} = Backup!AtWork
      /\ Backup!AtWork \subseteq BackupPcs /\ pc \in [Backup!Runs -> BackupPcs]
  BY DEF BackupLockInv, Backup!AtWork, BackupPcs
<1>1. ASSUME lock' = lock, proc' = proc, NEW r \in Backup!Runs, pc[r] \in Backup!AtWork,
             NEW p \in Backup!AtWork, pc' = [pc EXCEPT ![r] = p]
      PROVE  BackupLockInv'
  <2>1. pc' \in [Backup!Runs -> BackupPcs] /\ \A q \in Backup!Runs : pc'[q] = pc[q] \/ (pc[q] \in Backup!AtWork /\ pc'[q] \in Backup!AtWork)
    BY <1>0, <1>1
  <2> QED BY <1>1, <2>1, BackupLocksStay
<1>2. ASSUME UNCHANGED <<lock, proc, pc>> PROVE BackupLockInv'
  BY <1>0, <1>2, BackupLocksStay
<1>3. ASSUME NEW r \in Backup!Runs, Backup!RunStep(r) PROVE BackupLockInv'
  <2>1. CASE Backup!Trigger(r) \/ Backup!Script(r)
    BY <2>1, BackupStartLocks
  <2>2. ASSUME NEW c \in Backup!Conns, Backup!TryAcquireLock(r, c) PROVE BackupLockInv'
    BY <2>2, BackupAcquireLocks
  <2>3. ASSUME NEW c \in Backup!Conns, Backup!ReleaseLock(r, c) PROVE BackupLockInv'
    <3>1. pc[r] \in Backup!AtWork /\ proc' = proc /\ pc' = [pc EXCEPT ![r] = "done"]
      BY <1>0, <2>3 DEF Backup!ReleaseLock
    <3>2. CASE proc[r] = "cli"
      BY <2>3, <3>1, <3>2, BackupScriptEndsLocks DEF Backup!ReleaseLock
    <3>3. CASE proc[r] = "api"
      <4>1. c \in ApiConns /\ lock' = [lock EXCEPT ![c] = Backup!Unlocked(@)]
        BY <2>3, <3>3 DEF Backup!ReleaseLock, Backup!ConnsOf
      <4> QED BY <3>1, <3>3, <4>1, BackupApiEndsLocks
    <3> QED BY <3>1, <3>2, <3>3 DEF BackupLockInv
  <2>4. CASE Backup!ScratchFails(r)
    <3>1. pc[r] \in Backup!AtWork /\ proc' = proc /\ pc' = [pc EXCEPT ![r] = "done"]
      BY <1>0, <2>4 DEF Backup!ScratchFails
    <3>2. CASE proc[r] = "cli"
      BY <2>4, <3>1, <3>2, BackupScriptEndsLocks DEF Backup!ScratchFails
    <3>3. CASE proc[r] = "api"
      <4>1. lock' = lock
        BY <2>4, <3>3 DEF Backup!ScratchFails
      <4>2. BackupApiAtWork # {}
        BY <3>1, <3>3 DEF BackupApiAtWork
      <4>3. PICK c \in ApiConns : TRUE
        BY <4>2 DEF BackupLockInv
      <4> QED BY <3>1, <3>3, <4>1, BackupApiEndsLocks
    <3> QED BY <3>1, <3>2, <3>3 DEF BackupLockInv
  <2>5. CASE Backup!ScriptKilled(r)
    BY <2>5, BackupScriptEndsLocks DEF Backup!ScriptKilled
  <2>6. CASE Backup!CreateRow(r) \/ Backup!UploadArtifact(r) \/ Backup!UploadManifest(r) \/ Backup!MarkVerified(r) \/ Backup!StepFails(r) \/ Backup!Catch(r)
    <3>1. /\ lock' = lock /\ proc' = proc /\ pc[r] \in Backup!AtWork
          /\ \/ pc' = [pc EXCEPT ![r] = "dump"] \/ pc' = [pc EXCEPT ![r] = "release"]
             \/ pc' = [pc EXCEPT ![r] = "manifest"] \/ pc' = [pc EXCEPT ![r] = "verify"]
             \/ pc' = [pc EXCEPT ![r] = "catch"]
      BY <1>0, <2>6 DEF Backup!CreateRow, Backup!UploadArtifact, Backup!UploadManifest, Backup!MarkVerified, Backup!StepFails, Backup!Catch
    <3> QED BY <1>0, <1>1, <3>1
  <2>7. CASE Backup!VerifyRoundTrip(r)
    <3>1. lock' = lock /\ proc' = proc /\ pc[r] \in Backup!AtWork
          /\ (pc' = [pc EXCEPT ![r] = "mark"] \/ pc' = [pc EXCEPT ![r] = "catch"])
      BY <1>0, <2>7 DEF Backup!VerifyRoundTrip
    <3> QED BY <1>0, <1>1, <3>1
  <2> QED BY <1>3, <2>1, <2>2, <2>3, <2>4, <2>5, <2>6, <2>7 DEF Backup!RunStep
<1>4. ASSUME NEW r \in Backup!Runs, Backup!MigrationGate(r) \/ Backup!WatchMark(r) PROVE BackupLockInv'
  BY <1>2, <1>4 DEF Backup!MigrationGate, Backup!WatchMark
<1>5. CASE Backup!WatchRead \/ Backup!PruneRead \/ Backup!Tick \/ UNCHANGED Backup!vars
  BY <1>2, <1>5 DEF Backup!WatchRead, Backup!PruneRead, Backup!Tick, Backup!vars
<1>6. ASSUME NEW c \in prune.todo, Backup!PruneRun(c) \/ Backup!PruneRow(c) PROVE BackupLockInv'
  BY <1>2, <1>6 DEF Backup!PruneRun, Backup!PruneRow
<1>7. CASE Backup!ApiRestart
  BY <1>7, BackupRestartLocks
<1> QED BY <1>3, <1>4, <1>5, <1>6, <1>7 DEF Backup!Next

\* No connection holds the lock at the start.
LEMMA BackupLocksInit == ASSUME BackupLimits PROVE Backup!Init => BackupLockInv
<1> SUFFICES ASSUME Backup!Init PROVE BackupLockInv
  OBVIOUS
<1>1. "new" \notin Backup!AtWork /\ "new" \in BackupPcs /\ "new" # "lock"
  BY DEF Backup!AtWork, BackupPcs
<1>2. BackupApiAtWork = {}
  BY <1>1 DEF Backup!Init, BackupApiAtWork
<1>3. \A r \in Backup!Runs : r \in Backup!Conns
  BY DEF Backup!Conns
<1> QED BY <1>1, <1>2, <1>3 DEF Backup!Init, BackupLockInv

-----------------------------------------------------------------------------
(* The ranges of the variables.                                            *)

\* The runs that have asked for the lock and had their answer.
BackupAnswered == {r \in Backup!Runs : pc[r] \notin {"new", "lock"}}

\* A connection holds the lock no more often than runs have asked for it.
BackupBounded ==
    /\ clock <= BackupHorizon /\ faults \in 0..MaxFaults
    /\ \A r \in Backup!Runs : row[r].at <= BackupHorizon /\ row[r].no <= MaxRuns
    /\ \A c \in Backup!Conns : lock[c] <= Cardinality(BackupAnswered)
    /\ gate \subseteq Backup!Runs /\ reversed \subseteq Backup!Runs

LEMMA BackupBoundsInit == ASSUME BackupLimits PROVE Backup!Init => BackupBounded
<1> SUFFICES ASSUME Backup!Init PROVE BackupBounded
  OBVIOUS
<1>1. Backup!NoRow.at = 0 /\ Backup!NoRow.no = 0
  BY DEF Backup!NoRow
<1>2. Cardinality(BackupAnswered) \in Nat
  BY BackupFiniteAtWork DEF BackupAnswered
<1>3. \A c \in Backup!Conns : lock[c] <= Cardinality(BackupAnswered)
  BY <1>2 DEF Backup!Init
<1> QED BY <1>1, <1>3 DEF Backup!Init, BackupBounded, BackupLimits

\* The clock and the faults stop at their bounds.
LEMMA BackupCountsKeep ==
  ASSUME BackupLimits, BackupBounded, BackupInv, [Backup!Next]_(Backup!vars) PROVE clock' <= BackupHorizon /\ faults' \in 0..MaxFaults
<1>1. clock' = clock \/ Backup!Tick
  BY DEF Backup!Next, Backup!RunStep, Backup!Trigger, Backup!Script, Backup!TryAcquireLock, Backup!ReleaseLock, Backup!ScratchFails, Backup!CreateRow,
         Backup!UploadArtifact, Backup!UploadManifest, Backup!VerifyRoundTrip, Backup!MarkVerified, Backup!StepFails, Backup!Catch, Backup!ScriptKilled,
         Backup!MigrationGate, Backup!WatchMark, Backup!WatchRead, Backup!PruneRead, Backup!PruneRun, Backup!PruneRow, Backup!ApiRestart, Backup!vars
<1>2. faults' = faults \/ Backup!Fault
  BY DEF Backup!Next, Backup!RunStep, Backup!Trigger, Backup!Script, Backup!TryAcquireLock, Backup!ReleaseLock, Backup!ScratchFails, Backup!CreateRow,
         Backup!UploadArtifact, Backup!UploadManifest, Backup!VerifyRoundTrip, Backup!MarkVerified, Backup!StepFails, Backup!Catch, Backup!ScriptKilled,
         Backup!MigrationGate, Backup!WatchMark, Backup!WatchRead, Backup!PruneRead, Backup!PruneRun, Backup!PruneRow, Backup!ApiRestart, Backup!Tick, Backup!vars
<1>3. clock' <= BackupHorizon
  <2>1. PICK t \in Nat : t = clock /\ t <= BackupHorizon
    BY DEF BackupInv, BackupTyped, BackupBounded
  <2>2. CASE Backup!Tick
    <3>1. clock' = t + 1 /\ t < BackupHorizon
      BY <2>1, <2>2 DEF Backup!Tick
    <3> QED BY <2>1, <3>1 DEF BackupLimits
  <2> QED BY <1>1, <2>1, <2>2
<1>4. faults' \in 0..MaxFaults
  <2>1. PICK f \in 0..MaxFaults : f = faults
    BY DEF BackupBounded
  <2>2. CASE Backup!Fault
    <3>1. faults' = f + 1 /\ f < MaxFaults
      BY <2>1, <2>2 DEF Backup!Fault
    <3> QED BY <2>1, <3>1 DEF BackupLimits
  <2> QED BY <1>2, <2>1, <2>2
<1> QED BY <1>3, <1>4

\* A row is made today and numbered after those that are there.
LEMMA BackupRowsKeep ==
  ASSUME BackupLimits, BackupBounded, BackupInv, [Backup!Next]_(Backup!vars)
  PROVE  \A q \in Backup!Runs : row'[q].at <= BackupHorizon /\ row'[q].no <= MaxRuns
<1>0. row \in [Backup!Runs -> BackupRowOf] /\ \A q \in Backup!Runs : row[q].at <= BackupHorizon /\ row[q].no <= MaxRuns
  BY DEF BackupInv, BackupTyped, BackupBounded
<1>1. ASSUME row' = row PROVE \A q \in Backup!Runs : row'[q].at <= BackupHorizon /\ row'[q].no <= MaxRuns
  BY <1>0, <1>1
<1>2. ASSUME NEW r \in Backup!Runs, NEW st, row' = [row EXCEPT ![r].st = st]
      PROVE  \A q \in Backup!Runs : row'[q].at <= BackupHorizon /\ row'[q].no <= MaxRuns
  BY <1>0, <1>2 DEF BackupRowOf
<1>3. ASSUME NEW r \in Backup!Runs, Backup!CreateRow(r) PROVE \A q \in Backup!Runs : row'[q].at <= BackupHorizon /\ row'[q].no <= MaxRuns
  <2>1. Backup!Created + 1 <= MaxRuns
    <3> DEFINE S == {q \in Backup!Runs : row[q].st # "none"}
    <3>1. row[r] = Backup!NoRow
      BY <1>3 DEF Backup!CreateRow, BackupInv, BackupRunInv, BackupRun
    <3>2. r \notin S /\ S \in SUBSET Backup!Runs
      BY <3>1 DEF Backup!NoRow
    <3>3. IsFiniteSet(S) /\ Cardinality(S) \in Nat
      BY <3>2, BackupFiniteAtWork
    <3>4. IsFiniteSet(Backup!Runs) /\ Cardinality(Backup!Runs) = MaxRuns
      BY FS_Interval DEF Backup!Runs, BackupLimits
    <3>5. Cardinality(S \union {r}) = Cardinality(S) + 1
      BY <3>2, <3>3, FS_AddElement
    <3>6. Cardinality(S \union {r}) <= Cardinality(Backup!Runs)
      <4>1. S \union {r} \in SUBSET Backup!Runs
        BY <3>2
      <4> HIDE DEF S
      <4> QED BY <3>4, <4>1, FS_Subset
    <3> HIDE DEF S
    <3>7. Backup!Created = Cardinality(S)
      BY DEF Backup!Created, S, Backup!Cardinality, Cardinality
    <3> QED BY <3>3, <3>4, <3>5, <3>6, <3>7
  <2>2. clock <= BackupHorizon
    BY DEF BackupBounded
  <2>3. row'[r] = [st |-> "RUNNING", at |-> clock, no |-> Backup!Created + 1, key |-> "no"]
    BY <1>0, <1>3 DEF Backup!CreateRow
  <2>4. \A q \in Backup!Runs : q # r => row'[q] = row[q]
    BY <1>0, <1>3 DEF Backup!CreateRow
  <2>5. row'[r].at = clock /\ row'[r].no = Backup!Created + 1
    BY <2>3
  <2> QED BY <1>0, <2>1, <2>2, <2>4, <2>5
<1>4. ASSUME NEW r \in Backup!Runs, Backup!MarkVerified(r) PROVE \A q \in Backup!Runs : row'[q].at <= BackupHorizon /\ row'[q].no <= MaxRuns
  <2>1. row' = row \/ row' = [row EXCEPT ![r].st = "VERIFIED", ![r].key = "yes"]
    BY <1>4 DEF Backup!MarkVerified
  <2> QED BY <1>0, <2>1 DEF BackupRowOf
<1>5. ASSUME NEW r \in Backup!Runs, Backup!Catch(r) \/ Backup!WatchMark(r)
      PROVE  \A q \in Backup!Runs : row'[q].at <= BackupHorizon /\ row'[q].no <= MaxRuns
  BY <1>1, <1>2, <1>5 DEF Backup!Catch, Backup!WatchMark
<1>6. ASSUME NEW c \in prune.todo, Backup!PruneRow(c) PROVE \A q \in Backup!Runs : row'[q].at <= BackupHorizon /\ row'[q].no <= MaxRuns
  <2>1. c.id \in Backup!Runs
    BY DEF BackupInv, BackupTyped
  <2> QED BY <1>1, <1>2, <1>6, <2>1 DEF Backup!PruneRow
<1>7. \/ row' = row
      \/ \E r \in Backup!Runs : Backup!CreateRow(r) \/ Backup!MarkVerified(r) \/ Backup!Catch(r) \/ Backup!WatchMark(r)
      \/ \E c \in prune.todo : Backup!PruneRow(c)
  BY DEF Backup!Next, Backup!RunStep, Backup!Trigger, Backup!Script, Backup!TryAcquireLock, Backup!ReleaseLock, Backup!ScratchFails,
         Backup!UploadArtifact, Backup!UploadManifest, Backup!VerifyRoundTrip, Backup!StepFails, Backup!ScriptKilled,
         Backup!MigrationGate, Backup!WatchRead, Backup!PruneRead, Backup!PruneRun, Backup!ApiRestart, Backup!Tick, Backup!vars
<1> QED BY <1>1, <1>3, <1>4, <1>5, <1>6, <1>7

\* Each time a connection takes the lock once more, one more run has had its answer.
LEMMA BackupLocksBounded ==
  ASSUME BackupLimits, BackupBounded, BackupLockInv, [Backup!Next]_(Backup!vars)
  PROVE  \A c \in Backup!Conns : lock'[c] <= Cardinality(BackupAnswered')
<1>0. /\ lock \in [Backup!Conns -> Nat] /\ pc \in [Backup!Runs -> BackupPcs]
      /\ \A c \in Backup!Conns : lock[c] <= Cardinality(BackupAnswered)
      /\ \A r \in Backup!Runs : r \in Backup!Conns
  BY DEF BackupLockInv, BackupBounded, Backup!Conns
<1>1. BackupAnswered \subseteq BackupAnswered' /\ BackupAnswered' \in SUBSET Backup!Runs
  <2>1. \A q \in Backup!Runs : pc[q] \notin {"new", "lock"} => pc'[q] \notin {"new", "lock"}
    <3>1. ASSUME NEW r \in Backup!Runs, NEW p, pc' = [pc EXCEPT ![r] = p], p \notin {"new", "lock"}
          PROVE  \A q \in Backup!Runs : pc[q] \notin {"new", "lock"} => pc'[q] \notin {"new", "lock"}
      BY <1>0, <3>1
    <3>2. ASSUME pc' = pc PROVE \A q \in Backup!Runs : pc[q] \notin {"new", "lock"} => pc'[q] \notin {"new", "lock"}
      BY <3>2
    <3>3. ASSUME NEW r \in Backup!Runs, Backup!Trigger(r) \/ Backup!Script(r)
          PROVE  \A q \in Backup!Runs : pc[q] \notin {"new", "lock"} => pc'[q] \notin {"new", "lock"}
      BY <1>0, <3>3 DEF Backup!Trigger, Backup!Script, Backup!NextToStart
    <3>4. CASE Backup!ApiRestart
      BY <1>0, <3>4 DEF Backup!ApiRestart
    <3>5. ASSUME NEW r \in Backup!Runs, Backup!RunStep(r)
          PROVE  \A q \in Backup!Runs : pc[q] \notin {"new", "lock"} => pc'[q] \notin {"new", "lock"}
      <4>1. \/ Backup!Trigger(r) \/ Backup!Script(r)
            \/ \E p \in {"row", "done", "dump", "release", "manifest", "verify", "mark", "catch"} :
                  pc' = [pc EXCEPT ![r] = p]
        BY <3>5 DEF Backup!RunStep, Backup!TryAcquireLock, Backup!ReleaseLock, Backup!ScratchFails, Backup!CreateRow, Backup!UploadArtifact,
              Backup!UploadManifest, Backup!VerifyRoundTrip, Backup!MarkVerified, Backup!StepFails, Backup!Catch, Backup!ScriptKilled
      <4> QED BY <3>1, <3>3, <4>1
    <3>6. pc' = pc \/ Backup!ApiRestart \/ \E r \in Backup!Runs : Backup!RunStep(r)
      BY DEF Backup!Next, Backup!MigrationGate, Backup!WatchMark, Backup!WatchRead, Backup!PruneRead, Backup!PruneRun, Backup!PruneRow, Backup!Tick, Backup!vars
    <3> QED BY <3>2, <3>4, <3>5, <3>6
  <2> QED BY <2>1 DEF BackupAnswered
<1>2. /\ IsFiniteSet(BackupAnswered') /\ Cardinality(BackupAnswered) \in Nat /\ Cardinality(BackupAnswered') \in Nat
      /\ Cardinality(BackupAnswered) <= Cardinality(BackupAnswered')
  <2>1. BackupAnswered \in SUBSET Backup!Runs
    BY DEF BackupAnswered
  <2>2. IsFiniteSet(BackupAnswered') /\ Cardinality(BackupAnswered') \in Nat /\ Cardinality(BackupAnswered) \in Nat
    BY <1>1, <2>1, BackupFiniteAtWork
  <2> QED BY <1>1, <2>2, FS_Subset
<1>3. ASSUME NEW r \in Backup!Runs, NEW c \in Backup!Conns, Backup!TryAcquireLock(r, c), lock' # lock
      PROVE  \A d \in Backup!Conns : lock'[d] <= Cardinality(BackupAnswered')
  <2>1. lock' = [lock EXCEPT ![c] = @ + 1] /\ pc[r] = "lock" /\ pc' = [pc EXCEPT ![r] = "row"]
    BY <1>3 DEF Backup!TryAcquireLock
  <2>2. r \notin BackupAnswered /\ r \in BackupAnswered' /\ BackupAnswered \in SUBSET Backup!Runs
    BY <1>0, <2>1 DEF BackupAnswered
  <2>3. IsFiniteSet(BackupAnswered)
    BY <2>2, BackupFiniteAtWork
  <2>4. Cardinality(BackupAnswered \union {r}) = Cardinality(BackupAnswered) + 1
    BY <2>2, <2>3, FS_AddElement
  <2>5. Cardinality(BackupAnswered \union {r}) <= Cardinality(BackupAnswered')
    <3>1. BackupAnswered \union {r} \subseteq BackupAnswered'
      BY <1>1, <2>2
    <3> QED BY <1>2, <3>1, FS_Subset
  <2>6. \A d \in Backup!Conns : lock'[d] = IF d = c THEN lock[d] + 1 ELSE lock[d]
    BY <1>0, <2>1
  <2> QED BY <1>0, <1>2, <2>4, <2>5, <2>6
<1>4. ASSUME \A d \in Backup!Conns : lock'[d] = lock[d] \/ lock'[d] = 0 \/ (lock[d] > 0 /\ lock'[d] = lock[d] - 1)
      PROVE  \A d \in Backup!Conns : lock'[d] <= Cardinality(BackupAnswered')
  BY <1>0, <1>2, <1>4
<1>5. ASSUME NEW r \in Backup!Runs, lock' = lock \/ lock' = Backup!Disconnect(r)
      PROVE  \A d \in Backup!Conns : lock'[d] <= Cardinality(BackupAnswered')
  BY <1>0, <1>4, <1>5 DEF Backup!Disconnect
<1>6. ASSUME NEW r \in Backup!Runs, NEW c \in Backup!Conns, Backup!ReleaseLock(r, c)
      PROVE  \A d \in Backup!Conns : lock'[d] <= Cardinality(BackupAnswered')
  <2>1. lock' = Backup!Disconnect(r) \/ lock' = [lock EXCEPT ![c] = Backup!Unlocked(@)]
    BY <1>6 DEF Backup!ReleaseLock
  <2>2. CASE lock' = [lock EXCEPT ![c] = Backup!Unlocked(@)]
    <3>1. \A d \in Backup!Conns : lock'[d] = IF d = c THEN Backup!Unlocked(lock[d]) ELSE lock[d]
      BY <1>0, <2>2
    <3> QED BY <1>0, <1>4, <3>1 DEF Backup!Unlocked
  <2> QED BY <1>5, <2>1, <2>2
<1>7. CASE Backup!ApiRestart
  BY <1>0, <1>4, <1>7 DEF Backup!ApiRestart
<1>8. ASSUME lock' = lock PROVE \A d \in Backup!Conns : lock'[d] <= Cardinality(BackupAnswered')
  BY <1>4, <1>8
<1>9. \/ lock' = lock \/ Backup!ApiRestart
      \/ \E r \in Backup!Runs : lock' = Backup!Disconnect(r) \/ \E c \in Backup!Conns : Backup!TryAcquireLock(r, c) \/ Backup!ReleaseLock(r, c)
  BY DEF Backup!Next, Backup!RunStep, Backup!Trigger, Backup!Script, Backup!ScratchFails, Backup!CreateRow,
         Backup!UploadArtifact, Backup!UploadManifest, Backup!VerifyRoundTrip, Backup!MarkVerified, Backup!StepFails, Backup!Catch, Backup!ScriptKilled,
         Backup!MigrationGate, Backup!WatchMark, Backup!WatchRead, Backup!PruneRead, Backup!PruneRun, Backup!PruneRow, Backup!Tick, Backup!vars
<1> QED BY <1>3, <1>5, <1>6, <1>7, <1>8, <1>9

\* The bounds are inductive, beside the two invariants.
LEMMA BackupBoundsStep == ASSUME BackupLimits, BackupBounded, BackupInv, BackupLockInv, [Backup!Next]_(Backup!vars) PROVE BackupBounded'
<1>1. gate' \subseteq Backup!Runs /\ reversed' \subseteq Backup!Runs
  <2>1. gate' = gate \/ \E r \in Backup!Runs : gate' = gate \union {r}
    BY DEF Backup!Next, Backup!RunStep, Backup!Trigger, Backup!Script, Backup!TryAcquireLock, Backup!ReleaseLock, Backup!ScratchFails, Backup!CreateRow,
           Backup!UploadArtifact, Backup!UploadManifest, Backup!VerifyRoundTrip, Backup!MarkVerified, Backup!StepFails, Backup!Catch, Backup!ScriptKilled,
           Backup!MigrationGate, Backup!WatchMark, Backup!WatchRead, Backup!PruneRead, Backup!PruneRun, Backup!PruneRow, Backup!ApiRestart, Backup!Tick, Backup!scripts, Backup!vars
  <2>2. reversed' = reversed \/ \E r \in Backup!Runs : reversed' = reversed \union Backup!Overwritten({r})
    BY DEF Backup!Next, Backup!RunStep, Backup!Trigger, Backup!Script, Backup!TryAcquireLock, Backup!ReleaseLock, Backup!ScratchFails, Backup!CreateRow,
           Backup!UploadArtifact, Backup!UploadManifest, Backup!VerifyRoundTrip, Backup!MarkVerified, Backup!StepFails, Backup!Catch, Backup!ScriptKilled,
           Backup!MigrationGate, Backup!WatchMark, Backup!WatchRead, Backup!PruneRead, Backup!PruneRun, Backup!PruneRow, Backup!ApiRestart, Backup!Tick, Backup!vars
  <2>3. \A r \in Backup!Runs : Backup!Overwritten({r}) \subseteq Backup!Runs
    BY DEF Backup!Overwritten
  <2> QED BY <2>1, <2>2, <2>3 DEF BackupBounded
<1>2. \A c \in Backup!Conns' : lock'[c] <= Cardinality(BackupAnswered')
  BY BackupLocksBounded DEF Backup!Conns
<1> QED BY <1>1, <1>2, BackupCountsKeep, BackupRowsKeep DEF BackupBounded

\* The three inductions give the ranges of all variables.
LEMMA BackupTypesFollow == ASSUME BackupLimits PROVE BackupInv /\ BackupLockInv /\ BackupBounded => Backup!TypeOK
<1> SUFFICES ASSUME BackupInv, BackupLockInv, BackupBounded PROVE Backup!TypeOK
  OBVIOUS
<1>1. clock \in 0..BackupHorizon
  <2>1. PICK t \in Nat : t = clock /\ t <= BackupHorizon
    BY DEF BackupInv, BackupTyped, BackupBounded
  <2> QED BY <2>1 DEF BackupLimits
<1>2. row \in [Backup!Runs -> [st : {"none", "RUNNING", "VERIFIED", "FAILED", "deleted"},
                        at : 0..BackupHorizon, no : 0..MaxRuns, key : {"no", "yes"}]]
  <2>1. row \in [Backup!Runs -> BackupRowOf]
    BY DEF BackupInv, BackupTyped
  <2>2. \A r \in Backup!Runs : row[r].at \in 0..BackupHorizon /\ row[r].no \in 0..MaxRuns
    <3> SUFFICES ASSUME NEW r \in Backup!Runs PROVE row[r].at \in 0..BackupHorizon /\ row[r].no \in 0..MaxRuns
      OBVIOUS
    <3>1. PICK a \in Nat, n \in Nat : a = row[r].at /\ n = row[r].no /\ a <= BackupHorizon /\ n <= MaxRuns
      BY <2>1 DEF BackupRowOf, BackupBounded
    <3> QED BY <3>1 DEF BackupLimits
  <2> QED BY <2>1, <2>2 DEF BackupRowOf
<1>3. lock \in [Backup!Conns -> 0..MaxRuns]
  <2>1. lock \in [Backup!Conns -> Nat] /\ \A c \in Backup!Conns : lock[c] <= Cardinality(BackupAnswered)
    BY DEF BackupLockInv, BackupBounded
  <2>2. BackupAnswered \subseteq Backup!Runs
    BY DEF BackupAnswered
  <2>3. IsFiniteSet(Backup!Runs) /\ Cardinality(Backup!Runs) = MaxRuns
    BY FS_Interval DEF Backup!Runs, BackupLimits
  <2>4. Cardinality(BackupAnswered) \in Nat /\ Cardinality(BackupAnswered) <= MaxRuns
    BY <2>2, <2>3, FS_Subset, BackupFiniteAtWork
  <2>5. \A c \in Backup!Conns : lock[c] \in 0..MaxRuns
    BY <2>1, <2>4 DEF BackupLimits
  <2> QED BY <2>1, <2>5
<1>4. /\ pc \in [Backup!Runs -> Backup!AtWork \union {"new", "lock", "done"}] /\ proc \in [Backup!Runs -> {"none", "api", "cli"}]
      /\ bucket \in [Backup!Runs -> {"none", "ok", "bad"}]
      /\ prune.pc \in {"idle", "object", "row"} /\ watch.pc \in {"idle", "mark"}
      /\ gate \subseteq Backup!Runs /\ reversed \subseteq Backup!Runs /\ faults \in 0..MaxFaults
  BY DEF BackupInv, BackupTyped, BackupPcs, BackupLockInv, BackupBounded
<1> QED BY <1>1, <1>2, <1>3, <1>4 DEF Backup!TypeOK

\* Every variable of the backups keeps its type: a connection never holds the lock more
\* often than there are runs (tryAcquireLock, releaseLock).
LEMMA BackupTypes == ASSUME BackupLimits PROVE Backup!Spec => []Backup!TypeOK
<1>1. Backup!Spec => []BackupInv
  BY BackupAlwaysInv
<1> QED BY <1>1, BackupLocksInit, BackupLocksStep, BackupBoundsInit, BackupBoundsStep, BackupTypesFollow, PTL DEF Backup!Spec

-----------------------------------------------------------------------------
\* The two inductions give what the backups promise at all times (runBackup,
\* prune-backups.ts): a VERIFIED run is stored, the last one outlives every
\* retention snapshot, one process dumps at once, only the API leaks a lock.
LEMMA BackupsAreSafe == ASSUME BackupLimits PROVE Backup!Spec => []Backup!BackupsSafe
<1>1. ASSUME BackupInv PROVE Backup!VerifiedIsStored
  BY <1>1 DEF BackupInv, BackupRunInv, BackupRun, Backup!VerifiedIsStored, Backup!Verified, Backup!Expired
<1>2. ASSUME BackupInv PROVE Backup!LastBackupKept
  <2> SUFFICES ASSUME \E r \in Backup!Runs : row[r].key = "yes", reversed = {}
               PROVE  \E r \in Backup!Verified : bucket[r] = "ok"
    BY DEF Backup!LastBackupKept
  <2>1. PICK r \in Backup!Latest(Backup!Verified) : bucket[r] = "ok"
    BY <1>2 DEF BackupInv, BackupKept
  <2> QED BY <2>1 DEF Backup!Latest
<1>3. ASSUME BackupLockInv PROVE Backup!OnlyApiLeaksLock
  BY <1>3 DEF BackupLockInv, Backup!OnlyApiLeaksLock
<1>4. ASSUME BackupLockInv PROVE Backup!OneProcessDumps
  <2> SUFFICES ASSUME NEW r \in Backup!Runs, NEW q \in Backup!Runs, r # q, pc[r] \in Backup!AtWork, pc[q] \in Backup!AtWork
               PROVE  proc[r] = "api"
    BY DEF Backup!OneProcessDumps
  <2>0. r \in Backup!Conns /\ q \in Backup!Conns /\ ApiConns \subseteq Backup!Conns /\ r \notin ApiConns
    BY DEF Backup!Conns, BackupLimits
  <2>1. SUFFICES ASSUME proc[r] = "cli" PROVE FALSE
    BY <1>4 DEF BackupLockInv
  <2>2. lock[r] > 0
    BY <1>4, <2>1 DEF BackupLockInv
  <2>3. CASE proc[q] = "cli"
    <3>1. lock[q] > 0
      BY <1>4, <2>3 DEF BackupLockInv
    <3> QED BY <1>4, <2>0, <2>2, <3>1 DEF BackupLockInv
  <2>4. CASE proc[q] = "api"
    <3>1. BackupApiAtWork # {} /\ BackupApiAtWork \in SUBSET Backup!Runs
      BY <2>4 DEF BackupApiAtWork
    <3>2. PICK c \in ApiConns : lock[c] >= Cardinality(BackupApiAtWork)
      BY <1>4, <3>1 DEF BackupLockInv
    <3>3. lock[c] > 0
      <4>1. Cardinality(BackupApiAtWork) \in Nat /\ Cardinality(BackupApiAtWork) > 0
        BY <3>1, BackupFiniteAtWork
      <4>2. lock[c] \in Nat
        BY <1>4, <2>0 DEF BackupLockInv
      <4> QED BY <3>2, <4>1, <4>2
    <3> QED BY <1>4, <2>0, <2>2, <3>3 DEF BackupLockInv
  <2> QED BY <1>4, <2>3, <2>4 DEF BackupLockInv
<1>5. BackupInv /\ BackupLockInv => Backup!BackupsSafe
  BY <1>1, <1>2, <1>3, <1>4 DEF Backup!BackupsSafe
<1>6. Backup!Spec => []BackupInv
  BY BackupAlwaysInv
<1> QED BY BackupLocksInit, BackupLocksStep, <1>5, <1>6, PTL DEF Backup!Spec

\* A migration passes the gate on a stored and recent backup only, and only a
\* lost reply or a snapshot of a run past its limit overwrites a verdict
\* (evaluateMigrationGate, mark-stuck-running.ts).
LEMMA BackupStepsAreSafe == ASSUME BackupLimits PROVE Backup!Spec => Backup!BackupStepsSafe
<1>1. ASSUME BackupInv, [Backup!Next]_(Backup!vars) PROVE Backup!SafeStep
  <2>0. /\ Retention \in Nat /\ BackupFresh \in Nat /\ BackupFresh <= Retention /\ clock \in Nat
        /\ \A r \in Backup!Runs : row[r].at \in Nat
    BY <1>1 DEF BackupInv, BackupTyped, BackupRowOf, BackupLimits
  <2>1. Backup!MigrationHasBackup
    <3> SUFFICES ASSUME NEW r \in gate' \ gate PROVE bucket[r] = "ok" /\ clock - row[r].at <= BackupFresh
      BY DEF Backup!MigrationHasBackup
    <3>1. PICK q \in Backup!Runs : Backup!MigrationGate(q)
      BY <1>1 DEF Backup!Next, Backup!RunStep, Backup!Trigger, Backup!Script, Backup!TryAcquireLock, Backup!ReleaseLock, Backup!ScratchFails, Backup!CreateRow,
            Backup!UploadArtifact, Backup!UploadManifest, Backup!VerifyRoundTrip, Backup!MarkVerified, Backup!StepFails, Backup!Catch, Backup!ScriptKilled,
            Backup!WatchMark, Backup!WatchRead, Backup!PruneRead, Backup!PruneRun, Backup!PruneRow, Backup!ApiRestart, Backup!Tick, Backup!scripts, Backup!vars
    <3>2. r = q /\ r \in Backup!Verified /\ r \in Backup!Runs /\ clock - row[r].at <= BackupFresh
      BY <3>1 DEF Backup!MigrationGate, Backup!GateOpens, Backup!Latest
    <3>3. BackupRun(pc[r], row[r], bucket[r], clock) /\ row[r].st = "VERIFIED"
      BY <1>1, <3>2 DEF BackupInv, BackupRunInv, Backup!Verified
    <3> QED BY <2>0, <3>2, <3>3 DEF BackupRun
  <2>2. Backup!TimelyVerdictStands
    <3> SUFFICES ASSUME NEW r \in reversed' \ reversed PROVE pc[r] = "catch" \/ clock - row[r].at > Stuck
      BY DEF Backup!TimelyVerdictStands
    <3>1. PICK q \in Backup!Runs : Backup!Catch(q) \/ Backup!WatchMark(q)
      BY <1>1 DEF Backup!Next, Backup!RunStep, Backup!Trigger, Backup!Script, Backup!TryAcquireLock, Backup!ReleaseLock, Backup!ScratchFails, Backup!CreateRow,
            Backup!UploadArtifact, Backup!UploadManifest, Backup!VerifyRoundTrip, Backup!MarkVerified, Backup!StepFails, Backup!ScriptKilled,
            Backup!MigrationGate, Backup!WatchRead, Backup!PruneRead, Backup!PruneRun, Backup!PruneRow, Backup!ApiRestart, Backup!Tick, Backup!scripts, Backup!vars
    <3>2. r = q
      BY <3>1 DEF Backup!Catch, Backup!WatchMark, Backup!Overwritten
    <3> QED BY <1>1, <3>1, <3>2 DEF Backup!Catch, Backup!WatchMark, BackupInv, BackupWatchInv
  <2> QED BY <2>1, <2>2 DEF Backup!SafeStep
<1> QED BY <1>1, BackupAlwaysInv, PTL DEF Backup!Spec, Backup!BackupStepsSafe

-----------------------------------------------------------------------------
(* The upload session.                                                     *)

Upload == INSTANCE UploadSession

SessionRow == [status : {"none", "failed", "OPEN", "FINALIZED", "ABORTED"}, total : Nat,
        parts : SUBSET Nat, life : {"fresh", "expired"}]
StoredFile == [state : {"none", "open", "done", "cancelled"}, parts : SUBSET Nat]
UploadReq == [pc : {"idle", "put", "read", "write", "finish", "commit", "drop", "mark", "done"},
        part : Nat, seen : SUBSET Nat]

UploadTyped ==
    /\ row \in SessionRow /\ b2 \in StoredFile
    /\ file \in {0, 1} /\ folder \in {"there", "gone"}
    /\ req \in [Upload!Requests -> UploadReq]
    /\ faults \in Nat

\* What a request q knows of the store b while it is under way, in an upload of
\* n parts with f faults so far.
UploadWorking(q, n, b, f) ==
    /\ q.seen \subseteq 1..n
    /\ q.pc \in {"put", "read", "write"} => q.part \in 1..n
    /\ q.pc \in {"read", "write"} /\ b.state # "cancelled" => q.part \in b.parts
    /\ q.pc = "write" /\ b.state # "cancelled" => q.seen \subseteq b.parts
    /\ q.pc = "finish" => q.seen = 1..n
    /\ q.pc = "commit" => b.state = "done" /\ b.parts = 1..n
    /\ q.pc = "mark" => b.state # "open" \/ f > 0
    /\ q.pc # "idle" => n # 0

UploadReqInv == \A r \in Upload!Requests : UploadWorking(req[r], row.total, b2, faults)

\* What row and store say of each other.  The properties themselves are among
\* it: FileComplete rests on RecordedIsStored in a single-shot upload.
UploadStoreInv ==
    /\ row.parts \subseteq Upload!Parts /\ b2.parts \subseteq Upload!Parts
    /\ b2.state = "none" => b2.parts = {}
    /\ ~Upload!Large => b2.state \in {"none", "done"}
    /\ row.total = 0 => row.status = "none" /\ b2.state = "none"
    /\ row.status \in {"failed", "ABORTED"} /\ b2.state = "open" => faults > 0
    /\ Upload!FileComplete /\ Upload!RecordedIsStored /\ Upload!FinalizedHasFile

\* A large file that is finished has its file, or a request that will make it.
UploadOwned ==
    Upload!Large /\ b2.state = "done" /\ file = 0 /\ faults = 0 /\ folder = "there"
        => \E r \in Upload!Requests : req[r].pc = "commit"

UploadInv == UploadTyped /\ UploadReqInv /\ UploadStoreInv /\ UploadOwned

\* How a step of the store looks to the requests: parts stay until it is
\* cancelled, what is done stays done, what is not open is not opened.
UploadFollows(b, c) ==
    /\ c.state = "cancelled" \/ (b.state # "cancelled" /\ b.parts \subseteq c.parts)
    /\ b.state = "done" => c.state = "done"
    /\ c.state = "open" => b.state = "open"

\* The invariant gives the property the run checks.
LEMMA UploadInvSound == UploadInv => Upload!UploadsSound
<1> SUFFICES ASSUME UploadInv PROVE Upload!UploadsSound
  OBVIOUS
<1>1. ASSUME row.status \notin {"none", "OPEN"}, b2.state = "open" PROVE faults > 0
  BY <1>1 DEF UploadInv, UploadTyped, SessionRow, UploadStoreInv, Upload!FinalizedHasFile, Upload!FileComplete
<1>2. ASSUME Upload!Quiet, Upload!Large, b2.state = "done", file = 0 PROVE faults > 0 \/ folder = "gone"
  BY <1>2 DEF UploadInv, UploadTyped, UploadOwned, Upload!Quiet
<1>3. Upload!NothingLeaks
  BY <1>1, <1>2 DEF Upload!NothingLeaks
<1> QED BY <1>3 DEF UploadInv, UploadStoreInv, Upload!UploadsSound

\* Before the session is created the invariant holds.
LEMMA UploadInit == Upload!Init => UploadInv
<1> SUFFICES ASSUME Upload!Init PROVE UploadInv
  OBVIOUS
<1>1. Upload!Idle \in UploadReq /\ UploadWorking(Upload!Idle, 0, b2, 0)
  BY DEF Upload!Idle, UploadReq, UploadWorking
<1>2. UploadTyped /\ UploadReqInv
  BY <1>1 DEF Upload!Init, UploadTyped, SessionRow, StoredFile, UploadReqInv
<1>3. UploadStoreInv /\ UploadOwned
  BY DEF Upload!Init, UploadStoreInv, UploadOwned, Upload!Parts, Upload!Large, Upload!FileComplete, Upload!RecordedIsStored, Upload!FinalizedHasFile
<1> QED BY <1>2, <1>3 DEF UploadInv

-----------------------------------------------------------------------------
(* Steps of one request leave the others as they are.                      *)

LEMMA UploadWorkingKept ==
  ASSUME NEW q, NEW n \in Nat, NEW b, NEW c, NEW f \in Nat, NEW g \in {f, f + 1},
         UploadWorking(q, n, b, f), UploadFollows(b, c), c.parts \subseteq 1..n
  PROVE  UploadWorking(q, n, c, g)
<1>1. c.state # "cancelled" => b.state # "cancelled" /\ b.parts \subseteq c.parts
  BY DEF UploadFollows
<1>2. /\ q.pc \in {"read", "write"} /\ c.state # "cancelled" => q.part \in c.parts
      /\ q.pc = "write" /\ c.state # "cancelled" => q.seen \subseteq c.parts
  BY <1>1 DEF UploadWorking
<1>3. q.pc = "commit" => c.state = "done" /\ c.parts = 1..n
  <2> SUFFICES ASSUME q.pc = "commit" PROVE c.state = "done" /\ c.parts = 1..n
    OBVIOUS
  <2>1. c.state = "done" /\ b.parts = 1..n
    BY DEF UploadWorking, UploadFollows
  <2>2. 1..n \subseteq c.parts
    BY <1>1, <2>1
  <2> QED BY <2>1, <2>2
<1>4. q.pc = "mark" => c.state # "open" \/ g > 0
  BY DEF UploadWorking, UploadFollows
<1> QED BY <1>2, <1>3, <1>4 DEF UploadWorking

\* A bucket left alone has not lost anything.
LEMMA UploadSame == \A b : UploadFollows(b, b)
BY DEF UploadFollows

\* A request that moves on agrees with the bucket it has written to.
LEMMA UploadRequestMoves ==
  ASSUME UploadInv, NEW r \in Upload!Requests, NEW new \in UploadReq, req' = [req EXCEPT ![r] = new],
         row'.total = row.total, b2' \in StoredFile, UploadFollows(b2, b2'), b2'.parts \subseteq Upload!Parts,
         faults' \in {faults, faults + 1}, UploadWorking(new, row.total, b2', faults')
  PROVE  req' \in [Upload!Requests -> UploadReq] /\ UploadReqInv' /\ faults' \in Nat
<1>1. req' \in [Upload!Requests -> UploadReq] /\ \A q \in Upload!Requests : req'[q] = IF q = r THEN new ELSE req[q]
  BY DEF UploadInv, UploadTyped
<1>2. row.total \in Nat /\ faults \in Nat
  BY DEF UploadInv, UploadTyped, SessionRow
<1>3. \A q \in Upload!Requests : UploadWorking(req[q], row.total, b2', faults')
  BY <1>2, UploadWorkingKept DEF UploadInv, UploadReqInv, Upload!Parts
<1> QED BY <1>1, <1>2, <1>3 DEF UploadReqInv

\* What Goto makes of a request.
LEMMA UploadGoing ==
  ASSUME UploadTyped, NEW r \in Upload!Requests,
         NEW place \in {"idle", "put", "read", "write", "finish", "commit", "drop", "mark", "done"}
  PROVE  \E new \in UploadReq : /\ Upload!Goto(r, place) = [req EXCEPT ![r] = new]
                                   /\ new.pc = place /\ new.part = req[r].part /\ new.seen = req[r].seen
<1> DEFINE new == [req[r] EXCEPT !.pc = place]
<1>1. req[r] \in UploadReq /\ req \in [Upload!Requests -> UploadReq]
  BY DEF UploadTyped
<1>2. new \in UploadReq /\ new.pc = place /\ new.part = req[r].part /\ new.seen = req[r].seen
  BY <1>1 DEF UploadReq
<1>3. Upload!Goto(r, place) = [req EXCEPT ![r] = new]
  BY <1>1 DEF Upload!Goto
<1> QED BY <1>2, <1>3

\* A finished file keeps its owner while another request moves.
LEMMA UploadOwnedKept ==
  ASSUME UploadInv, NEW r \in Upload!Requests, NEW new \in UploadReq, req' = [req EXCEPT ![r] = new],
         row'.total = row.total, file' = file, folder' = folder,
         faults' \in {faults, faults + 1},
         \/ faults' = faults + 1
         \/ new.pc = "commit"
         \/ req[r].pc # "commit" /\ (b2'.state = "done" => b2.state = "done")
  PROVE  UploadOwned'
<1>1. \A q \in Upload!Requests : req'[q] = IF q = r THEN new ELSE req[q]
  BY DEF UploadInv, UploadTyped
<1>2. faults \in Nat
  BY DEF UploadInv, UploadTyped
<1> QED BY <1>1, <1>2 DEF UploadOwned, UploadInv, Upload!Large

\* The bucket agrees with the row as long as none of them changes.
LEMMA UploadStoreKept ==
  ASSUME UploadInv, row' = row, b2' = b2, file' = file, faults' \in {faults, faults + 1}
  PROVE  UploadStoreInv'
BY DEF UploadInv, UploadTyped, UploadStoreInv, Upload!Parts, Upload!Large, Upload!FileComplete, Upload!RecordedIsStored, Upload!FinalizedHasFile

\* A request that moves and touches neither the row, nor the store, nor the file.
LEMMA UploadOnlyMoves ==
  ASSUME UploadInv, NEW r \in Upload!Requests, NEW new \in UploadReq, req' = [req EXCEPT ![r] = new],
         UNCHANGED <<row, b2, file, folder>>, faults' \in {faults, faults + 1},
         UploadWorking(new, row.total, b2, faults'),
         faults' = faults + 1 \/ new.pc = "commit" \/ req[r].pc # "commit"
  PROVE  UploadInv'
<1>1. b2' \in StoredFile /\ UploadFollows(b2, b2') /\ b2'.parts \subseteq Upload!Parts
  BY UploadSame DEF UploadInv, UploadTyped, UploadStoreInv
<1>2. req' \in [Upload!Requests -> UploadReq] /\ UploadReqInv' /\ faults' \in Nat
  BY <1>1, UploadRequestMoves
<1>3. UploadOwned'
  BY UploadOwnedKept
<1>4. UploadStoreInv'
  BY UploadStoreKept
<1> QED BY <1>2, <1>3, <1>4 DEF UploadInv, UploadTyped

\* A request that changes the store.
LEMMA UploadStoreMoves ==
  ASSUME UploadInv, NEW r \in Upload!Requests, NEW new \in UploadReq, req' = [req EXCEPT ![r] = new],
         UNCHANGED <<row, file, folder>>, faults' \in {faults, faults + 1}, row.total # 0,
         b2' \in StoredFile, UploadFollows(b2, b2'), b2'.parts \subseteq Upload!Parts,
         b2'.state = "none" => b2'.parts = {}, ~Upload!Large => b2'.state \in {"none", "done"},
         UploadWorking(new, row.total, b2', faults'),
         \/ faults' = faults + 1
         \/ new.pc = "commit"
         \/ req[r].pc # "commit" /\ (b2'.state = "done" /\ Upload!Large => b2.state = "done")
  PROVE  UploadInv'
<1>1. req' \in [Upload!Requests -> UploadReq] /\ UploadReqInv' /\ faults' \in Nat
  BY UploadRequestMoves
<1>2. UploadOwned'
  <2>1. CASE Upload!Large
    BY <2>1, UploadOwnedKept
  <2>2. CASE ~Upload!Large
    BY <2>2 DEF UploadOwned, Upload!Large
  <2> QED BY <2>1, <2>2
<1>3. b2'.state # "cancelled" => b2.parts \subseteq b2'.parts
  BY DEF UploadFollows
<1>4. Upload!FileComplete'
  <2> SUFFICES ASSUME file = 1 PROVE b2'.state = "done" /\ b2'.parts = Upload!Parts
    BY DEF Upload!FileComplete, Upload!Parts
  <2>1. b2.state = "done" /\ b2.parts = Upload!Parts
    BY DEF UploadInv, UploadStoreInv, Upload!FileComplete
  <2>2. b2'.state = "done"
    BY <2>1 DEF UploadFollows
  <2>3. Upload!Parts \subseteq b2'.parts
    BY <1>3, <2>1, <2>2
  <2> QED BY <2>2, <2>3
<1>5. Upload!RecordedIsStored'
  BY <1>3 DEF UploadFollows, UploadInv, UploadStoreInv, Upload!RecordedIsStored
<1>6. row.status \in {"failed", "ABORTED"} /\ b2'.state = "open" => faults' > 0
  BY DEF UploadFollows, UploadInv, UploadTyped, UploadStoreInv
<1>7. UploadStoreInv'
  BY <1>4, <1>5, <1>6 DEF UploadInv, UploadStoreInv, Upload!Parts, Upload!Large, Upload!FinalizedHasFile
<1> QED BY <1>1, <1>2, <1>7 DEF UploadInv, UploadTyped

-----------------------------------------------------------------------------
(* One lemma for each kind of request.                                     *)

LEMMA UploadUnderWay == ASSUME UploadInv, NEW r \in Upload!Requests, req[r].pc # "idle" PROVE row.total # 0
BY DEF UploadInv, UploadReqInv, UploadWorking

\* An open session knows how many parts it waits for.
LEMMA UploadOpenHasParts == ASSUME UploadInv, row.status = "OPEN" PROVE row.total # 0
BY DEF UploadInv, UploadStoreInv

\* Reading the session for a part, and once more in its transaction.
LEMMA UploadPartSteps ==
  ASSUME UploadInv, NEW r \in Upload!Requests, (\E p \in Upload!Parts : Upload!PartRead(r, p)) \/ Upload!TxRead(r)
  PROVE  UploadInv'
<1>1. ASSUME NEW p \in Upload!Parts, Upload!PartRead(r, p) PROVE UploadInv'
  <2> DEFINE new == [pc |-> "put", part |-> p, seen |-> {}]
  <2>1. p \in Nat /\ p \in 1..row.total /\ row.total # 0
    BY <1>1, UploadOpenHasParts DEF Upload!PartRead, Upload!EnsureOpen, Upload!Parts, UploadInv, UploadTyped, SessionRow
  <2>2. new \in UploadReq /\ UploadWorking(new, row.total, b2, faults')
    BY <2>1 DEF UploadReq, UploadWorking
  <2>3. req[r].pc # "commit" /\ req' = [req EXCEPT ![r] = new] /\ UNCHANGED <<row, b2, file, folder, faults>>
    BY <1>1 DEF Upload!PartRead, Upload!Comes, Upload!Same
  <2> HIDE DEF new
  <2> QED BY <2>2, <2>3, UploadOnlyMoves
<1>2. ASSUME Upload!TxRead(r) PROVE UploadInv'
  <2> DEFINE new == [req[r] EXCEPT !.pc = "write", !.seen = row.parts]
  <2>1. req[r] \in UploadReq /\ req \in [Upload!Requests -> UploadReq] /\ row.parts \in SUBSET Nat
    BY DEF UploadInv, UploadTyped, SessionRow
  <2>2. new \in UploadReq /\ new.pc = "write" /\ new.part = req[r].part /\ new.seen = row.parts
    BY <2>1 DEF UploadReq
  <2>3. req' = [req EXCEPT ![r] = new] /\ req[r].pc = "read" /\ UNCHANGED <<row, b2, file, folder, faults>>
    BY <1>2, <2>1 DEF Upload!TxRead, Upload!Same
  <2> HIDE DEF new
  <2>4. UploadWorking(req[r], row.total, b2, faults)
    BY DEF UploadInv, UploadReqInv
  <2>5. UploadWorking(new, row.total, b2, faults')
    BY <2>2, <2>3, <2>4 DEF UploadWorking, UploadInv, UploadStoreInv, Upload!RecordedIsStored, Upload!Parts
  <2> QED BY <2>2, <2>3, <2>5, UploadOnlyMoves
<1> QED BY <1>1, <1>2

\* What an accepted put leaves in the bucket.
LEMMA UploadPutOk ==
  ASSUME UploadInv, NEW r \in Upload!Requests, req[r].pc = "put", Upload!Accepted
  PROVE  /\ Upload!Put(r) \in StoredFile /\ UploadFollows(b2, Upload!Put(r)) /\ Upload!Put(r).parts \subseteq Upload!Parts
         /\ req[r].part \in Upload!Put(r).parts /\ Upload!Put(r).state # "none"
         /\ (~Upload!Large => Upload!Put(r).state \in {"none", "done"})
         /\ (Upload!Put(r).state = "done" /\ Upload!Large => b2.state = "done")
<1>1. req[r].part \in Upload!Parts /\ req[r].part \in Nat /\ row.total \in Nat /\ row.total # 0
  BY UploadUnderWay DEF UploadInv, UploadTyped, SessionRow, UploadReq, UploadReqInv, UploadWorking, Upload!Parts
<1>2. b2 \in StoredFile /\ b2.parts \subseteq Upload!Parts
  BY DEF UploadInv, UploadTyped, UploadStoreInv
<1>3. CASE Upload!Large
  <2> DEFINE new == [b2 EXCEPT !.parts = @ \union {req[r].part}]
  <2>1. Upload!Put(r) = new /\ b2.state = "open"
    BY <1>3 DEF Upload!Put, Upload!Accepted
  <2>2. new \in StoredFile /\ new.state = b2.state /\ new.parts = b2.parts \union {req[r].part}
    BY <1>1, <1>2 DEF StoredFile
  <2> HIDE DEF new
  <2> QED BY <1>1, <1>2, <1>3, <2>1, <2>2 DEF UploadFollows
<1>4. CASE ~Upload!Large
  <2>1. Upload!Put(r) = [state |-> "done", parts |-> {req[r].part}]
    BY <1>4 DEF Upload!Put
  <2>2. b2.state \in {"none", "done"} /\ row.total = 1
    BY <1>1, <1>4 DEF UploadInv, UploadStoreInv, Upload!Large
  <2>3. Upload!Parts = {1} /\ req[r].part = 1
    BY <1>1, <2>2 DEF Upload!Parts
  <2>4. b2.parts \subseteq {req[r].part}
    BY <1>2, <2>3
  <2> QED BY <1>1, <1>4, <2>1, <2>2, <2>3, <2>4 DEF StoredFile, UploadFollows
<1> QED BY <1>3, <1>4

\* A put that succeeds, fails, or whose answer is lost.
LEMMA UploadPutSteps == ASSUME UploadInv, NEW r \in Upload!Requests, Upload!PutPart(r) \/ Upload!PutFails(r) PROVE UploadInv'
<1>1. req[r].pc = "put" /\ row.total # 0 /\ UNCHANGED <<row, file, folder>>
  BY UploadUnderWay DEF Upload!PutPart, Upload!PutFails
<1>2. b2 \in StoredFile /\ b2.parts \subseteq Upload!Parts /\ UploadFollows(b2, b2) /\ (~Upload!Large => b2.state \in {"none", "done"})
      /\ (b2.state = "none" => b2.parts = {})
  BY UploadSame DEF UploadInv, UploadTyped, UploadStoreInv
<1>3. UploadWorking(req[r], row.total, b2, faults) /\ row.total \in Nat /\ faults \in Nat
  BY DEF UploadInv, UploadReqInv, UploadTyped, SessionRow
<1>4. CASE Upload!PutPart(r) /\ Upload!Accepted
  <2>1. PICK new \in UploadReq : /\ Upload!Goto(r, "read") = [req EXCEPT ![r] = new]
                            /\ new.pc = "read" /\ new.part = req[r].part /\ new.seen = req[r].seen
    BY UploadGoing DEF UploadInv
  <2>2. b2' = Upload!Put(r) /\ req' = [req EXCEPT ![r] = new] /\ faults' = faults
    BY <1>4, <2>1 DEF Upload!PutPart, Upload!Same
  <2>3. UploadWorking(new, row.total, b2', faults')
    BY <1>1, <1>3, <1>4, <2>1, <2>2, UploadPutOk DEF UploadWorking
  <2> QED BY <1>1, <1>4, <2>1, <2>2, <2>3, UploadPutOk, UploadStoreMoves
<1>5. CASE (Upload!PutPart(r) /\ ~Upload!Accepted) \/ Upload!PutFails(r)
  <2>1. PICK new \in UploadReq : Upload!End(r) = [req EXCEPT ![r] = new] /\ new.pc = "done" /\ new.seen = req[r].seen
    BY UploadGoing DEF UploadInv, Upload!End
  <2>2. req' = [req EXCEPT ![r] = new]
    BY <1>5, <2>1 DEF Upload!PutPart, Upload!PutFails
  <2>3. (b2' = b2 \/ (Upload!Accepted /\ b2' = Upload!Put(r))) /\ (b2' = b2 \/ faults' = faults + 1) /\ faults' \in {faults, faults + 1}
    BY <1>5 DEF Upload!PutPart, Upload!PutFails, Upload!Fault, Upload!Same
  <2>4. UploadWorking(new, row.total, b2', faults')
    BY <1>1, <1>3, <2>1 DEF UploadWorking
  <2>5. CASE b2' = b2
    BY <1>1, <1>2, <2>1, <2>2, <2>3, <2>4, <2>5, UploadStoreMoves
  <2>6. CASE b2' # b2
    BY <1>1, <2>1, <2>2, <2>3, <2>4, <2>6, UploadPutOk, UploadStoreMoves
  <2> QED BY <2>5, <2>6
<1> QED BY <1>4, <1>5

\* The transaction of a part records it over the parts it has read.
LEMMA UploadWriteStep == ASSUME UploadInv, NEW r \in Upload!Requests, Upload!TxWrite(r) PROVE UploadInv'
<1>1. PICK new \in UploadReq : Upload!End(r) = [req EXCEPT ![r] = new] /\ new.pc = "done" /\ new.seen = req[r].seen
  BY UploadGoing DEF UploadInv, Upload!End
<1>2. req[r].pc = "write" /\ req' = [req EXCEPT ![r] = new] /\ UNCHANGED <<b2, file, folder, faults>>
  BY <1>1 DEF Upload!TxWrite
<1>3. UploadWorking(req[r], row.total, b2, faults) /\ row.total # 0
  BY <1>2, UploadUnderWay DEF UploadInv, UploadReqInv
<1>4. row \in SessionRow /\ req[r] \in UploadReq
  BY DEF UploadInv, UploadTyped
<1>5. row' = [row EXCEPT !.parts = req[r].seen \union {req[r].part}, !.life = "fresh"]
  BY DEF Upload!TxWrite
<1>6. row' \in SessionRow /\ row'.total = row.total /\ row'.status = row.status /\ row'.parts = req[r].seen \union {req[r].part}
  BY <1>4, <1>5 DEF SessionRow, UploadReq
<1>7. b2' \in StoredFile /\ UploadFollows(b2, b2') /\ b2'.parts \subseteq Upload!Parts
  BY <1>2, UploadSame DEF UploadInv, UploadTyped, UploadStoreInv
<1>8. UploadWorking(new, row.total, b2', faults')
  BY <1>1, <1>2, <1>3 DEF UploadWorking
<1>9. req' \in [Upload!Requests -> UploadReq] /\ UploadReqInv' /\ faults' \in Nat
  BY <1>1, <1>2, <1>6, <1>7, <1>8, UploadRequestMoves
<1>10. UploadOwned'
  BY <1>2, <1>6, UploadOwnedKept
<1>11. row'.parts \subseteq Upload!Parts /\ (b2.state # "cancelled" => row'.parts \subseteq b2.parts)
  BY <1>2, <1>3, <1>6 DEF UploadWorking, Upload!Parts
<1>12. UploadStoreInv'
  BY <1>2, <1>6, <1>11 DEF UploadInv, UploadStoreInv, Upload!Parts, Upload!Large, Upload!FileComplete, Upload!RecordedIsStored, Upload!FinalizedHasFile
<1> QED BY <1>2, <1>6, <1>9, <1>10, <1>12 DEF UploadInv, UploadTyped

\* finalize: what the request has seen complete is stored complete.
LEMMA UploadFinalizeSteps ==
  ASSUME UploadInv, NEW r \in Upload!Requests, Upload!FinalizeRead(r) \/ Upload!FinishLarge(r) \/ Upload!FinishFails(r)
  PROVE  UploadInv'
<1>1. b2 \in StoredFile /\ b2.parts \subseteq Upload!Parts /\ UploadFollows(b2, b2) /\ (~Upload!Large => b2.state \in {"none", "done"})
      /\ (b2.state = "none" => b2.parts = {})
  BY UploadSame DEF UploadInv, UploadTyped, UploadStoreInv
<1>2. UploadWorking(req[r], row.total, b2, faults) /\ row.total \in Nat /\ faults \in Nat
  BY DEF UploadInv, UploadReqInv, UploadTyped, SessionRow
<1>3. CASE Upload!FinalizeRead(r)
  <2> DEFINE new == [pc |-> IF Upload!Large THEN "finish" ELSE "commit", part |-> 0, seen |-> row.parts]
  <2>1. req' = [req EXCEPT ![r] = new] /\ req[r].pc = "idle" /\ UNCHANGED <<row, b2, file, folder, faults>>
        /\ row.parts = Upload!Parts /\ row.total # 0
    BY <1>3, UploadOpenHasParts DEF Upload!FinalizeRead, Upload!Comes, Upload!EnsureOpen, Upload!NothingMissing, Upload!Same
  <2>2. new \in UploadReq /\ new.seen = 1..row.total /\ new.pc = IF Upload!Large THEN "finish" ELSE "commit"
    BY <2>1 DEF UploadReq, Upload!Parts, UploadInv, UploadTyped, SessionRow
  <2>3. ~Upload!Large => b2.state = "done" /\ b2.parts = 1..row.total
    <3> SUFFICES ASSUME ~Upload!Large PROVE b2.state = "done" /\ b2.parts = 1..row.total
      OBVIOUS
    <3>1. Upload!Parts \subseteq b2.parts
      BY <1>1, <2>1 DEF UploadInv, UploadStoreInv, Upload!RecordedIsStored
    <3>2. 1 \in Upload!Parts
      BY <1>2, <2>1 DEF Upload!Parts
    <3> QED BY <1>1, <3>1, <3>2 DEF Upload!Parts
  <2> HIDE DEF new
  <2>4. UploadWorking(new, row.total, b2, faults')
    BY <2>1, <2>2, <2>3 DEF UploadWorking
  <2> QED BY <2>1, <2>2, <2>4, UploadOnlyMoves
<1>4. CASE Upload!FinishLarge(r) \/ Upload!FinishFails(r)
  <2>1. req[r].pc = "finish" /\ row.total # 0 /\ UNCHANGED <<row, file, folder>>
    BY <1>4, UploadUnderWay DEF Upload!FinishLarge, Upload!FinishFails
  <2> DEFINE done == [b2 EXCEPT !.state = "done"]
  <2>2. done \in StoredFile /\ done.state = "done" /\ done.parts = b2.parts
    BY <1>1 DEF StoredFile
  <2>3. Upload!Finishes(r) => b2.parts = 1..row.total /\ UploadFollows(b2, done)
    BY <1>2, <2>1, <2>2 DEF Upload!Finishes, UploadWorking, UploadFollows
  <2> DEFINE f == Upload!Finishes(r)
  <2>4. PICK go \in UploadReq : Upload!Goto(r, "commit") = [req EXCEPT ![r] = go] /\ go.pc = "commit" /\ go.seen = req[r].seen
    BY UploadGoing DEF UploadInv
  <2>5. PICK end \in UploadReq : Upload!End(r) = [req EXCEPT ![r] = end] /\ end.pc = "done" /\ end.seen = req[r].seen
    BY UploadGoing DEF UploadInv, Upload!End
  <2>6. \/ f /\ b2' = done /\ req' = [req EXCEPT ![r] = go] /\ faults' = faults
        \/ b2' = b2 /\ req' = [req EXCEPT ![r] = end] /\ faults' \in {faults, faults + 1}
        \/ f /\ b2' = done /\ req' = [req EXCEPT ![r] = end] /\ faults' = faults + 1
    BY <1>4, <2>4, <2>5 DEF Upload!FinishLarge, Upload!FinishFails, Upload!Fault, Upload!Same
  <2> HIDE DEF done
  <2>7. UploadWorking(end, row.total, b2', faults')
    BY <1>2, <2>1, <2>5 DEF UploadWorking
  <2>8. CASE f /\ b2' = done /\ req' = [req EXCEPT ![r] = go] /\ faults' = faults
    <3>1. UploadWorking(go, row.total, b2', faults')
      BY <1>2, <2>1, <2>2, <2>3, <2>4, <2>8 DEF UploadWorking
    <3> QED BY <1>1, <2>1, <2>2, <2>3, <2>4, <2>8, <3>1, UploadStoreMoves
  <2>9. CASE b2' = b2 /\ req' = [req EXCEPT ![r] = end] /\ faults' \in {faults, faults + 1}
    BY <1>1, <2>1, <2>5, <2>7, <2>9, UploadStoreMoves
  <2>10. CASE f /\ b2' = done /\ req' = [req EXCEPT ![r] = end] /\ faults' = faults + 1
    BY <1>1, <2>1, <2>2, <2>3, <2>5, <2>7, <2>10, UploadStoreMoves
  <2> QED BY <2>6, <2>8, <2>9, <2>10
<1> QED BY <1>3, <1>4

\* The transaction that creates the file, and its failure.
LEMMA UploadCommitSteps == ASSUME UploadInv, NEW r \in Upload!Requests, Upload!Commit(r) \/ Upload!CommitFails(r) PROVE UploadInv'
<1>1. PICK new \in UploadReq : Upload!End(r) = [req EXCEPT ![r] = new] /\ new.pc = "done" /\ new.seen = req[r].seen
  BY UploadGoing DEF UploadInv, Upload!End
<1>2. req[r].pc = "commit" /\ req' = [req EXCEPT ![r] = new] /\ UNCHANGED <<b2, folder>> /\ faults' \in {faults, faults + 1}
  BY <1>1 DEF Upload!Commit, Upload!CommitFails, Upload!Fault, Upload!Same
<1>3. UploadWorking(req[r], row.total, b2, faults) /\ row.total # 0
  BY <1>2, UploadUnderWay DEF UploadInv, UploadReqInv
<1>4. UploadWorking(new, row.total, b2, faults')
  BY <1>1, <1>3 DEF UploadWorking
<1>5. CASE Upload!CommitFails(r)
  BY <1>1, <1>2, <1>4, <1>5, UploadOnlyMoves DEF Upload!CommitFails, Upload!Fault
<1>6. CASE Upload!Commit(r)
  <2>1. row \in SessionRow /\ file \in {0, 1} /\ faults' = faults
    BY <1>6 DEF UploadInv, UploadTyped, Upload!Commit, Upload!Same
  <2>2. \/ folder = "there" /\ file = 0 /\ file' = 1 /\ row' = [row EXCEPT !.status = "FINALIZED"]
        \/ ~(folder = "there" /\ file = 0) /\ file' = file /\ row' = row
    BY <1>6, <2>1 DEF Upload!Commit
  <2>3. row' \in SessionRow /\ row'.total = row.total /\ row'.parts = row.parts /\ file' \in {0, 1}
        /\ (row'.status = row.status \/ (row'.status = "FINALIZED" /\ file' = 1)) /\ (file = 1 => file' = 1)
    BY <2>1, <2>2 DEF SessionRow
  <2>4. b2' \in StoredFile /\ UploadFollows(b2, b2') /\ b2'.parts \subseteq Upload!Parts
    BY <1>2, UploadSame DEF UploadInv, UploadTyped, UploadStoreInv
  <2>5. req' \in [Upload!Requests -> UploadReq] /\ UploadReqInv' /\ faults' \in Nat
    BY <1>1, <1>2, <1>4, <2>3, <2>4, UploadRequestMoves
  <2>6. UploadOwned'
    BY <1>2, <2>2 DEF UploadOwned
  <2>7. b2.state = "done" /\ b2.parts = Upload!Parts
    BY <1>2, <1>3 DEF UploadWorking, Upload!Parts
  <2>8. UploadStoreInv'
    BY <1>2, <1>3, <2>1, <2>3, <2>7 DEF UploadInv, UploadStoreInv, Upload!Parts, Upload!Large, Upload!FileComplete, Upload!RecordedIsStored, Upload!FinalizedHasFile
  <2> QED BY <1>2, <2>3, <2>4, <2>5, <2>6, <2>8 DEF UploadInv, UploadTyped
<1> QED BY <1>5, <1>6

\* cancel and sweepExpired: what a session leaves open is paid for by a fault.
LEMMA UploadDropSteps ==
  ASSUME UploadInv, NEW r \in Upload!Requests, Upload!CancelRead(r) \/ Upload!SweepRead(r) \/ Upload!Drop(r) \/ Upload!Mark(r)
  PROVE  UploadInv'
<1>1. UploadWorking(req[r], row.total, b2, faults) /\ row \in SessionRow /\ b2 \in StoredFile /\ faults \in Nat
      /\ b2.parts \subseteq Upload!Parts /\ UploadFollows(b2, b2)
  BY UploadSame DEF UploadInv, UploadReqInv, UploadTyped, UploadStoreInv
<1>2. CASE Upload!CancelRead(r) \/ Upload!SweepRead(r)
  <2>1. PICK new \in UploadReq : Upload!Goto(r, "drop") = [req EXCEPT ![r] = new] /\ new.pc = "drop" /\ new.seen = req[r].seen
    BY UploadGoing DEF UploadInv
  <2>2. req' = [req EXCEPT ![r] = new] /\ req[r].pc = "idle" /\ row.total # 0 /\ UNCHANGED <<row, b2, file, folder, faults>>
    BY <1>2, <2>1, UploadOpenHasParts DEF Upload!CancelRead, Upload!SweepRead, Upload!Comes, Upload!Same
  <2>3. UploadWorking(new, row.total, b2, faults')
    BY <1>1, <2>1, <2>2 DEF UploadWorking
  <2> QED BY <2>1, <2>2, <2>3, UploadOnlyMoves
<1>3. CASE Upload!Drop(r)
  <2>1. PICK new \in UploadReq : Upload!Goto(r, "mark") = [req EXCEPT ![r] = new] /\ new.pc = "mark" /\ new.seen = req[r].seen
    BY UploadGoing DEF UploadInv
  <2>2. req' = [req EXCEPT ![r] = new] /\ req[r].pc = "drop" /\ row.total # 0 /\ UNCHANGED <<row, file, folder>>
    BY <1>3, <2>1, UploadUnderWay DEF Upload!Drop
  <2>3. (b2' = Upload!Cancelled /\ faults' = faults) \/ (b2' = b2 /\ faults' = faults + 1)
    BY <1>3 DEF Upload!Drop, Upload!Fault
  <2>4. /\ b2' \in StoredFile /\ UploadFollows(b2, b2') /\ b2'.parts \subseteq Upload!Parts
        /\ b2'.state = "open" => faults' = faults + 1
        /\ b2'.state = "done" => b2.state = "done"
        /\ b2'.state = "none" => b2'.parts = {}
        /\ ~Upload!Large => b2'.state \in {"none", "done"}
    <3>1. CASE b2' = b2 /\ (faults' = faults + 1 \/ b2.state # "open")
      BY <1>1, <3>1 DEF UploadInv, UploadStoreInv
    <3>2. CASE b2.state = "open" /\ b2' = [state |-> "cancelled", parts |-> {}]
      BY <3>2 DEF StoredFile, UploadFollows, UploadInv, UploadStoreInv
    <3> QED BY <2>3, <3>1, <3>2 DEF Upload!Cancelled
  <2>5. UploadWorking(new, row.total, b2', faults')
    BY <1>1, <2>1, <2>2, <2>4 DEF UploadWorking
  <2> QED BY <2>1, <2>2, <2>3, <2>4, <2>5, UploadStoreMoves
<1>4. CASE Upload!Mark(r)
  <2>1. PICK new \in UploadReq : Upload!End(r) = [req EXCEPT ![r] = new] /\ new.pc = "done" /\ new.seen = req[r].seen
    BY UploadGoing DEF UploadInv, Upload!End
  <2>2. req' = [req EXCEPT ![r] = new] /\ req[r].pc = "mark" /\ row.total # 0 /\ UNCHANGED <<b2, file, folder>>
        /\ faults' \in {faults, faults + 1}
    BY <1>4, <2>1, UploadUnderWay DEF Upload!Mark, Upload!Fault
  <2>3. row' = row \/ row' = [row EXCEPT !.status = "ABORTED"]
    BY <1>4 DEF Upload!Mark
  <2>4. row' \in SessionRow /\ row'.total = row.total /\ row'.parts = row.parts /\ (row'.status = row.status \/ row'.status = "ABORTED")
    BY <1>1, <2>3 DEF SessionRow
  <2>5. b2' \in StoredFile /\ UploadFollows(b2, b2') /\ b2'.parts \subseteq Upload!Parts
    BY <1>1, <2>2
  <2>6. UploadWorking(new, row.total, b2', faults')
    BY <1>1, <2>1, <2>2 DEF UploadWorking
  <2>7. req' \in [Upload!Requests -> UploadReq] /\ UploadReqInv' /\ faults' \in Nat
    BY <2>1, <2>2, <2>4, <2>5, <2>6, UploadRequestMoves
  <2>8. UploadOwned'
    BY <2>1, <2>2, <2>4, UploadOwnedKept
  <2>9. b2.state = "open" => faults > 0
    BY <1>1, <2>2 DEF UploadWorking
  <2>10. UploadStoreInv'
    BY <1>1, <2>2, <2>4, <2>9 DEF UploadInv, UploadStoreInv, Upload!Parts, Upload!Large, Upload!FileComplete, Upload!RecordedIsStored, Upload!FinalizedHasFile
  <2> QED BY <2>2, <2>4, <2>5, <2>7, <2>8, <2>10 DEF UploadInv, UploadTyped
<1> QED BY <1>2, <1>3, <1>4

-----------------------------------------------------------------------------
(* The session itself.                                                     *)

LEMMA UploadStartStep == ASSUME UploadInv, NEW n \in Sizes, Sizes \subseteq Nat \ {0}, Upload!Start(n) PROVE UploadInv'
<1>1. row \in SessionRow /\ b2 \in StoredFile /\ row.total = 0 /\ b2.state = "none" /\ row.status = "none" /\ n \in Nat \ {0}
      /\ UNCHANGED <<file, folder, req, faults>>
  BY DEF Upload!Start, UploadInv, UploadTyped, Upload!Same
<1>2. row' = [row EXCEPT !.total = n] /\ b2' = [b2 EXCEPT !.state = IF n > 1 THEN "open" ELSE "none"]
  BY DEF Upload!Start
<1>3. row' \in SessionRow /\ row'.total = n /\ row'.parts = row.parts /\ row'.status = "none"
  BY <1>1, <1>2 DEF SessionRow
<1>4. b2' \in StoredFile /\ b2'.parts = b2.parts /\ b2'.state = IF n > 1 THEN "open" ELSE "none"
  BY <1>1, <1>2 DEF StoredFile
<1>5. row.parts = {} /\ b2.parts = {}
  BY <1>1 DEF UploadInv, UploadStoreInv, Upload!Parts
<1>6. \A r \in Upload!Requests : req[r].pc = "idle" /\ req[r].seen = {}
  BY <1>1 DEF UploadInv, UploadReqInv, UploadWorking
<1>7. UploadReqInv'
  BY <1>1, <1>6 DEF UploadReqInv, UploadWorking
<1>8. file = 0
  BY <1>1 DEF UploadInv, UploadTyped, UploadStoreInv, Upload!FileComplete
<1>9. UploadStoreInv'
  BY <1>1, <1>3, <1>4, <1>5, <1>8 DEF UploadStoreInv, Upload!Parts, Upload!Large, Upload!FileComplete, Upload!RecordedIsStored, Upload!FinalizedHasFile
<1>10. UploadOwned'
  BY <1>4 DEF UploadOwned
<1> QED BY <1>1, <1>3, <1>4, <1>7, <1>9, <1>10 DEF UploadInv, UploadTyped

\* Creation, expiry and the deletion of the folder.
LEMMA UploadSessionSteps == ASSUME UploadInv, Upload!CreateRow \/ Upload!Expire \/ Upload!FolderDeleted PROVE UploadInv'
<1>1. row \in SessionRow /\ b2 \in StoredFile /\ faults \in Nat /\ UNCHANGED <<b2, file, req>>
  BY DEF UploadInv, UploadTyped, Upload!CreateRow, Upload!Expire, Upload!FolderDeleted
<1>2. /\ row' \in SessionRow /\ row'.total = row.total /\ row'.parts = row.parts
      /\ \/ row'.status = row.status /\ faults' = faults
         \/ row'.status = "OPEN" /\ faults' = faults /\ row.total # 0
         \/ row'.status = "failed" /\ faults' = faults + 1 /\ row.total # 0
  <2>1. \/ row' = row /\ faults' = faults
        \/ row' = [row EXCEPT !.life = "expired"] /\ faults' = faults
        \/ row' = [row EXCEPT !.status = "OPEN"] /\ faults' = faults /\ row.total # 0
        \/ row' = [row EXCEPT !.status = "failed"] /\ faults' = faults + 1 /\ row.total # 0
    BY DEF Upload!CreateRow, Upload!Expire, Upload!FolderDeleted, Upload!Fault, Upload!Same
  <2> QED BY <1>1, <2>1 DEF SessionRow
<1>3. folder' = folder \/ folder' = "gone"
  BY DEF Upload!CreateRow, Upload!Expire, Upload!FolderDeleted
<1>4. UploadReqInv'
  BY <1>1, <1>2 DEF UploadInv, UploadReqInv, UploadWorking
<1>5. UploadStoreInv'
  BY <1>1, <1>2 DEF UploadInv, UploadStoreInv, Upload!Parts, Upload!Large, Upload!FileComplete, Upload!RecordedIsStored, Upload!FinalizedHasFile
<1>6. UploadOwned'
  BY <1>1, <1>2, <1>3 DEF UploadInv, UploadOwned, Upload!Large
<1> QED BY <1>1, <1>2, <1>3, <1>4, <1>5, <1>6 DEF UploadInv, UploadTyped

\* The invariant is inductive.
LEMMA UploadStep == ASSUME Sizes \subseteq Nat \ {0} PROVE UploadInv /\ [Upload!Next]_(Upload!vars) => UploadInv'
<1> SUFFICES ASSUME UploadInv, [Upload!Next]_(Upload!vars) PROVE UploadInv'
  OBVIOUS
<1>1. CASE UNCHANGED Upload!vars
  BY <1>1 DEF Upload!vars, UploadInv, UploadTyped, UploadReqInv, UploadWorking, UploadStoreInv, UploadOwned, Upload!Parts, Upload!Large,
              Upload!FileComplete, Upload!RecordedIsStored, Upload!FinalizedHasFile
<1>2. ASSUME NEW r \in Upload!Requests, Upload!RequestStep(r) PROVE UploadInv'
  BY <1>2, UploadPartSteps, UploadPutSteps, UploadWriteStep, UploadFinalizeSteps, UploadCommitSteps, UploadDropSteps DEF Upload!RequestStep
<1> QED BY <1>1, <1>2, UploadStartStep, UploadSessionSteps DEF Upload!Next

\* Whatever parts, finalizations, cancellations and sweeps overlap and fail: a
\* file has all its parts, a recorded part is stored, FINALIZED has its file, and
\* nothing stays in the store that no sweep and no file owns, but for failed calls
\* and a folder deleted in between (upload-session.service.ts).
LEMMA UploadsAreSound == ASSUME Sizes \subseteq Nat \ {0} PROVE Upload!Spec => []Upload!UploadsSound
BY UploadInit, UploadStep, UploadInvSound, PTL DEF Upload!Spec

\* The number of chunks is set when the upload starts, to one of those an upload may have.
UploadSized == row.total \in Sizes \union {0}

LEMMA UploadSizeKept == ASSUME UploadInv, UploadSized PROVE [Upload!Next]_(Upload!vars) => UploadSized'
<1> SUFFICES ASSUME [Upload!Next]_(Upload!vars) PROVE UploadSized'
  OBVIOUS
<1>0. row \in SessionRow
  BY DEF UploadInv, UploadTyped
<1>1. ASSUME NEW n \in Sizes, Upload!Start(n) PROVE UploadSized'
  BY <1>0, <1>1 DEF Upload!Start, UploadSized, SessionRow
<1>2. ASSUME row'.total = row.total PROVE UploadSized'
  BY <1>2 DEF UploadSized
<1>3. CASE Upload!CreateRow \/ Upload!Expire \/ Upload!FolderDeleted
  <2>1. row'.total = row.total
    BY <1>0, <1>3 DEF Upload!CreateRow, Upload!Expire, Upload!FolderDeleted, SessionRow
  <2> QED BY <1>2, <2>1
<1>4. ASSUME NEW r \in Upload!Requests, Upload!RequestStep(r) PROVE UploadSized'
  <2>1. CASE UNCHANGED row
    BY <1>2, <2>1
  <2>2. CASE Upload!TxWrite(r) \/ Upload!Commit(r) \/ Upload!Mark(r)
    <3>1. row'.total = row.total
      BY <1>0, <2>2 DEF Upload!TxWrite, Upload!Commit, Upload!Mark, SessionRow
    <3> QED BY <1>2, <3>1
  <2>3. UNCHANGED row \/ Upload!TxWrite(r) \/ Upload!Commit(r) \/ Upload!Mark(r)
    BY <1>4 DEF Upload!RequestStep, Upload!PartRead, Upload!PutPart, Upload!PutFails, Upload!TxRead, Upload!FinalizeRead, Upload!FinishLarge, Upload!FinishFails,
       Upload!CommitFails, Upload!CancelRead, Upload!SweepRead, Upload!Drop
  <2> QED BY <2>1, <2>2, <2>3
<1>5. CASE UNCHANGED Upload!vars
  BY <1>2, <1>5 DEF Upload!vars
<1> QED BY <1>1, <1>3, <1>4, <1>5 DEF Upload!Next

LEMMA UploadTypesFollow == UploadInv /\ UploadSized => Upload!TypeOK
<1> SUFFICES ASSUME UploadInv, UploadSized PROVE Upload!TypeOK
  OBVIOUS
<1>1. row \in SessionRow /\ row.parts \subseteq 1..row.total /\ row.total \in Sizes \union {0}
  BY DEF UploadInv, UploadTyped, UploadStoreInv, Upload!Parts, UploadSized
<1>2. row \in [status : {"none", "failed", "OPEN", "FINALIZED", "ABORTED"},
               total : Sizes \union {0}, parts : SUBSET (1..row.total), life : {"fresh", "expired"}]
  <2> DEFINE P == SUBSET (1..row.total)
             T == Sizes \union {0}
  <2>1. row \in SessionRow /\ row.parts \in P /\ row.total \in T
    BY <1>1
  <2> HIDE DEF P, T
  <2>2. row \in [status : {"none", "failed", "OPEN", "FINALIZED", "ABORTED"},
                 total : T, parts : P, life : {"fresh", "expired"}]
    BY <2>1 DEF SessionRow
  <2> QED BY <2>2 DEF P, T
<1>3. b2 \in [state : {"none", "open", "done", "cancelled"}, parts : SUBSET (1..row.total)]
  <2> DEFINE P == SUBSET (1..row.total)
  <2>1. b2 \in StoredFile /\ b2.parts \in P
    BY DEF UploadInv, UploadTyped, UploadStoreInv, Upload!Parts
  <2> HIDE DEF P
  <2>2. b2 \in [state : {"none", "open", "done", "cancelled"}, parts : P]
    BY <2>1 DEF StoredFile
  <2> QED BY <2>2 DEF P
<1>4. /\ folder \in {"there", "gone"}
      /\ \A r \in Upload!Requests : req[r].pc \in {"idle", "put", "read", "write", "finish", "commit",
                                            "drop", "mark", "done"}
  BY DEF UploadInv, UploadTyped, UploadReq
<1>5. file \in 0..1
  BY DEF UploadInv, UploadTyped
<1> QED BY <1>2, <1>3, <1>4, <1>5 DEF Upload!TypeOK

\* Every variable of an upload session keeps its type: what is recorded and what is
\* stored are parts of the size that was asked for (uploadPart, finalize).
LEMMA UploadTypes == ASSUME Sizes \subseteq Nat \ {0} PROVE Upload!Spec => []Upload!TypeOK
<1>1. Upload!Init => UploadSized
  BY DEF Upload!Init, UploadSized
<1>2. UploadInv /\ UploadSized /\ [Upload!Next]_(Upload!vars) => UploadSized'
  BY UploadSizeKept
<1> QED BY <1>1, <1>2, UploadInit, UploadStep, UploadTypesFollow, PTL DEF Upload!Spec

Phone == INSTANCE PhoneMaintenance WITH
    Requests <- Callers, Horizon <- PhoneHorizon

PhoneRow == [st : {"ACTIVE", "HOLD", "DISABLED"}, required : {"yes", "no"}, next : Phone!Months \cup {Phone!Never}]

PhoneTask == [st : {"absent", "DUE", "OVERDUE"} \cup Phone!Closed,
            network : {"yes", "no"}, topup : {"yes", "no"}, by : Users \cup {"-"}]

AllMarks == Phone!Boxes \cup {"closed"}

PhoneReq == [pc : {"idle", "complete"}, p : Phones \cup {"-"}, due : Phone!Months,
        user : Users \cup {"-"}, row : PhoneTask, seen : SUBSET AllMarks, asks : SUBSET AllMarks]

\* The types of TypeOK, and those of the requests and of the sweep.
PhoneTyped ==
    /\ now \in 0..PhoneHorizon
    /\ phone \in [Phones -> PhoneRow]
    /\ task \in [Phones -> [Phone!Months -> PhoneTask]]
    /\ sweep \in [pc : {"idle", "create"}, todo : SUBSET (Phones \X Phone!Months)]
    /\ req \in [Callers -> PhoneReq]
    /\ edited \subseteq Phones
    /\ said \in [Phones -> [Phone!Months -> SUBSET AllMarks]]

\* What a request holds between its read and its transaction: a task that was
\* open when it was read, of a month that has begun, with what it showed then
\* and what the form asks for.
Held(q) ==
    q.pc = "complete" =>
        /\ q.p \in Phones /\ q.user \in Users /\ q.due <= now /\ q.row.st \in {"DUE", "OVERDUE"}
        /\ q.seen \subseteq Phone!Marks(q.row) /\ q.asks \subseteq Phone!Marks(q.row)
RequestsHold == \A r \in Callers : Held(req[r])

\* The sweep's candidates are due by now.
TodoDue == \A c \in sweep.todo : c[2] <= now

\* The inductive invariant.  NoTaskAhead carries LoopContinues: a cycle that
\* is closed today sets a date after every task there is.
PhoneInv == PhoneTyped /\ RequestsHold /\ TodoDue /\ Phone!NoTaskAhead /\ Phone!LoopContinues

\* The months the model counts, and the ones a task may be due in.
LEMMA PhoneBounds ==
  ASSUME PhoneHorizon \in Nat
  PROVE  /\ Phone!Months \subseteq Nat /\ 0 \in Phone!Months /\ Phone!Never \in Nat /\ Phone!Never \notin Phone!Months
         /\ \A m \in 0..PhoneHorizon : m \in Nat /\ m \in Phone!Months /\ m + Phone!Cycle \in Phone!Months /\ m < Phone!Never
         /\ Phone!Cycle = 3
  BY DEF Phone!Months, Phone!Cycle, Phone!Never

\* The invariant's types imply the type invariant.
LEMMA PhoneTypesFollow == PhoneTyped => Phone!TypeOK
<1> SUFFICES ASSUME PhoneTyped PROVE Phone!TypeOK
  OBVIOUS
<1>1. sweep.pc \in {"idle", "create"} /\ sweep.todo \subseteq Phones \X Phone!Months
  BY DEF PhoneTyped
<1> QED BY <1>1 DEF PhoneTyped, Phone!TypeOK, PhoneRow, PhoneTask, AllMarks

\* What a task shows.
LEMMA MarksOf ==
  /\ \A t : Phone!Marks(t) \subseteq AllMarks
  /\ Phone!Marks(Phone!Absent) = {}
BY DEF Phone!Marks, AllMarks, Phone!Boxes, Phone!Absent, Phone!Closed

\* What a request writes shows all that the row it computed shows.
LEMMA FinishedShows ==
  ASSUME NEW q, q.row \in PhoneTask, q.row.st \in {"DUE", "OVERDUE"}
  PROVE  Phone!Marks(q.row) \subseteq Phone!Marks(Phone!Finished(q))
<1>1. Phone!Finished(q).network = q.row.network /\ Phone!Finished(q).topup = q.row.topup
  BY DEF Phone!Finished, PhoneTask
<1>2. \A b \in Phone!Boxes : Phone!Finished(q)[b] = q.row[b]
  BY <1>1 DEF Phone!Boxes
<1>3. q.row.st \notin Phone!Closed
  BY DEF Phone!Closed
<1> QED BY <1>2, <1>3 DEF Phone!Marks

\* With no task and no request the invariant holds.
LEMMA PhoneInit == ASSUME PhoneHorizon \in Nat PROVE Phone!Init => PhoneInv
<1> SUFFICES ASSUME Phone!Init PROVE PhoneInv
  OBVIOUS
<1>1. Phone!Absent \in PhoneTask
  BY DEF Phone!Absent, PhoneTask
<1>2. Phone!IdleReq \in PhoneReq
  BY <1>1, PhoneBounds DEF Phone!IdleReq, PhoneReq
<1>5. said \in [Phones -> [Phone!Months -> SUBSET AllMarks]]
  BY DEF Phone!Init
<1>3. PhoneTyped
  <2>1. phone \in [Phones -> PhoneRow]
    BY DEF Phone!Init, PhoneRow, Phone!Cycle, Phone!Months
  <2>2. sweep \in [pc : {"idle", "create"}, todo : SUBSET (Phones \X Phone!Months)]
    BY DEF Phone!Init, Phone!IdleSweep
  <2> QED BY <1>1, <1>2, <1>5, <2>1, <2>2 DEF Phone!Init, PhoneTyped
<1>4. RequestsHold /\ TodoDue /\ Phone!NoTaskAhead /\ Phone!LoopContinues
  BY DEF Phone!Init, RequestsHold, Held, Phone!IdleReq, TodoDue, Phone!NoTaskAhead, Phone!LoopContinues, Phone!IdleSweep, Phone!Absent, Phone!Closed
<1> QED BY <1>3, <1>4 DEF PhoneInv

\* Writing one task leaves the others alone.
LEMMA Written ==
  ASSUME PhoneTyped, NEW p \in Phones, NEW due \in Phone!Months, NEW left \in PhoneTask,
         task' = [task EXCEPT ![p][due] = left]
  PROVE  /\ task' \in [Phones -> [Phone!Months -> PhoneTask]]
         /\ task'[p][due] = left
         /\ \A q \in Phones, d \in Phone!Months : task'[q][d] = task[q][d] \/ (q = p /\ d = due)
<1>1. task \in [Phones -> [Phone!Months -> PhoneTask]]
  BY DEF PhoneTyped
<1>2. [task[p] EXCEPT ![due] = left] \in [Phone!Months -> PhoneTask]
  BY <1>1
<1>3. task' = [task EXCEPT ![p] = [task[p] EXCEPT ![due] = left]]
  OBVIOUS
<1>4. task' \in [Phones -> [Phone!Months -> PhoneTask]]
  BY <1>1, <1>2, <1>3
<1>5. task'[p] = [task[p] EXCEPT ![due] = left] /\ \A q \in Phones : q # p => task'[q] = task[q]
  BY <1>1, <1>3
<1>6. \A d \in Phone!Months : [task[p] EXCEPT ![due] = left][d] = IF d = due THEN left ELSE task[p][d]
  BY <1>1
<1>7. task'[p][due] = left
  BY <1>5, <1>6
<1>8. ASSUME NEW q \in Phones, NEW d \in Phone!Months, ~(q = p /\ d = due) PROVE task'[q][d] = task[q][d]
  <2>1. CASE q = p
    BY <1>5, <1>6, <1>8, <2>1
  <2>2. CASE q # p
    BY <1>5, <2>2
  <2> QED BY <2>1, <2>2
<1> QED BY <1>4, <1>7, <1>8

\* What may happen to tasks while no date moves.
LEMMA TasksMove ==
  ASSUME PhoneHorizon \in Nat, PhoneInv, now' = now,
         \A p \in Phones \ edited' : p \notin edited /\ phone'[p].next = phone[p].next,
         \A p \in Phones, d \in Phone!Months :
            task'[p][d] = task[p][d] \/ (d <= now /\ task'[p][d].st \notin Phone!Closed)
  PROVE  Phone!NoTaskAhead' /\ Phone!LoopContinues'
BY DEF PhoneInv, Phone!NoTaskAhead, Phone!LoopContinues

\* A task is closed, or written, and the date of its phone moves to the next cycle.
LEMMA DateMoves ==
  ASSUME PhoneHorizon \in Nat, PhoneInv, now' = now, NEW p \in Phones, NEW due \in Phone!Months, due <= now,
         edited' = edited \ {p}, phone'[p].next = Phone!NextCycle,
         \A q \in Phones \ {p} : phone'[q] = phone[q],
         \A q \in Phones, d \in Phone!Months : task'[q][d] = task[q][d] \/ (q = p /\ d = due)
  PROVE  Phone!NoTaskAhead' /\ Phone!LoopContinues'
<1>1. Phone!NoTaskAhead'
  BY DEF PhoneInv, Phone!NoTaskAhead
<1>2. \A d \in Phone!Months : task'[p][d].st \in Phone!Closed => phone'[p].next > d
  <2> SUFFICES ASSUME NEW d \in Phone!Months, task'[p][d].st \in Phone!Closed PROVE phone'[p].next > d
    OBVIOUS
  <2>1. d <= now
    BY DEF PhoneInv, Phone!NoTaskAhead, Phone!Closed
  <2> QED BY <2>1, PhoneBounds DEF PhoneInv, PhoneTyped, Phone!NextCycle
<1>3. \A q \in Phones \ edited', d \in Phone!Months : q # p /\ task'[q][d].st \in Phone!Closed => phone'[q].next > d
  BY DEF PhoneInv, Phone!LoopContinues
<1> QED BY <1>1, <1>2, <1>3 DEF Phone!LoopContinues

-----------------------------------------------------------------------------
(* The steps of the clock and of the sweep.                                *)

LEMMA MonthKeeps == ASSUME PhoneHorizon \in Nat, PhoneInv, Phone!Month PROVE PhoneInv'
<1>1. now \in Nat /\ now' = now + 1 /\ now' \in 0..PhoneHorizon
  BY DEF Phone!Month, PhoneInv, PhoneTyped
<1>2. PhoneTyped'
  BY <1>1 DEF Phone!Month, PhoneInv, PhoneTyped
<1>3. \A d \in Phone!Months : d <= now => d <= now'
  BY <1>1, PhoneBounds
<1>4. RequestsHold'
  BY <1>3 DEF Phone!Month, PhoneInv, RequestsHold, Held, PhoneTyped, PhoneReq
<1>5. TodoDue'
  BY <1>3 DEF Phone!Month, PhoneInv, TodoDue, PhoneTyped
<1>6. Phone!NoTaskAhead' /\ Phone!LoopContinues'
  BY <1>3 DEF Phone!Month, PhoneInv, Phone!NoTaskAhead, Phone!LoopContinues
<1> QED BY <1>2, <1>4, <1>5, <1>6 DEF PhoneInv

\* A sweep that starts reads the numbers that are due.
LEMMA StartKeeps == ASSUME PhoneHorizon \in Nat, PhoneInv, Phone!SweepStart PROVE PhoneInv'
<1>1. ASSUME NEW p \in Phones, Phone!Candidate(p) PROVE phone[p].next \in Phone!Months /\ phone[p].next <= now
  <2>1. phone[p].next \in Phone!Months \cup {Phone!Never} /\ now \in 0..PhoneHorizon
    BY DEF PhoneInv, PhoneTyped, PhoneRow
  <2>2. phone[p].next <= now
    BY <1>1 DEF Phone!Candidate
  <2> QED BY <2>1, <2>2, PhoneBounds
<1>2. sweep'.todo = {<<p, phone[p].next>> : p \in {q \in Phones : Phone!Candidate(q)}}
  BY DEF Phone!SweepStart
<1>3. \A c \in sweep'.todo : c \in Phones \X Phone!Months /\ c[2] <= now
  BY <1>1, <1>2
<1>4. sweep' \in [pc : {"idle", "create"}, todo : SUBSET (Phones \X Phone!Months)]
  BY <1>2, <1>3 DEF Phone!SweepStart
<1>5. PhoneTyped'
  BY <1>4 DEF Phone!SweepStart, PhoneInv, PhoneTyped
<1>6. TodoDue'
  BY <1>3 DEF Phone!SweepStart, TodoDue
<1> QED BY <1>5, <1>6 DEF Phone!SweepStart, PhoneInv, RequestsHold, Held, Phone!NoTaskAhead, Phone!LoopContinues

\* The sweep gives a due number its task, once.
LEMMA SweepKeeps == ASSUME PhoneHorizon \in Nat, PhoneInv, NEW c \in sweep.todo, Phone!SweepCreate(c) PROVE PhoneInv'
<1>1. c \in Phones \X Phone!Months /\ c[1] \in Phones /\ c[2] \in Phone!Months /\ c[2] <= now
  BY DEF PhoneInv, PhoneTyped, TodoDue
<1>2. sweep' = [sweep EXCEPT !.todo = @ \ {c}]
  BY DEF Phone!SweepCreate
<1>3. sweep' \in [pc : {"idle", "create"}, todo : SUBSET (Phones \X Phone!Months)] /\ sweep'.todo \subseteq sweep.todo
  BY <1>2 DEF PhoneInv, PhoneTyped
<1> DEFINE new == [Phone!Absent EXCEPT !.st = "DUE"]
<1>4. new \in PhoneTask /\ new.st = "DUE"
  BY DEF PhoneTask, Phone!Absent
<1>5. task' = task \/ task' = [task EXCEPT ![c[1]][c[2]] = new]
  BY DEF Phone!SweepCreate
<1> HIDE DEF new
<1>6. task' \in [Phones -> [Phone!Months -> PhoneTask]]
  BY <1>1, <1>4, <1>5, Written DEF PhoneInv, PhoneTyped
<1>7. \A p \in Phones, d \in Phone!Months :
        task'[p][d] = task[p][d] \/ (d <= now /\ task'[p][d].st \notin Phone!Closed)
  <2>1. CASE task' = task
    BY <2>1
  <2>2. CASE task' = [task EXCEPT ![c[1]][c[2]] = new]
    <3> DEFINE p == c[1]
               due == c[2]
    <3>1. p \in Phones /\ due \in Phone!Months /\ due <= now /\ task' = [task EXCEPT ![p][due] = new]
      BY <1>1, <2>2
    <3> HIDE DEF p, due
    <3>2. task'[p][due] = new
      BY <1>4, <3>1, Written DEF PhoneInv
    <3>3. \A q \in Phones, d \in Phone!Months : task'[q][d] = task[q][d] \/ (q = p /\ d = due)
      BY <1>4, <3>1, Written DEF PhoneInv
    <3>4. new.st \notin Phone!Closed
      BY <1>4 DEF Phone!Closed
    <3> QED BY <3>1, <3>2, <3>3, <3>4
  <2> QED BY <1>5, <2>1, <2>2
<1>8. Phone!NoTaskAhead' /\ Phone!LoopContinues'
  BY <1>7, TasksMove DEF Phone!SweepCreate
<1>9. PhoneTyped' /\ TodoDue' /\ RequestsHold'
  BY <1>3, <1>6 DEF Phone!SweepCreate, PhoneInv, PhoneTyped, TodoDue, RequestsHold, Held
<1> QED BY <1>8, <1>9 DEF PhoneInv

\* The sweep marks the tasks whose month has passed.
LEMMA FlipKeeps == ASSUME PhoneHorizon \in Nat, PhoneInv, Phone!SweepFlip PROVE PhoneInv'
<1>1. ASSUME NEW p \in Phones, NEW d \in Phone!Months
      PROVE  /\ Phone!Flipped(task[p][d], d) \in PhoneTask
             /\ Phone!Flipped(task[p][d], d) = task[p][d] \/ (d <= now /\ Phone!Flipped(task[p][d], d).st \notin Phone!Closed)
  <2>1. task[p][d] \in PhoneTask
    BY DEF PhoneInv, PhoneTyped
  <2>2. CASE task[p][d].st = "DUE" /\ d <= now
    <3> DEFINE left == [task[p][d] EXCEPT !.st = "OVERDUE"]
    <3>1. left \in PhoneTask /\ left.st = "OVERDUE"
      BY <2>1 DEF PhoneTask
    <3>2. Phone!Flipped(task[p][d], d) = left
      BY <2>2 DEF Phone!Flipped
    <3> QED BY <2>2, <3>1, <3>2 DEF Phone!Closed
  <2>3. CASE ~(task[p][d].st = "DUE" /\ d <= now)
    <3>1. Phone!Flipped(task[p][d], d) = task[p][d]
      BY <2>3 DEF Phone!Flipped
    <3> QED BY <2>1, <3>1
  <2> QED BY <2>2, <2>3
<1>2. task' \in [Phones -> [Phone!Months -> PhoneTask]]
  BY <1>1 DEF Phone!SweepFlip
<1>3. \A p \in Phones, d \in Phone!Months :
        task'[p][d] = task[p][d] \/ (d <= now /\ task'[p][d].st \notin Phone!Closed)
  BY <1>1 DEF Phone!SweepFlip
<1>4. Phone!NoTaskAhead' /\ Phone!LoopContinues'
  BY <1>3, TasksMove DEF Phone!SweepFlip
<1>5. sweep' \in [pc : {"idle", "create"}, todo : SUBSET (Phones \X Phone!Months)] /\ sweep'.todo = {}
  BY DEF Phone!SweepFlip, Phone!IdleSweep
<1>6. PhoneTyped' /\ TodoDue' /\ RequestsHold'
  BY <1>2, <1>5 DEF Phone!SweepFlip, PhoneInv, PhoneTyped, TodoDue, RequestsHold, Held
<1> QED BY <1>4, <1>6 DEF PhoneInv
-----------------------------------------------------------------------------
(* The requests of operators.                                              *)

\* A request is set back, or not touched, and the rest of what it holds stays.
LEMMA RequestsKept ==
  ASSUME PhoneHorizon \in Nat, PhoneInv, now' = now, UNCHANGED sweep,
         req' = req \/ \E r \in Callers : req' = [req EXCEPT ![r] = Phone!IdleReq]
  PROVE  req' \in [Callers -> PhoneReq] /\ RequestsHold' /\ TodoDue'
<1>1. Phone!IdleReq \in PhoneReq /\ Phone!IdleReq.pc = "idle"
  BY PhoneBounds DEF Phone!IdleReq, PhoneReq, PhoneTask, Phone!Absent
<1>2. req' \in [Callers -> PhoneReq] /\ \A r \in Callers : req'[r] = req[r] \/ req'[r].pc = "idle"
  BY <1>1 DEF PhoneInv, PhoneTyped
<1> QED BY <1>2 DEF PhoneInv, RequestsHold, Held, TodoDue

\* A completion remembers its task as it reads it, open.
LEMMA ReadKeeps ==
  ASSUME PhoneHorizon \in Nat, PhoneInv, NEW r \in Callers, NEW p \in Phones, NEW d \in 0..PhoneHorizon, NEW u \in Users,
         NEW network \in {"yes", "no"}, NEW topup \in {"yes", "no"},
         Phone!CompleteRead(r, p, d, u, network, topup)
  PROVE  PhoneInv'
<1> DEFINE left == Phone!Ticked(task[p][d], network, topup)
           seen == Phone!Marks(task[p][d])
           asks == Phone!Marks(Phone!Ticked(Phone!Absent, network, topup))
           new == [pc |-> "complete", p |-> p, due |-> d, user |-> u, row |-> left,
                   seen |-> seen, asks |-> asks]
<1>1. d \in Phone!Months /\ task[p][d] \in PhoneTask
  BY PhoneBounds DEF PhoneInv, PhoneTyped
<1>2. task[p][d].st \in {"DUE", "OVERDUE"} /\ d <= now
  BY <1>1 DEF Phone!CompleteRead, PhoneTask, PhoneInv, Phone!NoTaskAhead
<1>3. left \in PhoneTask /\ left.st = task[p][d].st
  BY <1>1 DEF PhoneTask, Phone!Ticked
<1>11. seen \subseteq Phone!Marks(left) /\ asks \subseteq Phone!Marks(left)
  <2>1. /\ left.network = IF network = "yes" THEN "yes" ELSE task[p][d].network
        /\ left.topup = IF topup = "yes" THEN "yes" ELSE task[p][d].topup
    BY <1>1 DEF Phone!Ticked, PhoneTask
  <2>2. seen \subseteq Phone!Marks(left)
    BY <1>2, <1>3, <2>1 DEF Phone!Marks, Phone!Boxes, Phone!Closed
  <2>3. /\ Phone!Ticked(Phone!Absent, network, topup).network = network
        /\ Phone!Ticked(Phone!Absent, network, topup).topup = topup
        /\ Phone!Ticked(Phone!Absent, network, topup).st = "absent"
    BY DEF Phone!Ticked, Phone!Absent
  <2>4. asks \subseteq Phone!Marks(left)
    BY <2>1, <2>3 DEF Phone!Marks, Phone!Boxes, Phone!Closed
  <2> QED BY <2>2, <2>4
<1>12. seen \in SUBSET AllMarks /\ asks \in SUBSET AllMarks
  BY MarksOf
<1>4. req' = [req EXCEPT ![r] = new]
  BY DEF Phone!CompleteRead
<1> HIDE DEF left, seen, asks
<1>5. new \in PhoneReq
  BY <1>1, <1>3, <1>12 DEF PhoneReq
<1>6. new.pc = "complete" /\ new.p = p /\ new.user = u /\ new.due = d /\ new.row = left
      /\ new.seen = seen /\ new.asks = asks
  OBVIOUS
<1> HIDE DEF new
<1>7. req' \in [Callers -> PhoneReq] /\ \A q \in Callers : req'[q] = IF q = r THEN new ELSE req[q]
  BY <1>4, <1>5 DEF PhoneInv, PhoneTyped
<1>8. Held(new)
  BY <1>2, <1>3, <1>6, <1>11 DEF Held
<1>9. RequestsHold'
  BY <1>7, <1>8 DEF PhoneInv, RequestsHold, Held, Phone!CompleteRead
<1>10. PhoneTyped' /\ TodoDue' /\ Phone!NoTaskAhead' /\ Phone!LoopContinues'
  BY <1>7 DEF Phone!CompleteRead, PhoneInv, PhoneTyped, TodoDue, Phone!NoTaskAhead, Phone!LoopContinues
<1> QED BY <1>9, <1>10 DEF PhoneInv

\* A task of which both actions are done moves its number on, in one transaction.
LEMMA TxKeeps == ASSUME PhoneHorizon \in Nat, PhoneInv, NEW r \in Callers, Phone!CompleteTx(r) PROVE PhoneInv'
<1> DEFINE q == req[r]
<1>1. q \in PhoneReq /\ q.pc = "complete" /\ q.p \in Phones /\ q.user \in Users /\ q.due \in Phone!Months /\ q.due <= now
      /\ q.row \in PhoneTask /\ q.row.st \in {"DUE", "OVERDUE"}
  BY DEF Phone!CompleteTx, PhoneInv, PhoneTyped, RequestsHold, Held, PhoneReq
<1>2. now' = now /\ UNCHANGED sweep /\ req' = [req EXCEPT ![r] = Phone!IdleReq]
  BY DEF Phone!CompleteTx
<1>3. req' \in [Callers -> PhoneReq] /\ RequestsHold' /\ TodoDue'
  BY <1>2, RequestsKept
<1>4. task' = [task EXCEPT ![q.p][q.due] = Phone!Finished(q)] /\ phone' = Phone!Moved(q)
      /\ edited' = IF Phone!BothDone(q.row) THEN edited \ {q.p} ELSE edited
  BY DEF Phone!CompleteTx
<1>9. said' \in [Phones -> [Phone!Months -> SUBSET AllMarks]]
  <2> DEFINE left == IF Phone!Marks(task[q.p][q.due]) = q.seen
                     THEN said[q.p][q.due] \cup q.asks \cup (Phone!Marks(Phone!Finished(q)) \cap {"closed"})
                     ELSE Phone!Marks(Phone!Finished(q))
  <2>1. left \in SUBSET AllMarks
    BY <1>1, MarksOf DEF PhoneInv, PhoneTyped, PhoneReq
  <2>2. said' = [said EXCEPT ![q.p][q.due] = left]
    BY DEF Phone!CompleteTx
  <2> HIDE DEF left
  <2> QED BY <1>1, <2>1, <2>2 DEF PhoneInv, PhoneTyped
<1> HIDE DEF q
<1>5. Phone!Finished(q) \in PhoneTask
  BY <1>1 DEF Phone!Finished, PhoneTask, Phone!Closed
<1>6. /\ task' \in [Phones -> [Phone!Months -> PhoneTask]]
      /\ task'[q.p][q.due] = Phone!Finished(q)
      /\ \A p \in Phones, d \in Phone!Months : task'[p][d] = task[p][d] \/ (p = q.p /\ d = q.due)
  BY <1>1, <1>4, <1>5, Written DEF PhoneInv
<1>7. CASE Phone!BothDone(q.row)
  <2>1. Phone!NextCycle \in Phone!Months /\ phone \in [Phones -> PhoneRow]
    BY PhoneBounds DEF PhoneInv, PhoneTyped, Phone!NextCycle
  <2>2. phone' = [phone EXCEPT ![q.p].next = Phone!NextCycle]
    BY <1>4, <1>7 DEF Phone!Moved
  <2>3. phone' \in [Phones -> PhoneRow] /\ phone'[q.p].next = Phone!NextCycle /\ \A p \in Phones \ {q.p} : phone'[p] = phone[p]
    BY <1>1, <2>1, <2>2 DEF PhoneRow
  <2>4. Phone!NoTaskAhead' /\ Phone!LoopContinues'
    BY <1>1, <1>2, <1>4, <1>6, <1>7, <2>3, DateMoves
  <2> QED BY <1>2, <1>3, <1>4, <1>6, <1>7, <1>9, <2>3, <2>4 DEF PhoneInv, PhoneTyped
<1>8. CASE ~Phone!BothDone(q.row)
  <2>1. phone' = phone /\ edited' = edited
    BY <1>4, <1>8 DEF Phone!Moved
  <2>2. Phone!Finished(q).st \notin Phone!Closed
    BY <1>1, <1>8 DEF Phone!Finished, Phone!Closed, PhoneTask
  <2>3. Phone!NoTaskAhead' /\ Phone!LoopContinues'
    <3>1. \A p \in Phones, d \in Phone!Months : task'[p][d] = task[p][d] \/ (d <= now /\ task'[p][d].st \notin Phone!Closed)
      BY <1>1, <1>6, <2>2
    <3>2. \A p \in Phones \ edited' : p \notin edited /\ phone'[p].next = phone[p].next
      BY <2>1
    <3> QED BY <1>2, <3>1, <3>2, TasksMove
  <2> QED BY <1>2, <1>3, <1>6, <1>9, <2>1, <2>3 DEF PhoneInv, PhoneTyped
<1> QED BY <1>7, <1>8

\* A skipped task moves the number to its next month.
LEMMA SkipKeeps ==
  ASSUME PhoneHorizon \in Nat, PhoneInv, NEW p \in Phones, NEW d \in 0..PhoneHorizon, NEW u \in Users, Phone!Skip(p, d, u)
  PROVE  PhoneInv'
<1>1. d \in Phone!Months /\ task[p][d] \in PhoneTask
  BY PhoneBounds DEF PhoneInv, PhoneTyped
<1>2. d <= now /\ now' = now /\ UNCHANGED <<sweep, req>> /\ edited' = edited \ {p}
  BY <1>1 DEF Phone!Skip, PhoneInv, Phone!NoTaskAhead
<1> DEFINE left == [task[p][d] EXCEPT !.st = "SKIPPED", !.by = u]
<1>3. left \in PhoneTask
  BY <1>1 DEF PhoneTask, Phone!Closed
<1>4. task' = [task EXCEPT ![p][d] = left]
  BY <1>1 DEF Phone!Skip, PhoneInv, PhoneTyped
<1> HIDE DEF left
<1>5. /\ task' \in [Phones -> [Phone!Months -> PhoneTask]]
      /\ \A q \in Phones, e \in Phone!Months : task'[q][e] = task[q][e] \/ (q = p /\ e = d)
  BY <1>1, <1>3, <1>4, Written DEF PhoneInv
<1>6. Phone!NextCycle \in Phone!Months /\ phone \in [Phones -> PhoneRow]
  BY PhoneBounds DEF PhoneInv, PhoneTyped, Phone!NextCycle
<1>7. phone' \in [Phones -> PhoneRow] /\ phone'[p].next = Phone!NextCycle /\ \A q \in Phones \ {p} : phone'[q] = phone[q]
  BY <1>6 DEF Phone!Skip, PhoneRow
<1>8. Phone!NoTaskAhead' /\ Phone!LoopContinues'
  BY <1>1, <1>2, <1>5, <1>7, DateMoves
<1>9. RequestsHold' /\ TodoDue'
  BY <1>2, RequestsKept
<1>10. said' \in [Phones -> [Phone!Months -> SUBSET AllMarks]]
  BY <1>1 DEF Phone!Skip, PhoneInv, PhoneTyped, AllMarks
<1> QED BY <1>2, <1>5, <1>7, <1>8, <1>9, <1>10 DEF PhoneInv, PhoneTyped

\* The number itself is changed; its date only by an operator who says so.
LEMMA PhoneKeeps ==
  ASSUME PhoneHorizon \in Nat, PhoneInv, NEW p \in Phones, NEW new \in PhoneRow, phone' = [phone EXCEPT ![p] = new],
         edited' = IF new.next = phone[p].next THEN edited ELSE edited \cup {p},
         UNCHANGED <<now, task, sweep, req, said>>
  PROVE  PhoneInv'
<1>1. phone' \in [Phones -> PhoneRow] /\ \A q \in Phones : phone'[q] = IF q = p THEN new ELSE phone[q]
  BY DEF PhoneInv, PhoneTyped
<1>2. \A q \in Phones \ edited' : q \notin edited /\ phone'[q].next = phone[q].next
  BY <1>1
<1>3. Phone!NoTaskAhead' /\ Phone!LoopContinues'
  <2>1. \A q \in Phones, d \in Phone!Months : task'[q][d] = task[q][d] \/ (d <= now /\ task'[q][d].st \notin Phone!Closed)
    OBVIOUS
  <2> QED BY <1>2, <2>1, TasksMove
<1>4. RequestsHold' /\ TodoDue'
  BY RequestsKept
<1> QED BY <1>1, <1>3, <1>4 DEF PhoneInv, PhoneTyped

\* An edited number keeps its loop, or restarts it in the present month.
LEMMA EditKeeps ==
  ASSUME PhoneHorizon \in Nat, PhoneInv, NEW p \in Phones, NEW next \in {phone[p].next, now, Phone!Never}, NEW st \in {"ACTIVE", "HOLD"},
         Phone!Edit(p, st, "yes", next)
  PROVE  PhoneInv'
<1> DEFINE new == [st |-> st, required |-> "yes", next |-> next]
<1>1. next \in Phone!Months \cup {Phone!Never}
  BY PhoneBounds DEF PhoneInv, PhoneTyped, PhoneRow
<1>2. new \in PhoneRow /\ new.next = next
  BY <1>1 DEF PhoneRow
<1>3. phone' = [phone EXCEPT ![p] = new] /\ UNCHANGED <<now, task, sweep, req, said>>
      /\ edited' = IF next = phone[p].next THEN edited ELSE edited \cup {p}
  BY DEF Phone!Edit
<1> HIDE DEF new
<1> QED BY <1>2, <1>3, PhoneKeeps

\* A number whose maintenance is switched off owes no task.
LEMMA DisableKeeps == ASSUME PhoneHorizon \in Nat, PhoneInv, NEW p \in Phones, Phone!Disable(p) PROVE PhoneInv'
<1> DEFINE new == [phone[p] EXCEPT !.st = "DISABLED", !.required = "no"]
<1>1. phone[p] \in PhoneRow /\ phone \in [Phones -> PhoneRow]
  BY DEF PhoneInv, PhoneTyped
<1>2. new \in PhoneRow /\ new.next = phone[p].next
  BY <1>1 DEF PhoneRow
<1>3. phone' = [phone EXCEPT ![p] = new] /\ UNCHANGED <<now, task, sweep, req, edited, said>>
  BY <1>1 DEF Phone!Disable
<1> HIDE DEF new
<1> QED BY <1>2, <1>3, PhoneKeeps

-----------------------------------------------------------------------------

\* The invariant is inductive.
LEMMA PhoneStep == ASSUME PhoneHorizon \in Nat PROVE PhoneInv /\ [Phone!Next]_(Phone!vars) => PhoneInv'
<1> SUFFICES ASSUME PhoneInv, [Phone!Next]_(Phone!vars) PROVE PhoneInv'
  OBVIOUS
<1>1. CASE UNCHANGED Phone!vars
  BY <1>1 DEF Phone!vars, PhoneInv, PhoneTyped, RequestsHold, Held, TodoDue, Phone!NoTaskAhead, Phone!LoopContinues
<1>2. CASE Phone!SweepCreates
  BY <1>2, SweepKeeps DEF Phone!SweepCreates
<1> QED BY <1>1, <1>2, MonthKeeps, StartKeeps, FlipKeeps, ReadKeeps, TxKeeps, SkipKeeps, EditKeeps, DisableKeeps DEF Phone!Next

\* What is said of a task stands, and nothing is said of one that is not there.
Blank == \A p \in Phones, d \in Phone!Months : task[p][d].st = "absent" => said[p][d] = {}
TicksHeld == Phone!TicksStand /\ Blank

\* A task that is written shows at least what is said of it.
LEMMA Shown ==
  ASSUME PhoneTyped, TicksHeld, NEW p \in Phones, NEW due \in Phone!Months, NEW left \in PhoneTask, NEW marks,
         task' = [task EXCEPT ![p][due] = left], said' = [said EXCEPT ![p][due] = marks],
         marks \subseteq Phone!Marks(left), left.st # "absent"
  PROVE  TicksHeld'
<1>1. task'[p][due] = left /\ \A q \in Phones, d \in Phone!Months : task'[q][d] = task[q][d] \/ (q = p /\ d = due)
  BY Written
<1>2. said'[p][due] = marks
  BY DEF PhoneTyped
<1>3. \A q \in Phones, d \in Phone!Months : ~(q = p /\ d = due) => said'[q][d] = said[q][d]
  BY DEF PhoneTyped
<1>4. ASSUME NEW q \in Phones, NEW d \in Phone!Months
      PROVE  said'[q][d] \subseteq Phone!Marks(task'[q][d]) /\ (task'[q][d].st = "absent" => said'[q][d] = {})
  <2>1. CASE q = p /\ d = due
    BY <1>1, <1>2, <2>1
  <2>2. CASE ~(q = p /\ d = due)
    BY <1>1, <1>3, <2>2 DEF TicksHeld, Phone!TicksStand, Blank
  <2> QED BY <2>1, <2>2
<1> QED BY <1>4 DEF TicksHeld, Phone!TicksStand, Blank, Phone!Marks, Phone!Boxes, Phone!Closed

\* A completion that found its task as it had read it adds to what is said of
\* it; one that did not says what it writes.
LEMMA TxShows == ASSUME PhoneHorizon \in Nat, PhoneInv, TicksHeld, NEW r \in Callers, Phone!CompleteTx(r) PROVE TicksHeld'
<1> DEFINE q == req[r]
           marks == IF Phone!Marks(task[q.p][q.due]) = q.seen
                    THEN said[q.p][q.due] \cup q.asks \cup (Phone!Marks(Phone!Finished(q)) \cap {"closed"})
                    ELSE Phone!Marks(Phone!Finished(q))
<1>1. q \in PhoneReq /\ q.p \in Phones /\ q.due \in Phone!Months /\ q.row \in PhoneTask /\ q.row.st \in {"DUE", "OVERDUE"}
      /\ q.seen \subseteq Phone!Marks(q.row) /\ q.asks \subseteq Phone!Marks(q.row)
  BY DEF Phone!CompleteTx, PhoneInv, PhoneTyped, RequestsHold, Held, PhoneReq
<1>2. Phone!Marks(q.row) \subseteq Phone!Marks(Phone!Finished(q))
  BY <1>1, FinishedShows
<1>3. said[q.p][q.due] \subseteq Phone!Marks(task[q.p][q.due])
  BY <1>1 DEF TicksHeld, Phone!TicksStand
<1>4. marks \subseteq Phone!Marks(Phone!Finished(q))
  BY <1>1, <1>2, <1>3
<1>5. q.user \in Users
  BY DEF Phone!CompleteTx, PhoneInv, PhoneTyped, RequestsHold, Held
<1>7. task' = [task EXCEPT ![q.p][q.due] = Phone!Finished(q)] /\ said' = [said EXCEPT ![q.p][q.due] = marks]
  BY DEF Phone!CompleteTx
<1> HIDE DEF q, marks
<1>6. Phone!Finished(q) \in PhoneTask
  BY <1>1, <1>5 DEF Phone!Finished, PhoneTask, Phone!Closed
<1>8. Phone!Finished(q).st # "absent"
  BY <1>1 DEF Phone!Finished, PhoneTask, Phone!Closed
<1> QED BY <1>1, <1>4, <1>6, <1>7, <1>8, Shown DEF PhoneInv

\* A task that is skipped keeps its boxes and is closed.
LEMMA SkipShows ==
  ASSUME PhoneHorizon \in Nat, PhoneInv, TicksHeld, NEW p \in Phones, NEW d \in 0..PhoneHorizon, NEW u \in Users, Phone!Skip(p, d, u)
  PROVE  TicksHeld'
<1> DEFINE left == [task[p][d] EXCEPT !.st = "SKIPPED", !.by = u]
           marks == said[p][d] \cup {"closed"}
<1>1. d \in Phone!Months /\ task[p][d] \in PhoneTask
  BY PhoneBounds DEF PhoneInv, PhoneTyped
<1>2. left \in PhoneTask
  BY <1>1 DEF PhoneTask, Phone!Closed
<1>3. task' = [task EXCEPT ![p][d] = left] /\ said' = [said EXCEPT ![p][d] = marks]
  BY <1>1 DEF Phone!Skip, PhoneInv, PhoneTyped
<1>4. marks \subseteq Phone!Marks(left)
  BY <1>1 DEF TicksHeld, Phone!TicksStand, Phone!Marks, Phone!Boxes, Phone!Closed, PhoneTask
<1>5. left.st # "absent"
  BY <1>1 DEF PhoneTask
<1> HIDE DEF left, marks
<1> QED BY <1>1, <1>2, <1>3, <1>4, <1>5, Shown DEF PhoneInv

\* The sweep adds tasks and marks them overdue, and ticks nothing.
LEMMA SweepShows == ASSUME PhoneInv, TicksHeld, Phone!SweepCreates \/ Phone!SweepFlip PROVE TicksHeld'
<1>1. \A p \in Phones, d \in Phone!Months :
        \/ said[p][d] = {}
        \/ Phone!Marks(task[p][d]) \subseteq Phone!Marks(task'[p][d]) /\ task'[p][d].st # "absent"
  <2>1. CASE Phone!SweepFlip
    <3> SUFFICES ASSUME NEW p \in Phones, NEW d \in Phone!Months, task[p][d].st # "absent"
                 PROVE  /\ Phone!Marks(task[p][d]) \subseteq Phone!Marks(Phone!Flipped(task[p][d], d))
                        /\ Phone!Flipped(task[p][d], d).st # "absent"
      BY <2>1 DEF Phone!SweepFlip, TicksHeld, Blank
    <3>1. task[p][d] \in PhoneTask
      BY DEF PhoneInv, PhoneTyped
    <3> QED BY <3>1 DEF Phone!Flipped, Phone!Marks, Phone!Boxes, Phone!Closed, PhoneTask
  <2>2. CASE Phone!SweepCreates
    <3>1. PICK c \in sweep.todo : Phone!SweepCreate(c)
      BY <2>2 DEF Phone!SweepCreates
    <3> DEFINE p == c[1]
               due == c[2]
               new == [Phone!Absent EXCEPT !.st = "DUE"]
    <3>2. new \in PhoneTask /\ p \in Phones /\ due \in Phone!Months
      BY DEF PhoneTask, Phone!Absent, PhoneInv, PhoneTyped
    <3>3. task' = task \/ (task' = [task EXCEPT ![p][due] = new] /\ task[p][due].st = "absent")
      BY <3>1 DEF Phone!SweepCreate
    <3> HIDE DEF p, due, new
    <3>4. \A q \in Phones, d \in Phone!Months :
            task'[q][d] = task[q][d] \/ (q = p /\ d = due /\ task[p][due].st = "absent")
      BY <3>2, <3>3, Written DEF PhoneInv
    <3> QED BY <3>2, <3>4 DEF TicksHeld, Blank
  <2> QED BY <2>1, <2>2
<1>2. said' = said
  BY DEF Phone!SweepCreates, Phone!SweepCreate, Phone!SweepFlip
<1>3. ASSUME NEW p \in Phones, NEW d \in Phone!Months
      PROVE  said[p][d] \subseteq Phone!Marks(task'[p][d]) /\ (task'[p][d].st = "absent" => said[p][d] = {})
  BY <1>1 DEF TicksHeld, Phone!TicksStand
<1> QED BY <1>2, <1>3 DEF TicksHeld, Phone!TicksStand, Blank, Phone!Marks, Phone!Boxes, Phone!Closed

\* What operators have done to a task stands through every step.
LEMMA TicksStep == ASSUME PhoneHorizon \in Nat PROVE PhoneInv /\ TicksHeld /\ [Phone!Next]_(Phone!vars) => TicksHeld'
<1> SUFFICES ASSUME PhoneInv, TicksHeld, [Phone!Next]_(Phone!vars) PROVE TicksHeld'
  OBVIOUS
<1>1. CASE UNCHANGED <<task, said>>
  BY <1>1 DEF TicksHeld, Phone!TicksStand, Blank, Phone!Marks, Phone!Boxes, Phone!Closed
<1>2. CASE UNCHANGED Phone!vars
  BY <1>1, <1>2 DEF Phone!vars
<1>3. ASSUME Phone!Month \/ Phone!SweepStart PROVE UNCHANGED <<task, said>>
  BY <1>3 DEF Phone!Month, Phone!SweepStart
<1>4. ASSUME NEW r \in Callers, NEW p \in Phones, NEW d \in 0..PhoneHorizon, NEW u \in Users,
             NEW network \in {"yes", "no"}, NEW topup \in {"yes", "no"}, Phone!CompleteRead(r, p, d, u, network, topup)
      PROVE  UNCHANGED <<task, said>>
  BY <1>4 DEF Phone!CompleteRead
<1>5. ASSUME NEW p \in Phones, Phone!Disable(p) \/ \E next, st : Phone!Edit(p, st, "yes", next) PROVE UNCHANGED <<task, said>>
  BY <1>5 DEF Phone!Disable, Phone!Edit
<1> QED BY <1>1, <1>2, <1>3, <1>4, <1>5, TxShows, SkipShows, SweepShows DEF Phone!Next

\* The maintenance loop of a number neither ends nor runs ahead of its date:
\* no closed task holds the date that its phone would have next, and none is
\* opened before its month; and what an operator has ticked or closed stands
\* unless a completion wrote over a row it had not read so (ensureTasks,
\* complete, skip, update, disable).
LEMMA LoopIsSound == ASSUME PhoneHorizon \in Nat PROVE Phone!Spec => []Phone!LoopSound
<1>1. PhoneInv /\ TicksHeld => Phone!LoopSound
  BY DEF PhoneInv, TicksHeld, Phone!LoopSound
<1>2. Phone!Init => TicksHeld
  BY DEF Phone!Init, TicksHeld, Phone!TicksStand, Blank
<1> QED BY <1>1, <1>2, PhoneInit, PhoneStep, TicksStep, PTL DEF Phone!Spec

\* Every variable of the maintenance keeps its type.
LEMMA PhoneTypes == ASSUME PhoneHorizon \in Nat PROVE Phone!Spec => []Phone!TypeOK
<1>1. PhoneInv => Phone!TypeOK
  BY PhoneTypesFollow DEF PhoneInv
<1> QED BY <1>1, PhoneInit, PhoneStep, PTL DEF Phone!Spec

Reminders == INSTANCE CallReminder WITH
    Requests <- StatusRequests, Horizon <- CallHorizon

ReminderLimits ==
    /\ "-" \notin Calls /\ Slots \subseteq Nat /\ CallHorizon \in Nat
    /\ StatusRequests \subseteq {"same", "scheduled", "cancelled", "completed"}

CallRow == [st : Reminders!Status, at : Nat, anchor : Nat, version : Nat]
ReadRow == [id : Calls, at : Nat, anchor : Nat, version : Nat]
TickRow ==
    [pc : {"idle", "query", "each", "event"}, w : Reminders!Windows, now : Nat, batch : SUBSET ReadRow,
     cur : {Reminders!NoRow} \union ReadRow]
OpRow ==
    [pc : {"tx"}, id : Calls, at : {0} \union Slots, st : StatusRequests, changed : {"yes", "no"},
     cancels : {"yes", "no"}, since : Nat]

ReminderTyped ==
    /\ clock \in 0..CallHorizon /\ up \in {"on", "off"} /\ missed \in Nat /\ faults \in Nat
    /\ call \in [Calls -> CallRow]
    /\ stamps \subseteq Calls \X Reminders!Windows /\ hurt \subseteq Calls \X Reminders!Windows
    /\ tick \in TickRow
    /\ sent \in [Calls -> [Reminders!Windows -> Nat]]
    /\ notices \subseteq Calls \X {"rescheduled", "cancelled"} \X Nat
    /\ op \in [Operators -> {Reminders!IdleOp} \union OpRow]

\* What an update has read still counts when it writes, at most one boundary later.
ReadInTime(u) ==
    u.pc = "tx" =>
        /\ u.since <= clock /\ clock <= u.since + 1
        /\ u.changed = "yes" => u.at # 0
        /\ u.changed = "yes" /\ u.st \notin {"cancelled", "completed"} => u.at >= u.since + Reminders!MinNotice
UpdatesInTime == \A o \in Operators : ReadInTime(op[o])

\* A tick holds rows only while it goes through them; one that is still at work after a
\* boundary has made each boundary since then a missed one.
TickSays ==
    /\ tick.pc \in {"idle", "query"} => tick.batch = {}
    /\ tick.pc \in {"idle", "query", "each"} => tick.cur = Reminders!NoRow
    /\ tick.pc = "event" => tick.cur \in ReadRow
    /\ tick.pc # "idle" => tick.now <= clock /\ clock <= tick.now + missed

\* A row in the hands of the tick is the present one, or the race is on record.
InHands(r) == r \in tick.batch \/ r = tick.cur
RowsKnown ==
    \A r \in ReadRow :
        InHands(r) => /\ call[r.id].st # "none" /\ r.version <= call[r.id].version
                      /\ r.version # call[r.id].version => \A w \in Reminders!Windows : <<r.id, w>> \in hurt

\* The tick is between the stamp of the reminder and its event.
Telling(c, w) == tick.pc = "event" /\ tick.cur.id = c /\ tick.w = w
Gone(c) == call[c].st = "deleted"

\* Its stamp stands, unless the call has been moved or deleted since.
ToldIsStamped ==
    \A c \in Calls, w \in Reminders!Windows :
        Telling(c, w) => <<c, w>> \in stamps \/ Gone(c) \/ tick.cur.version # call[c].version

\* One reminder for a stamp, and one for each fault.
SentCount ==
    \A c \in Calls, w \in Reminders!Windows :
        /\ sent[c][w] <= faults + 1
        /\ Telling(c, w) \/ (<<c, w>> \notin stamps /\ ~Gone(c)) => sent[c][w] <= faults

\* Whoever sets the time of a scheduled call does so fifteen minutes ahead.
SetInTime ==
    \A c \in Calls :
        call[c].st = "scheduled" =>
            call[c].at >= call[c].anchor + 3 \/ \A w \in Reminders!Windows : <<c, w>> \in hurt

\* The last boundary at which no tick may send the reminder yet, and the last one at all.
Before(c, w) ==
    IF call[c].at <= call[c].anchor + Reminders!Offset[w] + Reminders!Period THEN call[c].anchor
    ELSE call[c].at - Reminders!Offset[w] - Reminders!Period - 1
Last(c, w) == Reminders!LastTick(w, call[c].at)

\* The reminder is owed: neither sent nor spoiled.
Owed(c, w) ==
    /\ call[c].st = "scheduled" /\ call[c].at - call[c].anchor >= Reminders!Offset[w]
    /\ <<c, w>> \notin hurt /\ sent[c][w] = 0
\* The tick at work will still come to it.
Coming(c, w) ==
    /\ tick.pc # "idle"
    /\ tick.now > Before(c, w) /\ tick.now <= Last(c, w)
    /\ \/ tick.w = "min60" /\ w = "min10"
       \/ tick.w = w /\ \/ tick.pc = "query"
                        \/ \E r \in ReadRow : InHands(r) /\ r.id = c
\* Each tick that did not send an owed reminder has been missed.
ChancesCount ==
    \A c \in Calls, w \in Reminders!Windows :
        Owed(c, w) =>
            /\ ~Coming(c, w) => clock <= Before(c, w) + missed \/ Last(c, w) <= Before(c, w) + missed
            /\ Coming(c, w) => clock <= Before(c, w) + missed + 1

ReminderSound ==
    /\ RowsKnown /\ ToldIsStamped /\ SentCount /\ SetInTime /\ ChancesCount /\ Reminders!StampEarned
    /\ Reminders!MoveAnnounced
ReminderInv == ReminderTyped /\ UpdatesInTime /\ TickSays /\ ReminderSound

\* With no call and no tick the invariant holds.
LEMMA ReminderInit == ASSUME ReminderLimits PROVE Reminders!Init => ReminderInv
<1> SUFFICES ASSUME Reminders!Init PROVE ReminderInv
  OBVIOUS
<1>1. /\ \A c \in Calls : call[c] = Reminders!NoCall /\ call[c].st = "none" /\ call[c].version = 0
      /\ tick = Reminders!IdleTick /\ tick.pc = "idle" /\ tick.batch = {} /\ tick.cur = Reminders!NoRow /\ tick.w = "min60"
      /\ \A o \in Operators : op[o] = Reminders!IdleOp /\ op[o].pc = "idle"
      /\ \A c \in Calls, w \in Reminders!Windows : sent[c][w] = 0
      /\ stamps = {} /\ faults = 0
  BY DEF Reminders!Init, Reminders!NoCall, Reminders!IdleTick, Reminders!IdleOp
<1>2. ReminderTyped
  <2>1. call \in [Calls -> CallRow]
    BY DEF Reminders!Init, Reminders!NoCall, CallRow, Reminders!Status
  <2>2. tick \in TickRow
    BY DEF Reminders!Init, Reminders!IdleTick, TickRow, Reminders!Windows
  <2>3. sent \in [Calls -> [Reminders!Windows -> Nat]]
    BY DEF Reminders!Init
  <2> QED BY <2>1, <2>2, <2>3 DEF Reminders!Init, ReminderTyped, ReminderLimits
<1>3. Reminders!NoRow \notin ReadRow
  BY DEF ReminderLimits, ReadRow, Reminders!NoRow
<1>4. UpdatesInTime /\ TickSays
  BY <1>1 DEF UpdatesInTime, ReadInTime, TickSays
<1>5. RowsKnown
  BY <1>1, <1>3 DEF RowsKnown, InHands
<1>6. ToldIsStamped /\ SentCount /\ Reminders!StampEarned
  BY <1>1 DEF ToldIsStamped, SentCount, Reminders!StampEarned, Telling
<1>7. SetInTime /\ Reminders!MoveAnnounced
  BY <1>1 DEF SetInTime, Reminders!MoveAnnounced
<1>8. ChancesCount
  BY <1>1 DEF ChancesCount, Owed
<1> QED BY <1>2, <1>4, <1>5, <1>6, <1>7, <1>8 DEF ReminderInv, ReminderSound

\* The tick after the rows b that are left of its window.
LEMMA RestSays ==
    ASSUME ReminderTyped, TickSays, tick.pc \in {"each", "event"}, NEW b \in SUBSET tick.batch
    PROVE  /\ Reminders!Rest(b) \in TickRow
           /\ Reminders!Rest(b).pc \in {"idle", "query", "each"} /\ Reminders!Rest(b).cur = Reminders!NoRow
           /\ Reminders!Rest(b).pc \in {"idle", "query"} => Reminders!Rest(b).batch = {} /\ b = {}
           /\ Reminders!Rest(b).pc = "each" => Reminders!Rest(b).batch = b /\ Reminders!Rest(b).w = tick.w
           /\ Reminders!Rest(b).pc = "query" => tick.w = "min60" /\ Reminders!Rest(b).w = "min10"
           /\ Reminders!Rest(b).pc # "idle" => Reminders!Rest(b).now = tick.now
           /\ Reminders!Rest(b).pc = "idle" => tick.w = "min10"
<1>1. /\ tick \in TickRow /\ tick.w \in Reminders!Windows /\ tick.now \in Nat /\ tick.batch \in SUBSET ReadRow
  BY DEF ReminderTyped, TickRow
<1>2. CASE b # {}
  <2>1. Reminders!Rest(b) = [tick EXCEPT !.pc = "each", !.batch = b, !.cur = Reminders!NoRow]
    BY <1>2 DEF Reminders!Rest
  <2> QED BY <1>1, <1>2, <2>1 DEF TickRow
<1>3. CASE b = {} /\ tick.w = "min60"
  <2>1. Reminders!Rest(b) = [Reminders!IdleTick EXCEPT !.pc = "query", !.w = "min10", !.now = tick.now]
    BY <1>3 DEF Reminders!Rest, Reminders!AfterWindow
  <2>2. Reminders!Rest(b) = [pc |-> "query", w |-> "min10", now |-> tick.now, batch |-> {}, cur |-> Reminders!NoRow]
    BY <2>1 DEF Reminders!IdleTick
  <2> QED BY <1>1, <1>3, <2>2 DEF TickRow, Reminders!Windows
<1>4. CASE b = {} /\ tick.w # "min60"
  <2>1. Reminders!Rest(b) = Reminders!IdleTick
    BY <1>4 DEF Reminders!Rest, Reminders!AfterWindow
  <2> QED BY <1>1, <1>4, <2>1 DEF TickRow, Reminders!Windows, Reminders!IdleTick
<1> QED BY <1>2, <1>3, <1>4

\* The types survive every step.
LEMMA ReminderTypes == ASSUME ReminderLimits, ReminderTyped, TickSays, [Reminders!Next]_(Reminders!vars) PROVE ReminderTyped'
<1>1. /\ clock \in 0..CallHorizon /\ up \in {"on", "off"} /\ missed \in Nat /\ faults \in Nat
      /\ call \in [Calls -> CallRow] /\ tick \in TickRow /\ sent \in [Calls -> [Reminders!Windows -> Nat]]
      /\ op \in [Operators -> {Reminders!IdleOp} \union OpRow]
      /\ stamps \subseteq Calls \X Reminders!Windows /\ hurt \subseteq Calls \X Reminders!Windows
      /\ notices \subseteq Calls \X {"rescheduled", "cancelled"} \X Nat
      /\ Slots \subseteq Nat /\ CallHorizon \in Nat
  BY DEF ReminderTyped, ReminderLimits
<1>2. /\ tick.w \in Reminders!Windows /\ tick.now \in Nat /\ tick.batch \in SUBSET ReadRow
  BY <1>1 DEF TickRow
<1>3. ASSUME NEW c \in Calls PROVE call[c].at \in Nat /\ call[c].anchor \in Nat /\ call[c].version \in Nat /\ call[c].st \in Reminders!Status
  BY <1>1 DEF CallRow
<1>4. ASSUME NEW c \in Calls, NEW at \in Slots, Reminders!Create(c, at) PROVE ReminderTyped'
  <2>1. [st |-> "scheduled", at |-> at, anchor |-> clock, version |-> 0] \in CallRow
    BY <1>1 DEF CallRow, Reminders!Status
  <2>2. call' \in [Calls -> CallRow]
    BY <1>1, <1>4, <2>1 DEF Reminders!Create
  <2> QED BY <1>1, <1>4, <2>2 DEF Reminders!Create, Reminders!faultVars, ReminderTyped
<1>5. ASSUME NEW o \in Operators, NEW c \in Calls, NEW at \in Slots \cup {0}, NEW st \in StatusRequests,
             Reminders!UpdateRead(o, c, at, st)
      PROVE  ReminderTyped'
  <2> DEFINE changed == at # 0 /\ at # call[c].at
             u == [pc |-> "tx", id |-> c, at |-> at, st |-> st,
                   changed |-> IF changed THEN "yes" ELSE "no",
                   cancels |-> IF st = "cancelled" /\ call[c].st # "cancelled" THEN "yes" ELSE "no",
                   since |-> clock]
  <2>1. u \in OpRow
    BY <1>1 DEF OpRow
  <2>2. op' = [op EXCEPT ![o] = u]
    BY <1>5 DEF Reminders!UpdateRead
  <2>3. op' \in [Operators -> {Reminders!IdleOp} \union OpRow]
    <3> HIDE DEF u
    <3> QED BY <1>1, <2>1, <2>2
  <2> QED BY <1>1, <1>5, <2>3 DEF Reminders!UpdateRead, Reminders!faultVars, ReminderTyped
<1>6. ASSUME NEW o \in Operators, Reminders!UpdateTx(o) PROVE ReminderTyped'
  <2>1. op[o] \in OpRow
    BY <1>1, <1>6 DEF Reminders!UpdateTx, Reminders!IdleOp
  <2>2. PICK u \in OpRow : u = op[o]
    BY <2>1
  <2>3. /\ u.id \in Calls /\ u.at \in {0} \union Slots
    BY DEF OpRow
  <2>4. /\ clock' = clock /\ up' = up /\ tick' = tick /\ missed' = missed
        /\ op' = [op EXCEPT ![o] = Reminders!IdleOp]
    BY <1>6 DEF Reminders!UpdateTx
  <2>5. op' \in [Operators -> {Reminders!IdleOp} \union OpRow]
    BY <1>1, <2>4
  <2>6. CASE ~Reminders!Exists(u.id)
    <3>1. UNCHANGED <<call, stamps, sent, notices, hurt, faults>>
      BY <1>6, <2>2, <2>6 DEF Reminders!UpdateTx
    <3> QED BY <1>1, <2>4, <2>5, <3>1 DEF ReminderTyped
  <2>7. CASE Reminders!Exists(u.id)
    <3>1. /\ call' = [call EXCEPT ![u.id] = Reminders!Rewritten(u.id, u)]
          /\ stamps' = Reminders!Purged(u.id, u)
          /\ sent' = sent \/ sent' = [sent EXCEPT ![u.id] = [w \in Reminders!Windows |-> 0]]
          /\ hurt' = Reminders!HurtAfter(u.id, u)
          /\ notices' = notices \cup Reminders!Announced(u.id, u) \/ notices' = notices
          /\ faults' = faults \/ faults' = faults + 1
      BY <1>6, <2>2, <2>7 DEF Reminders!UpdateTx
    <3>2. u.st \in {"same", "scheduled", "cancelled", "completed"}
      BY DEF OpRow, ReminderLimits
    <3>3. Reminders!NewAt(u.id, u) \in Nat
      BY <1>1, <1>3, <2>3 DEF Reminders!NewAt
    <3>4. Reminders!Rewritten(u.id, u) \in CallRow
      BY <1>1, <1>3, <2>3, <3>2, <3>3 DEF Reminders!Rewritten, CallRow, Reminders!Status
    <3>5. call' \in [Calls -> CallRow]
      BY <1>1, <3>1, <3>4
    <3>6. sent' \in [Calls -> [Reminders!Windows -> Nat]]
      BY <1>1, <3>1
    <3>7. stamps' \subseteq Calls \X Reminders!Windows
      BY <1>1, <3>1 DEF Reminders!Purged
    <3>8. hurt' \subseteq Calls \X Reminders!Windows
      BY <1>1, <3>1, <2>3 DEF Reminders!HurtAfter
    <3>9. notices' \subseteq Calls \X {"rescheduled", "cancelled"} \X Nat
      BY <1>1, <1>3, <3>1, <2>3 DEF Reminders!Announced
    <3>10. faults' \in Nat
      BY <1>1, <3>1
    <3> QED BY <1>1, <2>4, <2>5, <3>5, <3>6, <3>7, <3>8, <3>9, <3>10 DEF ReminderTyped
  <2> QED BY <2>6, <2>7
<1>7. ASSUME NEW c \in Calls, Reminders!Remove(c) PROVE ReminderTyped'
  <2>1. call' \in [Calls -> CallRow]
    <3>1. [call[c] EXCEPT !.st = "deleted"] \in CallRow
      BY <1>1 DEF CallRow, Reminders!Status
    <3>2. call' = [call EXCEPT ![c] = [call[c] EXCEPT !.st = "deleted"]]
      BY <1>7 DEF Reminders!Remove
    <3> QED BY <1>1, <3>1, <3>2
  <2> QED BY <1>1, <1>7, <2>1 DEF Reminders!Remove, Reminders!faultVars, ReminderTyped
<1>8. Reminders!Boundary => ReminderTyped'
  <2> SUFFICES ASSUME Reminders!Boundary PROVE ReminderTyped'
    OBVIOUS
  <2>1. clock' = clock + 1 /\ clock' \in 0..CallHorizon /\ clock + 1 \in Nat
    BY <1>1 DEF Reminders!Boundary
  <2>2. tick' \in TickRow
    <3>1. [Reminders!IdleTick EXCEPT !.pc = "query", !.now = clock + 1] \in TickRow
      BY <2>1 DEF Reminders!IdleTick, TickRow, Reminders!Windows
    <3> QED BY <1>1, <3>1 DEF Reminders!Boundary
  <2> QED BY <1>1, <2>1, <2>2 DEF Reminders!Boundary, Reminders!Miss, Reminders!callVars, ReminderTyped
<1>9. Reminders!Query => ReminderTyped'
  <2> SUFFICES ASSUME Reminders!Query PROVE ReminderTyped'
    OBVIOUS
  <2> DEFINE rows == {Reminders!Row(c) : c \in {d \in Calls : Reminders!InWindow(d, tick.w) /\ Reminders!Due(d, tick.w)}}
  <2>1. rows \in SUBSET ReadRow
    BY <1>3 DEF Reminders!Row, ReadRow
  <2>2. Reminders!AfterWindow \in TickRow
    BY <1>2 DEF Reminders!AfterWindow, Reminders!IdleTick, TickRow, Reminders!Windows
  <2>3. [tick EXCEPT !.pc = "each", !.batch = rows] \in TickRow
    <3> HIDE DEF rows
    <3> QED BY <1>1, <2>1 DEF TickRow
  <2>4. tick' = Reminders!AfterWindow \/ tick' = [tick EXCEPT !.pc = "each", !.batch = rows]
    BY DEF Reminders!Query
  <2> QED BY <1>1, <2>2, <2>3, <2>4 DEF Reminders!Query, Reminders!callVars, Reminders!faultVars, ReminderTyped
<1>10. Reminders!QueryFails => ReminderTyped'
  BY <1>1 DEF Reminders!QueryFails, Reminders!Miss, Reminders!callVars, ReminderTyped, Reminders!IdleTick, TickRow, Reminders!Windows
<1>11. ASSUME NEW r \in tick.batch, Reminders!AlreadySent(r) PROVE ReminderTyped'
  <2>1. tick' \in TickRow
    BY <1>11, RestSays, tick.batch \ {r} \in SUBSET tick.batch DEF Reminders!AlreadySent
  <2> QED BY <1>1, <1>11, <2>1 DEF Reminders!AlreadySent, Reminders!callVars, Reminders!faultVars, ReminderTyped
<1>12. ASSUME NEW r \in tick.batch, Reminders!Stamp(r) PROVE ReminderTyped'
  <2>1. Reminders!Rest(tick.batch \ {r}) \in TickRow
    BY <1>12, RestSays, tick.batch \ {r} \in SUBSET tick.batch DEF Reminders!Stamp
  <2>2. [tick EXCEPT !.batch = @ \ {r}, !.pc = "event", !.cur = r] \in TickRow
    BY <1>1, <1>2 DEF TickRow
  <2>3. tick' \in TickRow
    BY <1>12, <2>1, <2>2 DEF Reminders!Stamp
  <2>4. stamps' \subseteq Calls \X Reminders!Windows
    BY <1>1, <1>2, <1>12 DEF Reminders!Stamp, ReadRow
  <2> QED BY <1>1, <1>12, <2>3, <2>4 DEF Reminders!Stamp, Reminders!Miss, Reminders!callVars, ReminderTyped
<1>13. ASSUME tick.pc = "event" PROVE tick.cur.id \in Calls /\ <<tick.cur.id, tick.w>> \in Calls \X Reminders!Windows
  BY <1>2, <1>13 DEF TickSays, ReadRow
<1>14. ASSUME tick.pc = "event" PROVE Reminders!Rest(tick.batch) \in TickRow /\ Reminders!Emitted(tick.cur, tick.w) \in [Calls -> [Reminders!Windows -> Nat]]
  <2>1. Reminders!Rest(tick.batch) \in TickRow
    BY <1>14, RestSays
  <2>2. sent[tick.cur.id] \in [Reminders!Windows -> Nat] /\ sent[tick.cur.id][tick.w] \in Nat
    BY <1>1, <1>2, <1>13, <1>14
  <2> QED BY <1>1, <1>2, <1>13, <1>14, <2>1, <2>2 DEF Reminders!Emitted
<1>15. Reminders!Emit => ReminderTyped'
  BY <1>1, <1>14 DEF Reminders!Emit, Reminders!callVars, Reminders!faultVars, ReminderTyped
<1>16. Reminders!EmitFails => ReminderTyped'
  BY <1>1, <1>14 DEF Reminders!EmitFails, Reminders!Miss, Reminders!Unstamped, Reminders!callVars, ReminderTyped
<1>17. Reminders!EmitGoesWrong => ReminderTyped'
  BY <1>1, <1>13, <1>14 DEF Reminders!EmitGoesWrong, Reminders!Unstamped, Reminders!callVars, ReminderTyped
<1>18. Reminders!Crash => ReminderTyped'
  <2> SUFFICES ASSUME Reminders!Crash PROVE ReminderTyped'
    OBVIOUS
  <2>1. tick' \in TickRow
    BY DEF Reminders!Crash, Reminders!IdleTick, TickRow, Reminders!Windows
  <2>2. op' \in [Operators -> {Reminders!IdleOp} \union OpRow]
    BY DEF Reminders!Crash
  <2>3. faults' \in Nat /\ hurt' \subseteq Calls \X Reminders!Windows /\ missed' \in Nat
    BY <1>1, <1>13 DEF Reminders!Crash, Reminders!Miss
  <2> QED BY <1>1, <2>1, <2>2, <2>3 DEF Reminders!Crash, ReminderTyped
<1>19. Reminders!Restart => ReminderTyped'
  BY <1>1 DEF Reminders!Restart, Reminders!callVars, Reminders!faultVars, ReminderTyped
<1>20. UNCHANGED Reminders!vars => ReminderTyped'
  BY DEF Reminders!vars, ReminderTyped
<1> QED BY <1>4, <1>5, <1>6, <1>7, <1>8, <1>9, <1>10, <1>11, <1>12, <1>15, <1>16, <1>17, <1>18, <1>19, <1>20 DEF Reminders!Next

\* What updates have read, and what the tick holds, stays in time.
LEMMA InTime ==
    ASSUME ReminderLimits, ReminderTyped, UpdatesInTime, TickSays, [Reminders!Next]_(Reminders!vars)
    PROVE  UpdatesInTime' /\ TickSays'
<1>1. /\ clock \in Nat /\ missed \in Nat /\ tick \in TickRow /\ tick.now \in Nat /\ tick.batch \in SUBSET ReadRow
      /\ Slots \subseteq Nat
  BY DEF ReminderTyped, ReminderLimits, TickRow
<1>2. ASSUME UNCHANGED <<clock, op>> PROVE UpdatesInTime'
  BY <1>2 DEF UpdatesInTime, ReadInTime
<1>3. ASSUME UNCHANGED <<clock, tick, missed>> PROVE TickSays'
  BY <1>3 DEF TickSays
<1>4. ASSUME tick' = Reminders!IdleTick PROVE TickSays'
  BY <1>4 DEF TickSays, Reminders!IdleTick
<1>5. ASSUME NEW b \in SUBSET tick.batch, tick.pc \in {"each", "event"}, tick' = Reminders!Rest(b), clock' = clock,
             missed' = missed \/ missed' = missed + 1
      PROVE  TickSays'
  <2>1. /\ tick'.pc \in {"idle", "query", "each"} /\ tick'.cur = Reminders!NoRow
        /\ tick'.pc \in {"idle", "query"} => tick'.batch = {}
        /\ tick'.pc # "idle" => tick'.now = tick.now
    BY <1>5, RestSays
  <2> QED BY <1>1, <1>5, <2>1 DEF TickSays
<1>6. ASSUME NEW c \in Calls, NEW at \in Slots, Reminders!Create(c, at) PROVE UpdatesInTime' /\ TickSays'
  BY <1>2, <1>3, <1>6 DEF Reminders!Create, Reminders!faultVars
<1>7. ASSUME NEW o \in Operators, NEW c \in Calls, NEW at \in Slots \cup {0}, NEW st \in StatusRequests,
             Reminders!UpdateRead(o, c, at, st)
      PROVE  UpdatesInTime' /\ TickSays'
  <2> DEFINE changed == at # 0 /\ at # call[c].at
             u == [pc |-> "tx", id |-> c, at |-> at, st |-> st,
                   changed |-> IF changed THEN "yes" ELSE "no",
                   cancels |-> IF st = "cancelled" /\ call[c].st # "cancelled" THEN "yes" ELSE "no",
                   since |-> clock]
  <2>1. op' = [op EXCEPT ![o] = u] /\ clock' = clock
        /\ (changed /\ st \notin {"cancelled", "completed"} => at >= clock + Reminders!MinNotice)
    BY <1>7 DEF Reminders!UpdateRead
  <2>2. ReadInTime(u)
    BY <1>1, <2>1 DEF ReadInTime
  <2>3. UpdatesInTime'
    <3> HIDE DEF u
    <3>1. \A p \in Operators : op'[p] = op[p] \/ op'[p] = u
      BY <2>1 DEF ReminderTyped
    <3> QED BY <2>1, <2>2, <3>1 DEF UpdatesInTime, ReadInTime
  <2> QED BY <1>3, <1>7, <2>3 DEF Reminders!UpdateRead, Reminders!faultVars
<1>8. ASSUME NEW o \in Operators, Reminders!UpdateTx(o) PROVE UpdatesInTime' /\ TickSays'
  <2>1. op' = [op EXCEPT ![o] = Reminders!IdleOp] /\ UNCHANGED <<clock, tick, missed>>
    BY <1>8 DEF Reminders!UpdateTx
  <2>2. \A p \in Operators : op'[p] = op[p] \/ op'[p] = Reminders!IdleOp
    BY <2>1 DEF ReminderTyped
  <2> QED BY <1>3, <2>1, <2>2 DEF UpdatesInTime, ReadInTime, Reminders!IdleOp
<1>9. ASSUME NEW c \in Calls, Reminders!Remove(c) PROVE UpdatesInTime' /\ TickSays'
  BY <1>2, <1>3, <1>9 DEF Reminders!Remove, Reminders!faultVars
<1>10. Reminders!Boundary => UpdatesInTime' /\ TickSays'
  <2> SUFFICES ASSUME Reminders!Boundary PROVE UpdatesInTime' /\ TickSays'
    OBVIOUS
  <2>1. clock' = clock + 1 /\ op' = op /\ \A o \in Operators : op[o].pc = "tx" => op[o].since = clock
    BY DEF Reminders!Boundary, Reminders!callVars
  <2>2. UpdatesInTime'
    BY <1>1, <2>1 DEF UpdatesInTime, ReadInTime
  <2>3. CASE up = "on" /\ tick.pc = "idle"
    <3>1. tick' = [pc |-> "query", w |-> "min60", now |-> clock + 1, batch |-> {}, cur |-> Reminders!NoRow] /\ missed' = missed
      BY <2>3 DEF Reminders!Boundary, Reminders!IdleTick
    <3> QED BY <1>1, <2>1, <2>2, <3>1 DEF TickSays
  <2>4. CASE ~(up = "on" /\ tick.pc = "idle")
    <3>1. tick' = tick /\ missed' = missed + 1
      BY <2>4 DEF Reminders!Boundary, Reminders!Miss
    <3> QED BY <1>1, <2>1, <2>2, <3>1 DEF TickSays
  <2> QED BY <2>3, <2>4
<1>11. Reminders!Query => UpdatesInTime' /\ TickSays'
  <2> SUFFICES ASSUME Reminders!Query PROVE UpdatesInTime' /\ TickSays'
    OBVIOUS
  <2> DEFINE rows == {Reminders!Row(c) : c \in {d \in Calls : Reminders!InWindow(d, tick.w) /\ Reminders!Due(d, tick.w)}}
  <2>1. UNCHANGED <<clock, op, missed>> /\ tick.pc = "query"
    BY DEF Reminders!Query, Reminders!callVars, Reminders!faultVars
  <2>2. tick' = Reminders!AfterWindow \/ tick' = [tick EXCEPT !.pc = "each", !.batch = rows]
    BY DEF Reminders!Query
  <2>3. CASE tick' = Reminders!AfterWindow
    BY <1>1, <2>1, <2>3 DEF Reminders!AfterWindow, Reminders!IdleTick, TickSays, UpdatesInTime, ReadInTime
  <2>4. CASE tick' = [tick EXCEPT !.pc = "each", !.batch = rows]
    <3> HIDE DEF rows
    <3>1. tick'.pc = "each" /\ tick'.cur = tick.cur /\ tick'.now = tick.now
      BY <1>1, <2>4 DEF TickRow
    <3> QED BY <1>1, <2>1, <3>1 DEF TickSays, UpdatesInTime, ReadInTime
  <2> QED BY <2>2, <2>3, <2>4
<1>12. Reminders!QueryFails => UpdatesInTime' /\ TickSays'
  BY <1>2, <1>4 DEF Reminders!QueryFails, Reminders!callVars
<1>13. ASSUME NEW r \in tick.batch, Reminders!AlreadySent(r) PROVE UpdatesInTime' /\ TickSays'
  BY <1>2, <1>5, <1>13, tick.batch \ {r} \in SUBSET tick.batch DEF Reminders!AlreadySent, Reminders!callVars, Reminders!faultVars
<1>14. ASSUME NEW r \in tick.batch, Reminders!Stamp(r) PROVE UpdatesInTime' /\ TickSays'
  <2>1. tick.pc = "each" /\ UNCHANGED <<clock, op>>
    BY <1>14 DEF Reminders!Stamp, Reminders!callVars
  <2>2. \/ tick' = [tick EXCEPT !.batch = @ \ {r}, !.pc = "event", !.cur = r] /\ missed' = missed
        \/ tick' = Reminders!Rest(tick.batch \ {r}) /\ missed' = missed + 1
    BY <1>14 DEF Reminders!Stamp, Reminders!Miss
  <2>3. CASE tick' = [tick EXCEPT !.batch = @ \ {r}, !.pc = "event", !.cur = r] /\ missed' = missed
    <3>1. tick'.pc = "event" /\ tick'.cur = r /\ r \in ReadRow /\ tick'.now = tick.now
      BY <1>1, <2>3 DEF TickRow
    <3> QED BY <1>1, <1>2, <2>1, <2>3, <3>1 DEF TickSays
  <2>4. CASE tick' = Reminders!Rest(tick.batch \ {r}) /\ missed' = missed + 1
    BY <1>2, <1>5, <2>1, <2>4, tick.batch \ {r} \in SUBSET tick.batch
  <2> QED BY <2>2, <2>3, <2>4
<1>15. Reminders!Emit => UpdatesInTime' /\ TickSays'
  BY <1>2, <1>5 DEF Reminders!Emit, Reminders!callVars, Reminders!faultVars
<1>16. Reminders!EmitFails => UpdatesInTime' /\ TickSays'
  BY <1>2, <1>5 DEF Reminders!EmitFails, Reminders!Miss, Reminders!callVars
<1>17. Reminders!EmitGoesWrong => UpdatesInTime' /\ TickSays'
  BY <1>2, <1>5 DEF Reminders!EmitGoesWrong, Reminders!callVars
<1>18. Reminders!Crash => UpdatesInTime' /\ TickSays'
  <2> SUFFICES ASSUME Reminders!Crash PROVE UpdatesInTime'
    BY <1>4 DEF Reminders!Crash
  <2>1. \A o \in Operators : op'[o] = Reminders!IdleOp
    BY DEF Reminders!Crash
  <2> QED BY <2>1 DEF UpdatesInTime, ReadInTime, Reminders!IdleOp
<1>19. Reminders!Restart => UpdatesInTime' /\ TickSays'
  BY <1>2, <1>3 DEF Reminders!Restart, Reminders!callVars, Reminders!faultVars
<1>20. UNCHANGED Reminders!vars => UpdatesInTime' /\ TickSays'
  BY <1>2, <1>3 DEF Reminders!vars
<1> QED BY <1>6, <1>7, <1>8, <1>9, <1>10, <1>11, <1>12, <1>13, <1>14, <1>15, <1>16, <1>17, <1>18, <1>19, <1>20 DEF Reminders!Next

\* The constants of the two windows, and what the types say of one call.
LEMMA CallSays ==
    ASSUME ReminderTyped, NEW c \in Calls, NEW w \in Reminders!Windows
    PROVE  /\ Reminders!Offset[w] \in {2, 12} /\ (w = "min60" => Reminders!Offset[w] = 12) /\ (w = "min10" => Reminders!Offset[w] = 2)
           /\ call[c].at \in Nat /\ call[c].anchor \in Nat /\ call[c].version \in Nat /\ call[c].st \in Reminders!Status
           /\ sent[c][w] \in Nat /\ clock \in Nat /\ missed \in Nat /\ faults \in Nat
           /\ Before(c, w) \in Int /\ Last(c, w) \in Int
           /\ Before(c, w) >= call[c].anchor /\ Before(c, w) >= call[c].at - Reminders!Offset[w] - 2
           /\ Last(c, w) < call[c].at /\ Last(c, w) <= call[c].at - Reminders!Offset[w] + 2
<1>1. Reminders!Offset[w] \in {2, 12} /\ (w = "min60" => Reminders!Offset[w] = 12) /\ (w = "min10" => Reminders!Offset[w] = 2)
  BY DEF Reminders!Offset, Reminders!Windows
<1>2. /\ call[c].at \in Nat /\ call[c].anchor \in Nat /\ call[c].version \in Nat /\ call[c].st \in Reminders!Status
      /\ sent[c][w] \in Nat /\ clock \in Nat /\ missed \in Nat /\ faults \in Nat
  BY DEF ReminderTyped, CallRow
<1> QED BY <1>1, <1>2 DEF Before, Last, Reminders!LastTick, Reminders!Period, Reminders!Catchup

\* What the transaction of an update does to its call, and to no other.
LEMMA UpdateSays ==
    ASSUME ReminderLimits, ReminderTyped, UpdatesInTime, NEW o \in Operators, Reminders!UpdateTx(o), Reminders!Exists(op[o].id)
    PROVE  \E u \in OpRow : LET c == u.id IN
           /\ u = op[o] /\ c \in Calls
           /\ UNCHANGED <<clock, tick, missed>> /\ faults' \in {faults, faults + 1} /\ notices \subseteq notices'
           /\ \A d \in Calls : d # c =>
                 /\ call'[d] = call[d]
                 /\ \A w \in Reminders!Windows : /\ sent'[d][w] = sent[d][w]
                                                 /\ <<d, w>> \in stamps' <=> <<d, w>> \in stamps
                                                 /\ <<d, w>> \in hurt' <=> <<d, w>> \in hurt
           /\ call'[c].st \notin {"none", "deleted"} /\ call[c].st \notin {"none", "deleted"}
           /\ u.changed = "yes" =>
                 /\ call'[c].anchor = clock /\ call'[c].version = call[c].version + 1
                 /\ \A w \in Reminders!Windows : <<c, w>> \notin stamps' /\ sent'[c][w] = 0
                 /\ <<c, "rescheduled", call'[c].version>> \in notices' \/ faults' # 0
                 /\ call'[c].st = "scheduled" =>
                      \/ call'[c].at >= call'[c].anchor + 3
                      \/ \A w \in Reminders!Windows : <<c, w>> \in hurt'
           /\ u.changed # "yes" =>
                 /\ call'[c].anchor = call[c].anchor
                 /\ \A w \in Reminders!Windows : /\ <<c, w>> \in stamps' <=> <<c, w>> \in stamps
                                                 /\ <<c, w>> \in hurt => <<c, w>> \in hurt'
                 /\ \/ /\ call'[c].at = call[c].at /\ call'[c].version = call[c].version
                       /\ \A w \in Reminders!Windows : sent'[c][w] = sent[c][w]
                    \/ /\ call'[c].version = call[c].version + 1
                       /\ \A w \in Reminders!Windows : sent'[c][w] = 0 /\ <<c, w>> \in hurt'
           /\ \A r \in ReadRow : InHands(r) /\ r.id = c => \A w \in Reminders!Windows : <<c, w>> \in hurt'
           /\ call'[c].st = "scheduled" => call[c].st = "scheduled" \/ \A w \in Reminders!Windows : <<c, w>> \in hurt'
<1>1. op[o] \in OpRow
  BY DEF ReminderTyped, Reminders!UpdateTx, Reminders!IdleOp
<1>2. PICK u \in OpRow : u = op[o]
  BY <1>1
<1> DEFINE c == u.id
<1>3. /\ c \in Calls /\ u.at \in {0} \union Slots /\ u.at \in Nat /\ u.changed \in {"yes", "no"} /\ u.since \in Nat
      /\ u.pc = "tx" /\ u.st \in {"same", "scheduled", "cancelled", "completed"}
  <2>1. c \in Calls /\ u.at \in {0} \union Slots /\ u.changed \in {"yes", "no"} /\ u.since \in Nat
        /\ u.pc = "tx" /\ u.st \in StatusRequests
    BY DEF OpRow
  <2>2. u.at \in Nat
    <3>1. Slots \subseteq Nat /\ 0 \in Nat
      BY DEF ReminderLimits
    <3> QED BY <2>1, <3>1, Zenon
  <2>3. u.st \in {"same", "scheduled", "cancelled", "completed"}
    BY <2>1 DEF ReminderLimits
  <2> QED BY <2>1, <2>2, <2>3
<1>4. /\ call' = [call EXCEPT ![c] = Reminders!Rewritten(c, u)]
      /\ stamps' = Reminders!Purged(c, u)
      /\ sent' = IF Reminders!Rewritten(c, u).version = call[c].version THEN sent
                 ELSE [sent EXCEPT ![c] = [w \in Reminders!Windows |-> 0]]
      /\ hurt' = Reminders!HurtAfter(c, u)
      /\ \/ notices' = notices \cup Reminders!Announced(c, u) /\ UNCHANGED faults
         \/ faults' = faults + 1 /\ UNCHANGED notices
      /\ UNCHANGED <<clock, tick, missed>>
  BY <1>2 DEF Reminders!UpdateTx
<1>5. /\ call \in [Calls -> CallRow] /\ clock \in Nat /\ faults \in Nat /\ sent \in [Calls -> [Reminders!Windows -> Nat]]
      /\ call[c].at \in Nat /\ call[c].anchor \in Nat /\ call[c].version \in Nat /\ call[c].st \in Reminders!Status
  BY <1>3 DEF ReminderTyped, CallRow
<1>6. /\ call'[c] = Reminders!Rewritten(c, u)
      /\ call'[c].st = (IF u.st = "same" THEN call[c].st ELSE u.st) /\ call'[c].at = Reminders!NewAt(c, u)
      /\ call'[c].anchor = (IF u.changed = "yes" THEN clock ELSE call[c].anchor)
      /\ call'[c].version = (IF u.changed = "yes" \/ Reminders!NewAt(c, u) # call[c].at
                             THEN call[c].version + 1 ELSE call[c].version)
      /\ call[c].st \notin {"none", "deleted"}
  BY <1>2, <1>3, <1>4, <1>5 DEF Reminders!Rewritten, Reminders!Exists
<1>7. \A d \in Calls : d # c =>
                 /\ call'[d] = call[d]
                 /\ \A w \in Reminders!Windows : /\ sent'[d][w] = sent[d][w]
                                                 /\ <<d, w>> \in stamps' <=> <<d, w>> \in stamps
                                                 /\ <<d, w>> \in hurt' <=> <<d, w>> \in hurt
  BY <1>3, <1>4, <1>5 DEF Reminders!Purged, Reminders!HurtAfter
<1>8. Reminders!Hurts(c, u) => \A w \in Reminders!Windows : <<c, w>> \in hurt'
  BY <1>4 DEF Reminders!HurtAfter
<1>9. u.changed # "yes" => \A w \in Reminders!Windows : <<c, w>> \in hurt => <<c, w>> \in hurt'
  BY <1>4 DEF Reminders!HurtAfter
<1>10. u.changed = "yes" =>
                 /\ call'[c].anchor = clock /\ call'[c].version = call[c].version + 1
                 /\ \A w \in Reminders!Windows : <<c, w>> \notin stamps' /\ sent'[c][w] = 0
                 /\ <<c, "rescheduled", call'[c].version>> \in notices' \/ faults' # 0
  <2> SUFFICES ASSUME u.changed = "yes"
               PROVE /\ call'[c].anchor = clock /\ call'[c].version = call[c].version + 1
                     /\ \A w \in Reminders!Windows : <<c, w>> \notin stamps' /\ sent'[c][w] = 0
                     /\ <<c, "rescheduled", call'[c].version>> \in notices' \/ faults' # 0
    OBVIOUS
  <2>1. call'[c].anchor = clock /\ call'[c].version = call[c].version + 1 /\ Reminders!Rewritten(c, u).version = call[c].version + 1
    BY <1>6
  <2>2. \A w \in Reminders!Windows : <<c, w>> \notin stamps'
    BY <1>4 DEF Reminders!Purged
  <2>3. \A w \in Reminders!Windows : sent'[c][w] = 0
    BY <1>3, <1>4, <1>5, <2>1
  <2>4. <<c, "rescheduled", call'[c].version>> \in notices' \/ faults' # 0
    BY <1>4, <1>5, <2>1 DEF Reminders!Announced
  <2> QED BY <2>1, <2>2, <2>3, <2>4
<1>11. u.changed = "yes" /\ call'[c].st = "scheduled" =>
           call'[c].at >= call'[c].anchor + 3 \/ \A w \in Reminders!Windows : <<c, w>> \in hurt'
  <2> SUFFICES ASSUME u.changed = "yes", call'[c].st = "scheduled" PROVE call'[c].at >= call'[c].anchor + 3
    OBVIOUS
  <2>1. u.st \notin {"cancelled", "completed"}
    BY <1>6
  <2>2. ReadInTime(u)
    BY <1>2 DEF UpdatesInTime
  <2>3. /\ clock <= u.since + 1 /\ u.at # 0 /\ u.at >= u.since + 6
    BY <1>3, <2>1, <2>2 DEF ReadInTime, Reminders!MinNotice
  <2> QED BY <1>3, <1>5, <1>6, <2>3 DEF Reminders!NewAt
<1>12. u.changed # "yes" =>
                 /\ call'[c].anchor = call[c].anchor
                 /\ \A w \in Reminders!Windows : <<c, w>> \in stamps' <=> <<c, w>> \in stamps
                 /\ \/ /\ call'[c].at = call[c].at /\ call'[c].version = call[c].version
                       /\ \A w \in Reminders!Windows : sent'[c][w] = sent[c][w]
                    \/ /\ call'[c].version = call[c].version + 1
                       /\ \A w \in Reminders!Windows : sent'[c][w] = 0 /\ <<c, w>> \in hurt'
  <2> SUFFICES ASSUME u.changed # "yes"
               PROVE /\ call'[c].anchor = call[c].anchor
                     /\ \A w \in Reminders!Windows : <<c, w>> \in stamps' <=> <<c, w>> \in stamps
                     /\ \/ /\ call'[c].at = call[c].at /\ call'[c].version = call[c].version
                           /\ \A w \in Reminders!Windows : sent'[c][w] = sent[c][w]
                        \/ /\ call'[c].version = call[c].version + 1
                           /\ \A w \in Reminders!Windows : sent'[c][w] = 0 /\ <<c, w>> \in hurt'
    OBVIOUS
  <2>1. call'[c].anchor = call[c].anchor /\ stamps' = stamps
    BY <1>4, <1>6 DEF Reminders!Purged
  <2>2. CASE Reminders!NewAt(c, u) = call[c].at
    BY <1>4, <1>5, <1>6, <2>1, <2>2
  <2>3. CASE Reminders!NewAt(c, u) # call[c].at
    <3>1. Reminders!Hurts(c, u)
      BY <1>3, <2>3 DEF Reminders!Hurts
    <3>2. call'[c].version = call[c].version + 1 /\ Reminders!Rewritten(c, u).version # call[c].version
      BY <1>5, <1>6, <2>3
    <3>3. \A w \in Reminders!Windows : sent'[c][w] = 0
      BY <1>3, <1>4, <1>5, <3>2
    <3> QED BY <1>8, <2>1, <3>1, <3>2, <3>3
  <2> QED BY <2>2, <2>3
<1>13. \A r \in ReadRow : InHands(r) /\ r.id = c => \A w \in Reminders!Windows : <<c, w>> \in hurt'
  BY <1>8 DEF InHands, Reminders!InHand, Reminders!Hurts
<1>14. call'[c].st = "scheduled" => call[c].st = "scheduled" \/ \A w \in Reminders!Windows : <<c, w>> \in hurt'
  BY <1>6, <1>8 DEF Reminders!Hurts
<1>15. notices \subseteq notices' /\ faults' \in {faults, faults + 1} /\ UNCHANGED <<clock, tick, missed>>
  BY <1>4
<1>16. call'[c].st \notin {"none", "deleted"}
  BY <1>3, <1>6
<1> HIDE DEF c
<1> QED BY <1>2, <1>3, <1>6, <1>7, <1>9, <1>10, <1>11, <1>12, <1>13, <1>14, <1>15, <1>16 DEF c

\* An update moves its call, or leaves its reminders as they are.
LEMMA CallUpdated ==
    ASSUME ReminderLimits, ReminderInv, NEW o \in Operators, Reminders!UpdateTx(o), Reminders!Exists(op[o].id)
    PROVE  ReminderSound'
<1> USE DEF ReminderInv
<1> DEFINE Says(u, c) ==
           /\ u = op[o] /\ c \in Calls
           /\ UNCHANGED <<clock, tick, missed>> /\ faults' \in {faults, faults + 1} /\ notices \subseteq notices'
           /\ \A d \in Calls : d # c =>
                 /\ call'[d] = call[d]
                 /\ \A w \in Reminders!Windows : /\ sent'[d][w] = sent[d][w]
                                                 /\ <<d, w>> \in stamps' <=> <<d, w>> \in stamps
                                                 /\ <<d, w>> \in hurt' <=> <<d, w>> \in hurt
           /\ call'[c].st \notin {"none", "deleted"} /\ call[c].st \notin {"none", "deleted"}
           /\ u.changed = "yes" =>
                 /\ call'[c].anchor = clock /\ call'[c].version = call[c].version + 1
                 /\ \A w \in Reminders!Windows : <<c, w>> \notin stamps' /\ sent'[c][w] = 0
                 /\ <<c, "rescheduled", call'[c].version>> \in notices' \/ faults' # 0
                 /\ call'[c].st = "scheduled" =>
                      \/ call'[c].at >= call'[c].anchor + 3
                      \/ \A w \in Reminders!Windows : <<c, w>> \in hurt'
           /\ u.changed # "yes" =>
                 /\ call'[c].anchor = call[c].anchor
                 /\ \A w \in Reminders!Windows : /\ <<c, w>> \in stamps' <=> <<c, w>> \in stamps
                                                 /\ <<c, w>> \in hurt => <<c, w>> \in hurt'
                 /\ \/ /\ call'[c].at = call[c].at /\ call'[c].version = call[c].version
                       /\ \A w \in Reminders!Windows : sent'[c][w] = sent[c][w]
                    \/ /\ call'[c].version = call[c].version + 1
                       /\ \A w \in Reminders!Windows : sent'[c][w] = 0 /\ <<c, w>> \in hurt'
           /\ \A r \in ReadRow : InHands(r) /\ r.id = c => \A w \in Reminders!Windows : <<c, w>> \in hurt'
           /\ call'[c].st = "scheduled" => call[c].st = "scheduled" \/ \A w \in Reminders!Windows : <<c, w>> \in hurt'
<1>1. \E u \in OpRow : Says(u, u.id)
  BY UpdateSays
<1>2. PICK u \in OpRow : Says(u, u.id)
  BY <1>1
<1> DEFINE c == u.id
<1>3. Says(u, c)
  BY <1>2
<1> HIDE DEF c
<1>4. c \in Calls /\ clock' = clock /\ tick' = tick /\ missed' = missed /\ faults' \in Nat /\ faults' >= faults /\ clock \in Nat
  <2>1. faults \in Nat /\ clock \in Nat
    BY DEF ReminderTyped
  <2> QED BY <1>3, <2>1
<1>5. [Reminders!Next]_(Reminders!vars) /\ ReminderTyped'
  <2>1. Reminders!Next
    BY DEF Reminders!Next
  <2> QED BY <2>1, ReminderTypes
<1>6. \A r : InHands(r)' <=> InHands(r)
  BY <1>4 DEF InHands
<1>7. RowsKnown'
  <2> SUFFICES ASSUME NEW r \in ReadRow, InHands(r)
               PROVE  /\ call'[r.id].st # "none" /\ r.version <= call'[r.id].version
                      /\ r.version # call'[r.id].version => \A w \in Reminders!Windows : <<r.id, w>> \in hurt'
    BY <1>6 DEF RowsKnown
  <2>1. r.id \in Calls /\ r.version \in Nat
    BY DEF ReadRow
  <2>2. /\ call[r.id].st # "none" /\ r.version <= call[r.id].version
        /\ r.version # call[r.id].version => \A w \in Reminders!Windows : <<r.id, w>> \in hurt
    BY DEF ReminderSound, RowsKnown
  <2>3. CASE r.id # c
    BY <1>3, <2>1, <2>2, <2>3
  <2>4. CASE r.id = c
    <3>1. call[c].version \in Nat
      BY <1>4, CallSays, "min60" \in Reminders!Windows DEF Reminders!Windows
    <3>2. call'[c].version \in {call[c].version, call[c].version + 1}
      BY <1>3
    <3>3. \A w \in Reminders!Windows : <<c, w>> \in hurt'
      BY <1>3, <2>4
    <3>4. call'[c].st # "none"
      BY <1>3
    <3> QED BY <2>1, <2>2, <2>4, <3>1, <3>2, <3>3, <3>4
  <2> QED BY <2>3, <2>4
<1>8. \A d \in Calls, w \in Reminders!Windows : Telling(d, w)' <=> Telling(d, w)
  BY <1>4 DEF Telling
<1>9. ToldIsStamped'
  <2> SUFFICES ASSUME NEW d \in Calls, NEW w \in Reminders!Windows, Telling(d, w)
               PROVE  <<d, w>> \in stamps' \/ Gone(d)' \/ tick.cur.version # call'[d].version
    BY <1>4, <1>8 DEF ToldIsStamped
  <2>1. <<d, w>> \in stamps \/ Gone(d) \/ tick.cur.version # call[d].version
    BY DEF ReminderSound, ToldIsStamped
  <2>2. CASE d # c
    BY <1>3, <2>1, <2>2 DEF Gone
  <2>3. CASE d = c
    <3>1. tick.cur \in ReadRow /\ tick.cur.version \in Nat /\ tick.cur.id = c
      BY <2>3 DEF Telling, TickSays, ReadRow
    <3>2. tick.cur.version <= call[c].version /\ call[c].version \in Nat
      BY <1>4, <3>1, CallSays DEF ReminderSound, RowsKnown, InHands
    <3>3. call'[c].version = call[c].version + 1 \/ (call'[c].version = call[c].version /\ (<<c, w>> \in stamps' <=> <<c, w>> \in stamps))
      BY <1>3
    <3>4. ~Gone(c)
      BY <1>3 DEF Gone
    <3>5. CASE call'[c].version = call[c].version + 1
      BY <2>3, <3>1, <3>2, <3>5
    <3>6. CASE call'[c].version = call[c].version /\ (<<c, w>> \in stamps' <=> <<c, w>> \in stamps)
      BY <2>1, <2>3, <3>4, <3>6
    <3> QED BY <3>3, <3>5, <3>6
  <2> QED BY <2>2, <2>3
<1>10. SentCount'
  <2> SUFFICES ASSUME NEW d \in Calls, NEW w \in Reminders!Windows
               PROVE  /\ sent'[d][w] <= faults' + 1
                      /\ Telling(d, w) \/ (<<d, w>> \notin stamps' /\ ~Gone(d)') => sent'[d][w] <= faults'
    BY <1>8 DEF SentCount
  <2>1. /\ sent[d][w] <= faults + 1
        /\ Telling(d, w) \/ (<<d, w>> \notin stamps /\ ~Gone(d)) => sent[d][w] <= faults
    BY DEF ReminderSound, SentCount
  <2>2. sent[d][w] \in Nat /\ faults \in Nat
    BY CallSays
  <2>3. CASE sent'[d][w] = 0
    <3>1. PICK n \in Nat : n = faults'
      BY <1>4
    <3>2. 0 <= n + 1 /\ 0 <= n
      OBVIOUS
    <3> QED BY <2>3, <3>1, <3>2
  <2>4. CASE sent'[d][w] = sent[d][w] /\ (<<d, w>> \in stamps' <=> <<d, w>> \in stamps) /\ (Gone(d)' <=> Gone(d))
    <3>1. sent[d][w] <= faults' + 1 /\ (sent[d][w] <= faults => sent[d][w] <= faults')
      BY <1>4, <2>1, <2>2
    <3>2. Telling(d, w) \/ (<<d, w>> \notin stamps' /\ ~Gone(d)') => sent[d][w] <= faults
      BY <2>1, <2>4
    <3> QED BY <2>4, <3>1, <3>2
  <2>5. CASE d # c
    BY <1>3, <2>4, <2>5 DEF Gone
  <2>6. CASE d = c
    <3>1. ~Gone(c) /\ ~Gone(c)'
      BY <1>3 DEF Gone
    <3>2. sent'[c][w] = 0 \/ (sent'[c][w] = sent[c][w] /\ (<<c, w>> \in stamps' <=> <<c, w>> \in stamps))
      BY <1>3
    <3> QED BY <2>3, <2>4, <2>6, <3>1, <3>2
  <2> QED BY <2>5, <2>6
<1>11. SetInTime'
  <2> SUFFICES ASSUME NEW d \in Calls, call'[d].st = "scheduled"
               PROVE  call'[d].at >= call'[d].anchor + 3 \/ \A w \in Reminders!Windows : <<d, w>> \in hurt'
    BY DEF SetInTime
  <2>1. call[d].st = "scheduled" => call[d].at >= call[d].anchor + 3 \/ \A w \in Reminders!Windows : <<d, w>> \in hurt
    BY DEF ReminderSound, SetInTime
  <2>2. CASE d # c
    BY <1>3, <2>1, <2>2
  <2>3. CASE d = c /\ u.changed = "yes"
    BY <1>3, <2>3
  <2>4. CASE d = c /\ u.changed # "yes"
    BY <1>3, <2>1, <2>4
  <2> QED BY <2>2, <2>3, <2>4
<1>12. ChancesCount'
  <2> SUFFICES ASSUME NEW d \in Calls, NEW w \in Reminders!Windows, Owed(d, w)'
               PROVE  /\ ~Coming(d, w)' => clock <= Before(d, w)' + missed \/ Last(d, w)' <= Before(d, w)' + missed
                      /\ Coming(d, w)' => clock <= Before(d, w)' + missed + 1
    BY <1>4 DEF ChancesCount
  <2>1. CASE call'[d].at = call[d].at /\ call'[d].anchor = call[d].anchor /\ Owed(d, w)
    <3>1. Before(d, w)' = Before(d, w) /\ Last(d, w)' = Last(d, w)
      BY <2>1 DEF Before, Last
    <3>2. Coming(d, w)' <=> Coming(d, w)
      BY <1>4, <1>6, <3>1 DEF Coming
    <3> QED BY <2>1, <3>1, <3>2 DEF ReminderSound, ChancesCount
  <2>2. CASE call'[d].anchor = clock
    <3>1. Before(d, w)' >= clock /\ Before(d, w)' \in Int /\ missed \in Nat
      <4>1. /\ call'[d].at \in Nat /\ call'[d].anchor \in Nat
        BY <1>5 DEF ReminderTyped, CallRow
      <4>2. Reminders!Offset[w] \in {2, 12} /\ missed \in Nat
        BY CallSays
      <4> QED BY <2>2, <4>1, <4>2 DEF Before, Reminders!Period
    <3> QED BY <1>4, <3>1
  <2>3. CASE d # c
    <3>1. Owed(d, w)
      BY <1>3, <2>3 DEF Owed
    <3> QED BY <1>3, <2>1, <2>3, <3>1
  <2>4. CASE d = c /\ u.changed = "yes"
    BY <1>3, <2>2, <2>4
  <2>5. CASE d = c /\ u.changed # "yes"
    <3>1. <<c, w>> \notin hurt' /\ call'[c].st = "scheduled" /\ sent'[c][w] = 0
      BY <2>5 DEF Owed
    <3>2. /\ <<c, w>> \notin hurt /\ call[c].st = "scheduled" /\ sent[c][w] = 0
          /\ call'[c].at = call[c].at /\ call'[c].anchor = call[c].anchor
      BY <1>3, <2>5, <3>1
    <3>3. Owed(c, w)
      BY <2>5, <3>2 DEF Owed
    <3> QED BY <2>1, <2>5, <3>2, <3>3
  <2> QED BY <2>3, <2>4, <2>5
<1>13. Reminders!StampEarned'
  <2> SUFFICES ASSUME NEW d \in Calls, NEW w \in Reminders!Windows, <<d, w>> \in stamps'
               PROVE  sent'[d][w] > 0 \/ Telling(d, w) \/ <<d, w>> \in hurt'
    <3>1. stamps' \subseteq Calls \X Reminders!Windows
      BY <1>5 DEF ReminderTyped
    <3> QED BY <3>1, <1>4 DEF Reminders!StampEarned, Telling
  <2>1. <<d, w>> \in stamps => sent[d][w] > 0 \/ Telling(d, w) \/ <<d, w>> \in hurt
    BY DEF ReminderSound, Reminders!StampEarned, Telling
  <2> QED BY <1>3, <2>1
<1>14. Reminders!MoveAnnounced'
  <2> SUFFICES ASSUME NEW d \in Calls, call'[d].version > 0, faults' = 0, \A w \in Reminders!Windows : <<d, w>> \notin hurt'
               PROVE  <<d, "rescheduled", call'[d].version>> \in notices'
    BY DEF Reminders!MoveAnnounced
  <2>1. faults = 0
    BY <1>4 DEF ReminderTyped
  <2>2. call[d].version > 0 /\ (\A w \in Reminders!Windows : <<d, w>> \notin hurt) => <<d, "rescheduled", call[d].version>> \in notices
    BY <2>1 DEF ReminderSound, Reminders!MoveAnnounced
  <2>3. CASE d # c
    BY <1>3, <2>2, <2>3
  <2>4. CASE d = c /\ u.changed = "yes"
    BY <1>3, <2>4
  <2>5. CASE d = c /\ u.changed # "yes"
    <3>1. "min60" \in Reminders!Windows
      BY DEF Reminders!Windows
    <3>2. call'[c].version = call[c].version /\ \A w \in Reminders!Windows : <<c, w>> \notin hurt
      BY <1>3, <2>5, <3>1
    <3> QED BY <1>3, <2>2, <2>5, <3>2
  <2> QED BY <2>3, <2>4, <2>5
<1> QED BY <1>7, <1>9, <1>10, <1>11, <1>12, <1>13, <1>14 DEF ReminderSound

\* A created call has both its reminders before it, and no tick holds it.
LEMMA CallCreated ==
    ASSUME ReminderLimits, ReminderInv, NEW c \in Calls, NEW at \in Slots, Reminders!Create(c, at)
    PROVE  ReminderSound'
<1> USE DEF ReminderInv
<1>1. /\ call' = [call EXCEPT ![c] = [st |-> "scheduled", at |-> at, anchor |-> clock, version |-> 0]]
      /\ call[c].st = "none" /\ at >= clock + 6
      /\ UNCHANGED <<clock, stamps, tick, sent, notices, hurt, missed, faults>>
  BY DEF Reminders!Create, Reminders!MinNotice, Reminders!faultVars
<1>2. /\ clock \in Nat /\ missed \in Nat /\ at \in Nat /\ call \in [Calls -> CallRow]
  <2>1. Slots \subseteq Nat
    BY DEF ReminderLimits
  <2>2. at \in Nat
    BY <2>1
  <2> QED BY <2>2 DEF ReminderTyped
<1>3. /\ call'[c].st = "scheduled" /\ call'[c].at = at /\ call'[c].anchor = clock /\ call'[c].version = 0
      /\ \A d \in Calls \ {c} : call'[d] = call[d]
  BY <1>1, <1>2
<1>4. \A r \in ReadRow : InHands(r) => r.id # c /\ r.id \in Calls
  BY <1>1 DEF ReminderSound, RowsKnown, ReadRow
<1>5. \A d \in Calls, w \in Reminders!Windows : Telling(d, w) => d # c
  BY <1>4 DEF Telling, TickSays, InHands
<1>6. RowsKnown' /\ ToldIsStamped'
  <2>1. \A r \in ReadRow : InHands(r)' <=> InHands(r)
    BY <1>1 DEF InHands
  <2>2. RowsKnown'
    BY <1>1, <1>3, <1>4, <2>1 DEF ReminderSound, RowsKnown
  <2>3. \A d \in Calls, w \in Reminders!Windows : Telling(d, w)' <=> Telling(d, w)
    BY <1>1 DEF Telling
  <2>4. \A d \in Calls \ {c} : Gone(d)' <=> Gone(d)
    BY <1>3 DEF Gone
  <2>5. ToldIsStamped'
    BY <1>1, <1>3, <1>5, <2>3, <2>4 DEF ReminderSound, ToldIsStamped
  <2> QED BY <2>2, <2>5
<1>7. SentCount' /\ Reminders!StampEarned'
  <2>1. \A d \in Calls : Gone(d)' <=> Gone(d)
    BY <1>1, <1>3 DEF Gone
  <2>2. \A d \in Calls, w \in Reminders!Windows : Telling(d, w)' <=> Telling(d, w)
    BY <1>1 DEF Telling
  <2> QED BY <1>1, <2>1, <2>2 DEF ReminderSound, SentCount, Reminders!StampEarned
<1>8. SetInTime' /\ Reminders!MoveAnnounced'
  <2>1. SetInTime'
    BY <1>1, <1>2, <1>3 DEF ReminderSound, SetInTime
  <2>2. Reminders!MoveAnnounced'
    BY <1>1, <1>3 DEF ReminderSound, Reminders!MoveAnnounced
  <2> QED BY <2>1, <2>2
<1>9. ChancesCount'
  <2> SUFFICES ASSUME NEW d \in Calls, NEW w \in Reminders!Windows, Owed(d, w)'
               PROVE  /\ ~Coming(d, w)' => clock <= Before(d, w)' + missed \/ Last(d, w)' <= Before(d, w)' + missed
                      /\ Coming(d, w)' => clock <= Before(d, w)' + missed + 1
    BY <1>1 DEF ChancesCount
  <2>1. CASE d = c
    <3>1. Before(d, w)' >= clock /\ Before(d, w)' \in Int
      <4>1. Reminders!Offset[w] \in {2, 12}
        BY CallSays
      <4> QED BY <1>2, <1>3, <2>1, <4>1 DEF Before, Reminders!Period
    <3> QED BY <1>2, <3>1
  <2>2. CASE d # c
    <3>1. Owed(d, w) /\ Before(d, w)' = Before(d, w) /\ Last(d, w)' = Last(d, w)
      BY <1>1, <1>3, <2>2 DEF Owed, Before, Last
    <3>2. Coming(d, w)' <=> Coming(d, w)
      BY <1>1, <3>1 DEF Coming, InHands
    <3> QED BY <3>1, <3>2 DEF ReminderSound, ChancesCount
  <2> QED BY <2>1, <2>2
<1> QED BY <1>6, <1>7, <1>8, <1>9 DEF ReminderSound

\* A removed call takes its stamps along, and nobody is owed its reminders.
LEMMA CallRemoved ==
    ASSUME ReminderLimits, ReminderInv, NEW c \in Calls, Reminders!Remove(c)
    PROVE  ReminderSound'
<1> USE DEF ReminderInv
<1>1. /\ call' = [call EXCEPT ![c].st = "deleted"] /\ stamps' = {s \in stamps : s[1] # c}
      /\ UNCHANGED <<clock, tick, sent, notices, hurt, missed, faults>>
  BY DEF Reminders!Remove, Reminders!faultVars
<1>2. call \in [Calls -> CallRow]
  BY DEF ReminderTyped
<1>3. /\ call'[c].st = "deleted" /\ call'[c].version = call[c].version
      /\ \A d \in Calls \ {c} : call'[d] = call[d]
  BY <1>1, <1>2 DEF CallRow
<1>4. \A d \in Calls \ {c}, w \in Reminders!Windows : <<d, w>> \in stamps' <=> <<d, w>> \in stamps
  BY <1>1
<1>5. /\ \A r : InHands(r)' <=> InHands(r)
      /\ \A d \in Calls, w \in Reminders!Windows : Telling(d, w)' <=> Telling(d, w)
      /\ \A d \in Calls \ {c} : Gone(d)' <=> Gone(d)
      /\ Gone(c)'
  BY <1>1, <1>3 DEF InHands, Telling, Gone
<1>6. RowsKnown'
  <2>1. \A r \in ReadRow : r.id \in Calls
    BY DEF ReadRow
  <2> QED BY <1>1, <1>3, <1>5, <2>1 DEF ReminderSound, RowsKnown
<1>7. ToldIsStamped'
  BY <1>1, <1>3, <1>4, <1>5 DEF ReminderSound, ToldIsStamped
<1>8. SentCount'
  <2> SUFFICES ASSUME NEW d \in Calls, NEW w \in Reminders!Windows
               PROVE  /\ sent[d][w] <= faults + 1
                      /\ Telling(d, w) \/ (<<d, w>> \notin stamps' /\ ~Gone(d)') => sent[d][w] <= faults
    BY <1>1, <1>5 DEF SentCount
  <2>1. /\ sent[d][w] <= faults + 1
        /\ Telling(d, w) \/ (<<d, w>> \notin stamps /\ ~Gone(d)) => sent[d][w] <= faults
    BY DEF ReminderSound, SentCount
  <2> QED BY <1>4, <1>5, <2>1
<1>9. Reminders!StampEarned' /\ Reminders!MoveAnnounced'
  <2>1. Reminders!StampEarned'
    BY <1>1 DEF ReminderSound, Reminders!StampEarned
  <2>2. Reminders!MoveAnnounced'
    BY <1>1, <1>3 DEF ReminderSound, Reminders!MoveAnnounced
  <2> QED BY <2>1, <2>2
<1>10. SetInTime'
  BY <1>1, <1>3 DEF ReminderSound, SetInTime
<1>11. ChancesCount'
  <2> SUFFICES ASSUME NEW d \in Calls, NEW w \in Reminders!Windows, Owed(d, w)'
               PROVE  /\ ~Coming(d, w)' => clock <= Before(d, w)' + missed \/ Last(d, w)' <= Before(d, w)' + missed
                      /\ Coming(d, w)' => clock <= Before(d, w)' + missed + 1
    BY <1>1 DEF ChancesCount
  <2>1. d # c
    BY <1>3 DEF Owed
  <2>2. Owed(d, w) /\ Before(d, w)' = Before(d, w) /\ Last(d, w)' = Last(d, w)
    BY <1>1, <1>3, <2>1 DEF Owed, Before, Last
  <2>3. Coming(d, w)' <=> Coming(d, w)
    BY <1>1, <1>5, <2>2 DEF Coming
  <2> QED BY <2>2, <2>3 DEF ReminderSound, ChancesCount
<1> QED BY <1>6, <1>7, <1>8, <1>9, <1>10, <1>11 DEF ReminderSound

\* A step of the tick takes its chance for each owed reminder, is missed, or leaves it to come.
LEMMA ChancesAfter ==
    ASSUME ReminderTyped, ChancesCount, call' = call, clock' = clock, missed' \in {missed, missed + 1},
           \A c \in Calls, w \in Reminders!Windows :
              Owed(c, w)' => /\ Owed(c, w) /\ (Coming(c, w)' => Coming(c, w))
                             /\ Coming(c, w)' \/ ~Coming(c, w) \/ missed' = missed + 1
    PROVE  ChancesCount'
<1> SUFFICES ASSUME NEW c \in Calls, NEW w \in Reminders!Windows, Owed(c, w)'
             PROVE  /\ ~Coming(c, w)' => clock <= Before(c, w) + missed' \/ Last(c, w) <= Before(c, w) + missed'
                    /\ Coming(c, w)' => clock <= Before(c, w) + missed' + 1
  BY DEF ChancesCount, Before, Last
<1>1. /\ clock \in Nat /\ missed \in Nat /\ Before(c, w) \in Int /\ Last(c, w) \in Int
  BY CallSays
<1>2. /\ ~Coming(c, w) => clock <= Before(c, w) + missed \/ Last(c, w) <= Before(c, w) + missed
      /\ Coming(c, w) => clock <= Before(c, w) + missed + 1
  BY DEF ChancesCount
<1>3. CASE Coming(c, w)'
  <2>1. clock <= Before(c, w) + missed + 1
    BY <1>2, <1>3
  <2> QED BY <1>1, <1>3, <2>1
<1>4. CASE ~Coming(c, w)' /\ ~Coming(c, w)
  <2>1. clock <= Before(c, w) + missed \/ Last(c, w) <= Before(c, w) + missed
    BY <1>2, <1>4
  <2>2. clock <= Before(c, w) + missed' \/ Last(c, w) <= Before(c, w) + missed'
    BY <1>1, <2>1
  <2> QED BY <1>4, <2>2
<1>5. CASE ~Coming(c, w)' /\ Coming(c, w)
  <2>1. clock <= Before(c, w) + missed + 1 /\ missed' = missed + 1
    BY <1>2, <1>5
  <2>2. clock <= Before(c, w) + missed'
    BY <1>1, <2>1
  <2> QED BY <1>5, <2>2
<1> QED BY <1>3, <1>4, <1>5

\* Where the tick has come to, once the rows b of its window are left.
LEMMA TickMovesOn ==
    ASSUME ReminderTyped, TickSays, "-" \notin Calls, tick.pc \in {"each", "event"}, NEW b \in SUBSET tick.batch,
           tick' = Reminders!Rest(b), call' = call
    PROVE  /\ \A r \in ReadRow : InHands(r)' => r \in b
           /\ \A c \in Calls, w \in Reminders!Windows :
                 /\ ~Telling(c, w)' /\ (Coming(c, w)' => Coming(c, w))
                 /\ Coming(c, w) /\ ~Coming(c, w)' =>
                       tick.w = w /\ \E r \in ReadRow : InHands(r) /\ r.id = c /\ r \notin b
<1>1. /\ tick.w \in Reminders!Windows /\ tick.batch \in SUBSET ReadRow /\ Reminders!NoRow \notin ReadRow
  BY DEF ReminderTyped, TickRow, ReadRow, Reminders!NoRow
<1>2. /\ tick'.pc \in {"idle", "query", "each"} /\ tick'.cur = Reminders!NoRow
      /\ tick'.pc \in {"idle", "query"} => tick'.batch = {} /\ b = {}
      /\ tick'.pc = "each" => tick'.batch = b /\ tick'.w = tick.w
      /\ tick'.pc = "query" => tick.w = "min60" /\ tick'.w = "min10"
      /\ tick'.pc # "idle" => tick'.now = tick.now
      /\ tick'.pc = "idle" => tick.w = "min10"
  BY RestSays
<1>3. \A r \in ReadRow : (InHands(r)' => r \in b) /\ (r \in b => InHands(r) /\ InHands(r)')
  BY <1>1, <1>2 DEF InHands
<1>4. ASSUME NEW c \in Calls, NEW w \in Reminders!Windows
      PROVE  /\ ~Telling(c, w)' /\ (Coming(c, w)' => Coming(c, w))
             /\ Coming(c, w) /\ ~Coming(c, w)' =>
                       tick.w = w /\ \E r \in ReadRow : InHands(r) /\ r.id = c /\ r \notin b
  <2>1. ~Telling(c, w)'
    BY <1>2 DEF Telling
  <2>2. Before(c, w)' = Before(c, w) /\ Last(c, w)' = Last(c, w)
    BY DEF Before, Last
  <2>3. Coming(c, w)' => Coming(c, w)
    <3> SUFFICES ASSUME Coming(c, w)' PROVE Coming(c, w)
      OBVIOUS
    <3>1. /\ tick'.pc \in {"query", "each"}
          /\ tick'.now > Before(c, w) /\ tick'.now <= Last(c, w)
          /\ \/ tick'.w = "min60" /\ w = "min10"
             \/ tick'.w = w /\ \/ tick'.pc = "query"
                               \/ \E r \in ReadRow : InHands(r)' /\ r.id = c
      BY <1>2, <2>2 DEF Coming
    <3>2. tick.pc # "idle" /\ tick.now > Before(c, w) /\ tick.now <= Last(c, w)
      BY <1>2, <3>1
    <3>3. CASE tick'.pc = "query"
      BY <1>2, <3>1, <3>2, <3>3 DEF Coming
    <3>4. CASE tick'.pc = "each"
      <4>1. tick'.w = tick.w
        BY <1>2, <3>4
      <4> QED BY <1>3, <3>1, <3>2, <3>4, <4>1 DEF Coming
    <3> QED BY <3>1, <3>3, <3>4
  <2>4. ASSUME Coming(c, w), ~Coming(c, w)'
        PROVE  tick.w = w /\ \E r \in ReadRow : InHands(r) /\ r.id = c /\ r \notin b
    <3>1. /\ tick.now > Before(c, w) /\ tick.now <= Last(c, w)
          /\ \/ tick.w = "min60" /\ w = "min10"
             \/ tick.w = w /\ \E r \in ReadRow : InHands(r) /\ r.id = c
      BY <2>4 DEF Coming
    <3>2. CASE tick.w = "min60" /\ w = "min10"
      BY <1>2, <2>2, <2>4, <3>1, <3>2 DEF Coming
    <3>3. CASE tick.w = w /\ \E r \in ReadRow : InHands(r) /\ r.id = c
      <4>1. PICK r \in ReadRow : InHands(r) /\ r.id = c
        BY <3>3
      <4>2. CASE r \in b
        <5>1. tick'.pc = "each" /\ tick'.w = w /\ tick'.now = tick.now /\ InHands(r)'
          BY <1>2, <1>3, <3>3, <4>2
        <5>2. Coming(c, w)'
          BY <2>2, <3>1, <4>1, <5>1 DEF Coming
        <5> QED BY <2>4, <5>2
      <4> QED BY <3>3, <4>1, <4>2
    <3> QED BY <3>1, <3>2, <3>3
  <2> QED BY <2>1, <2>3, <2>4
<1> QED BY <1>3, <1>4

\* The query of a window offers each reminder that is owed in it.
LEMMA WindowRead == ASSUME ReminderLimits, ReminderInv, Reminders!Query PROVE ReminderSound'
<1> USE DEF ReminderInv
<1> DEFINE rows == {Reminders!Row(c) : c \in {d \in Calls : Reminders!InWindow(d, tick.w) /\ Reminders!Due(d, tick.w)}}
<1>1. /\ tick.pc = "query" /\ UNCHANGED <<clock, stamps, sent, hurt, call, notices, missed, faults>>
      /\ tick.cur = Reminders!NoRow /\ tick.batch = {}
  BY DEF Reminders!Query, Reminders!callVars, Reminders!faultVars, TickSays
<1>2. tick' = IF rows = {} THEN Reminders!AfterWindow ELSE [tick EXCEPT !.pc = "each", !.batch = rows]
  BY DEF Reminders!Query
<1>3. /\ tick \in TickRow /\ tick.w \in Reminders!Windows /\ tick.now \in Nat /\ Reminders!NoRow \notin ReadRow
  BY DEF ReminderTyped, TickRow, ReminderLimits, ReadRow, Reminders!NoRow
<1> HIDE DEF rows
<1>4. /\ tick'.cur = Reminders!NoRow /\ tick'.batch = rows /\ tick'.pc \in {"idle", "query", "each"}
      /\ tick'.pc # "idle" => tick'.now = tick.now
      /\ rows # {} => tick'.pc = "each" /\ tick'.w = tick.w
      /\ rows = {} /\ tick.w = "min60" => tick'.pc = "query" /\ tick'.w = "min10"
      /\ rows = {} /\ tick.w # "min60" => tick'.pc = "idle"
  BY <1>1, <1>2, <1>3 DEF Reminders!AfterWindow, Reminders!IdleTick, TickRow
<1>5. \A r \in ReadRow : InHands(r)' <=> r \in rows
  BY <1>3, <1>4 DEF InHands
<1>6. \A c \in Calls, w \in Reminders!Windows : ~Telling(c, w) /\ ~Telling(c, w)'
  BY <1>1, <1>4 DEF Telling
<1>7. \A c \in Calls : /\ Reminders!Row(c) \in rows <=> Reminders!InWindow(c, tick.w) /\ Reminders!Due(c, tick.w)
                       /\ Reminders!Row(c) \in ReadRow /\ Reminders!Row(c).id = c
  <2>1. \A c \in Calls : call[c].at \in Nat /\ call[c].anchor \in Nat /\ call[c].version \in Nat
    BY DEF ReminderTyped, CallRow
  <2> QED BY <2>1 DEF rows, Reminders!Row, ReadRow
<1>8. RowsKnown'
  <2> SUFFICES ASSUME NEW r \in ReadRow, r \in rows
               PROVE  call[r.id].st # "none" /\ r.version = call[r.id].version /\ call[r.id].version \in Nat
    BY <1>1, <1>5 DEF RowsKnown
  <2>1. PICK c \in Calls : r = Reminders!Row(c) /\ call[c].st = "scheduled"
    BY DEF rows, Reminders!InWindow
  <2>2. call[c].version \in Nat
    BY DEF ReminderTyped, CallRow
  <2> QED BY <2>1, <2>2 DEF Reminders!Row
<1>9. ToldIsStamped' /\ SentCount' /\ Reminders!StampEarned'
  <2>1. ToldIsStamped'
    BY <1>6 DEF ToldIsStamped
  <2>2. SentCount'
    BY <1>1, <1>6 DEF ReminderSound, SentCount, Gone
  <2>3. Reminders!StampEarned'
    BY <1>1 DEF ReminderSound, Reminders!StampEarned
  <2> QED BY <2>1, <2>2, <2>3
<1>10. SetInTime' /\ Reminders!MoveAnnounced'
  BY <1>1 DEF ReminderSound, SetInTime, Reminders!MoveAnnounced
<1>11. ASSUME NEW c \in Calls, NEW w \in Reminders!Windows, Owed(c, w)'
       PROVE  Owed(c, w) /\ (Coming(c, w)' <=> Coming(c, w))
  <2>1. Owed(c, w)
    BY <1>1, <1>11 DEF Owed
  <2>2. Before(c, w)' = Before(c, w) /\ Last(c, w)' = Last(c, w)
    BY <1>1 DEF Before, Last
  <2>3. ASSUME Coming(c, w)' PROVE Coming(c, w)
    BY <1>1, <1>4, <2>2, <2>3 DEF Coming
  <2>4. ASSUME Coming(c, w) PROVE Coming(c, w)'
    <3>1. tick.now > Before(c, w) /\ tick.now <= Last(c, w) /\ (tick.w = w \/ (tick.w = "min60" /\ w = "min10"))
      BY <2>4 DEF Coming
    <3>2. CASE tick.w = w
      <4>1. Reminders!InWindow(c, w) /\ Reminders!Due(c, w)
        <5>1. /\ Reminders!Offset[w] \in {2, 12} /\ call[c].at \in Nat /\ call[c].anchor \in Nat
              /\ Before(c, w) \in Int /\ Last(c, w) \in Int /\ Before(c, w) >= call[c].at - Reminders!Offset[w] - 2
              /\ Last(c, w) < call[c].at /\ Last(c, w) <= call[c].at - Reminders!Offset[w] + 2
          BY CallSays
        <5>2. call[c].st = "scheduled" /\ call[c].at - call[c].anchor >= Reminders!Offset[w]
          BY <2>1 DEF Owed
        <5> QED BY <1>3, <3>1, <5>1, <5>2 DEF Reminders!InWindow, Reminders!Due, Reminders!Catchup, Reminders!Period
      <4>2. PICK r \in ReadRow : r \in rows /\ r.id = c
        BY <1>7, <3>2, <4>1
      <4>3. tick'.pc = "each" /\ tick'.w = w /\ tick'.now = tick.now /\ InHands(r)'
        BY <1>4, <1>5, <3>2, <4>2
      <4> QED BY <2>2, <3>1, <4>2, <4>3 DEF Coming
    <3>3. CASE tick.w = "min60" /\ w = "min10"
      <4>1. tick'.pc # "idle" /\ tick'.now = tick.now /\ (tick'.w = "min60" \/ (tick'.pc = "query" /\ tick'.w = "min10"))
        BY <1>4, <3>3
      <4> QED BY <2>2, <3>1, <3>3, <4>1 DEF Coming
    <3> QED BY <3>1, <3>2, <3>3
  <2> QED BY <2>1, <2>3, <2>4
<1>12. ChancesCount'
  BY <1>1, <1>11, ChancesAfter DEF ReminderSound
<1> QED BY <1>8, <1>9, <1>10, <1>12 DEF ReminderSound

\* A row whose reminder is stamped already, or whose call is gone, is passed over.
LEMMA RowPassed ==
    ASSUME ReminderLimits, ReminderInv, NEW r \in tick.batch,
           tick.pc = "each", tick' = Reminders!Rest(tick.batch \ {r}),
           UNCHANGED <<clock, stamps, sent, hurt, call, notices, faults>>,
           \/ missed' = missed + 1
           \/ missed' = missed /\ (<<r.id, tick.w>> \in stamps \/ call[r.id].st = "deleted")
    PROVE  ReminderSound'
<1> USE DEF ReminderInv
<1>1. tick.batch \in SUBSET ReadRow /\ r \in ReadRow /\ r.id \in Calls /\ "-" \notin Calls
  BY DEF ReminderTyped, TickRow, ReadRow, ReminderLimits
<1>2. /\ \A q \in ReadRow : InHands(q)' => q \in tick.batch \ {r}
      /\ \A c \in Calls, w \in Reminders!Windows :
            /\ ~Telling(c, w)' /\ (Coming(c, w)' => Coming(c, w))
            /\ Coming(c, w) /\ ~Coming(c, w)' =>
                  tick.w = w /\ \E q \in ReadRow : InHands(q) /\ q.id = c /\ q \notin tick.batch \ {r}
  BY <1>1, TickMovesOn, tick.batch \ {r} \in SUBSET tick.batch
<1>3. \A c \in Calls, w \in Reminders!Windows : ~Telling(c, w)
  BY DEF Telling
<1>4. \A q \in ReadRow : InHands(q) <=> q \in tick.batch
  BY <1>1 DEF TickSays, InHands, Reminders!NoRow, ReadRow
<1>5. RowsKnown'
  BY <1>2, <1>4 DEF ReminderSound, RowsKnown
<1>6. ToldIsStamped' /\ SentCount' /\ Reminders!StampEarned'
  <2>1. ToldIsStamped'
    BY <1>2 DEF ToldIsStamped
  <2>2. SentCount'
    BY <1>2, <1>3 DEF ReminderSound, SentCount, Gone
  <2>3. Reminders!StampEarned'
    BY DEF ReminderSound, Reminders!StampEarned
  <2> QED BY <2>1, <2>2, <2>3
<1>7. SetInTime' /\ Reminders!MoveAnnounced'
  BY DEF ReminderSound, SetInTime, Reminders!MoveAnnounced
<1>8. ASSUME NEW c \in Calls, NEW w \in Reminders!Windows, Owed(c, w)', Coming(c, w), ~Coming(c, w)'
      PROVE  missed' = missed + 1
  <2>1. tick.w = w /\ r.id = c
    BY <1>2, <1>4, <1>8
  <2>2. call[c].st = "scheduled" /\ <<c, w>> \notin hurt /\ sent[c][w] = 0
    BY <1>8 DEF Owed
  <2>3. <<c, w>> \notin stamps
    <3>1. <<c, w>> \in stamps => sent[c][w] > 0 \/ tick.pc = "event" \/ <<c, w>> \in hurt
      BY DEF ReminderSound, Reminders!StampEarned
    <3> QED BY <2>2, <3>1
  <2> QED BY <2>1, <2>2, <2>3
<1>9. \A c \in Calls, w \in Reminders!Windows : Owed(c, w)' => Owed(c, w)
  BY DEF Owed
<1>10. ChancesCount'
  BY <1>2, <1>8, <1>9, ChancesAfter DEF ReminderSound
<1> QED BY <1>5, <1>6, <1>7, <1>10 DEF ReminderSound

\* The reminder of a row is stamped before its event.
LEMMA RowStamped ==
    ASSUME ReminderLimits, ReminderInv, NEW r \in tick.batch, tick.pc = "each",
           <<r.id, tick.w>> \notin stamps, call[r.id].st # "deleted",
           stamps' = stamps \cup {<<r.id, tick.w>>},
           tick' = [tick EXCEPT !.batch = @ \ {r}, !.pc = "event", !.cur = r],
           UNCHANGED <<clock, sent, hurt, call, notices, faults, missed>>
    PROVE  ReminderSound'
<1> USE DEF ReminderInv
<1>1. /\ tick \in TickRow /\ tick.batch \in SUBSET ReadRow /\ r \in ReadRow /\ r.id \in Calls /\ "-" \notin Calls
      /\ tick.w \in Reminders!Windows
  BY DEF ReminderTyped, TickRow, ReadRow, ReminderLimits
<1>2. tick'.pc = "event" /\ tick'.cur = r /\ tick'.batch = tick.batch \ {r} /\ tick'.w = tick.w /\ tick'.now = tick.now
  BY <1>1 DEF TickRow
<1>3. \A q \in ReadRow : InHands(q) <=> q \in tick.batch
  BY <1>1 DEF TickSays, InHands, Reminders!NoRow, ReadRow
<1>4. \A q \in ReadRow : InHands(q)' <=> InHands(q)
  BY <1>2, <1>3 DEF InHands
<1>5. \A c \in Calls, w \in Reminders!Windows : ~Telling(c, w) /\ (Telling(c, w)' <=> c = r.id /\ w = tick.w)
  BY <1>2 DEF Telling
<1>6. RowsKnown'
  BY <1>4 DEF ReminderSound, RowsKnown
<1>7. ToldIsStamped'
  BY <1>5 DEF ToldIsStamped
<1>8. SentCount'
  BY <1>1, <1>5 DEF ReminderSound, SentCount, Gone
<1>9. Reminders!StampEarned'
  <2> SUFFICES ASSUME NEW s \in stamps' PROVE sent[s[1]][s[2]] > 0 \/ (r.id = s[1] /\ tick.w = s[2]) \/ s \in hurt
    BY <1>2 DEF Reminders!StampEarned
  <2> QED BY DEF ReminderSound, Reminders!StampEarned
<1>10. SetInTime' /\ Reminders!MoveAnnounced'
  BY DEF ReminderSound, SetInTime, Reminders!MoveAnnounced
<1>11. \A c \in Calls, w \in Reminders!Windows : Owed(c, w)' <=> Owed(c, w)
  BY DEF Owed
<1>12. \A c \in Calls, w \in Reminders!Windows : Coming(c, w)' <=> Coming(c, w)
  <2> TAKE c \in Calls, w \in Reminders!Windows
  <2>1. Before(c, w)' = Before(c, w) /\ Last(c, w)' = Last(c, w)
    BY DEF Before, Last
  <2> QED BY <1>2, <1>4, <2>1 DEF Coming
<1>13. missed' = missed
  OBVIOUS
<1>14. ChancesCount'
  BY <1>11, <1>12, <1>13, ChancesAfter DEF ReminderSound
<1> QED BY <1>6, <1>7, <1>8, <1>9, <1>10, <1>14 DEF ReminderSound

\* The event of a stamped reminder: it counts, or the stamp is taken back, or what went
\* wrong is on record.
LEMMA EventTold ==
    ASSUME ReminderLimits, ReminderInv, tick.pc = "event", tick' = Reminders!Rest(tick.batch),
           UNCHANGED <<clock, call, notices>>,
           \/ sent' = Reminders!Emitted(tick.cur, tick.w) /\ UNCHANGED <<stamps, hurt, faults, missed>>
           \/ stamps' = Reminders!Unstamped /\ missed' = missed + 1 /\ UNCHANGED <<sent, hurt, faults>>
           \/ sent' = Reminders!Emitted(tick.cur, tick.w) /\ stamps' = Reminders!Unstamped /\ faults' = faults + 1 /\ UNCHANGED <<hurt, missed>>
           \/ hurt' = hurt \cup {<<tick.cur.id, tick.w>>} /\ faults' = faults + 1 /\ UNCHANGED <<sent, stamps, missed>>
    PROVE  ReminderSound'
<1> USE DEF ReminderInv
<1> DEFINE c == tick.cur.id
           w == tick.w
<1>1. /\ tick.cur \in ReadRow /\ c \in Calls /\ w \in Reminders!Windows /\ tick.batch \in SUBSET ReadRow /\ "-" \notin Calls
      /\ faults \in Nat /\ sent \in [Calls -> [Reminders!Windows -> Nat]] /\ missed \in Nat
  BY DEF ReminderTyped, TickRow, TickSays, ReadRow, ReminderLimits
<1>2. /\ \A q \in ReadRow : InHands(q)' => q \in tick.batch
      /\ \A d \in Calls, v \in Reminders!Windows :
            /\ ~Telling(d, v)' /\ (Coming(d, v)' => Coming(d, v))
            /\ Coming(d, v) /\ ~Coming(d, v)' =>
                  tick.w = v /\ \E q \in ReadRow : InHands(q) /\ q.id = d /\ q \notin tick.batch
  BY <1>1, TickMovesOn, tick.batch \in SUBSET tick.batch
<1>3. Telling(c, w) /\ \A d \in Calls, v \in Reminders!Windows : Telling(d, v) => d = c /\ v = w
  BY DEF Telling
<1> DEFINE counts == sent' = Reminders!Emitted(tick.cur, tick.w)
<1>4. counts => /\ \A d \in Calls, v \in Reminders!Windows : d # c \/ v # w => sent'[d][v] = sent[d][v]
                /\ sent'[c][w] \in {sent[c][w], sent[c][w] + 1}
                /\ tick.cur.version = call[c].version => sent'[c][w] = sent[c][w] + 1
                /\ tick.cur.version # call[c].version => sent'[c][w] = sent[c][w]
  <2>1. sent[c] \in [Reminders!Windows -> Nat]
    BY <1>1
  <2>2. CASE tick.cur.version = call[c].version
    <3> SUFFICES ASSUME counts
                 PROVE  /\ \A d \in Calls, v \in Reminders!Windows : d # c \/ v # w => sent'[d][v] = sent[d][v]
                        /\ sent'[c][w] = sent[c][w] + 1
      BY <2>2
    <3>1. sent' = [sent EXCEPT ![c] = [sent[c] EXCEPT ![w] = sent[c][w] + 1]]
      BY <2>2 DEF Reminders!Emitted
    <3>2. /\ sent'[c] = [sent[c] EXCEPT ![w] = sent[c][w] + 1]
          /\ \A d \in Calls : d # c => sent'[d] = sent[d]
      <4> HIDE DEF c, w
      <4> QED BY <1>1, <3>1
    <3>3. sent'[c][w] = sent[c][w] + 1 /\ \A v \in Reminders!Windows : v # w => sent'[c][v] = sent[c][v]
      <4> HIDE DEF c, w
      <4> QED BY <1>1, <2>1, <3>2
    <3> QED BY <3>2, <3>3
  <2>3. CASE tick.cur.version # call[c].version
    BY <2>3 DEF Reminders!Emitted
  <2> QED BY <2>2, <2>3
<1>5. \A d \in Calls, v \in Reminders!Windows : d # c \/ v # w => sent'[d][v] = sent[d][v]
  BY <1>4
<1>6. tick.cur.version # call[c].version => <<c, w>> \in hurt
  BY <1>1 DEF ReminderSound, RowsKnown, InHands
<1>7. hurt \subseteq hurt' /\ hurt' \subseteq hurt \union {<<c, w>>}
  OBVIOUS
<1>8. /\ stamps' \subseteq stamps /\ stamps \subseteq stamps' \union {<<c, w>>}
      /\ \A d \in Calls, v \in Reminders!Windows : d # c \/ v # w => (<<d, v>> \in stamps' <=> <<d, v>> \in stamps)
  BY DEF Reminders!Unstamped
<1>9. faults' \in Nat /\ faults <= faults'
  BY <1>1
<1>10. RowsKnown'
  <2>1. \A q \in ReadRow : q \in tick.batch => InHands(q)
    BY DEF InHands
  <2> QED BY <1>2, <1>7, <2>1 DEF ReminderSound, RowsKnown
<1>11. ToldIsStamped'
  BY <1>2 DEF ToldIsStamped
<1>12. sent[c][w] <= faults /\ sent[c][w] \in Nat /\ (<<c, w>> \in stamps \/ Gone(c) \/ tick.cur.version # call[c].version)
  BY <1>1, <1>3 DEF ReminderSound, SentCount, ToldIsStamped
<1>13. SentCount'
  <2> SUFFICES ASSUME NEW d \in Calls, NEW v \in Reminders!Windows
               PROVE  /\ sent'[d][v] <= faults' + 1
                      /\ <<d, v>> \notin stamps' /\ ~Gone(d)' => sent'[d][v] <= faults'
    BY <1>2 DEF SentCount
  <2>1. Gone(d)' <=> Gone(d)
    BY DEF Gone
  <2>2. CASE d # c \/ v # w
    <3>1. /\ sent[d][v] <= faults + 1 /\ sent[d][v] \in Nat
          /\ <<d, v>> \notin stamps /\ ~Gone(d) => sent[d][v] <= faults
      BY <1>1 DEF ReminderSound, SentCount
    <3>2. sent'[d][v] = sent[d][v] /\ (<<d, v>> \in stamps' <=> <<d, v>> \in stamps)
      BY <1>5, <1>8, <2>2
    <3>3. sent[d][v] <= faults' + 1 /\ (sent[d][v] <= faults => sent[d][v] <= faults')
      BY <1>1, <1>9, <3>1
    <3> QED BY <2>1, <3>1, <3>2, <3>3
  <2>3. CASE d = c /\ v = w
    <3>1. CASE counts /\ stamps' = stamps /\ faults' = faults
      <4>1. sent'[c][w] <= faults' + 1
        BY <1>1, <1>4, <1>12, <3>1
      <4>2. <<c, w>> \notin stamps /\ ~Gone(c) => sent'[c][w] <= faults'
        BY <1>4, <1>12, <3>1
      <4> QED BY <2>1, <2>3, <3>1, <4>1, <4>2
    <3>2. CASE sent' = sent
      <4>1. sent[c][w] <= faults' + 1 /\ sent[c][w] <= faults'
        BY <1>1, <1>9, <1>12
      <4> QED BY <2>3, <3>2, <4>1
    <3>3. CASE counts /\ faults' = faults + 1
      <4>1. sent'[c][w] <= faults' + 1 /\ sent'[c][w] <= faults'
        BY <1>1, <1>4, <1>12, <3>3
      <4> QED BY <2>3, <4>1
    <3> QED BY <3>1, <3>2, <3>3
  <2> QED BY <2>2, <2>3
<1>14. <<c, w>> \in stamps' => sent'[c][w] > 0 \/ <<c, w>> \in hurt'
  <2>1. CASE counts
    <3>1. CASE tick.cur.version = call[c].version
      <4>1. sent'[c][w] = sent[c][w] + 1
        BY <1>4, <2>1, <3>1
      <4>2. sent[c][w] + 1 > 0
        BY <1>12
      <4> QED BY <4>1, <4>2
    <3> QED BY <1>6, <1>7, <3>1
  <2>2. CASE stamps' = Reminders!Unstamped
    BY <2>2 DEF Reminders!Unstamped
  <2>3. CASE hurt' = hurt \cup {<<tick.cur.id, tick.w>>}
    BY <2>3
  <2> QED BY <2>1, <2>2, <2>3
<1>15. Reminders!StampEarned'
  <2> SUFFICES ASSUME NEW s \in stamps' PROVE sent'[s[1]][s[2]] > 0 \/ s \in hurt'
    BY DEF Reminders!StampEarned
  <2>1. s \in stamps /\ s \in Calls \X Reminders!Windows
    BY <1>8 DEF ReminderTyped
  <2>2. PICK d \in Calls, v \in Reminders!Windows : s = <<d, v>>
    BY <2>1
  <2>3. CASE d = c /\ v = w
    BY <1>14, <2>2, <2>3
  <2>4. CASE d # c \/ v # w
    <3>1. sent[d][v] > 0 \/ Telling(d, v) \/ s \in hurt
      BY <2>1, <2>2 DEF ReminderSound, Reminders!StampEarned, Telling
    <3> QED BY <1>3, <1>5, <1>7, <2>2, <2>4, <3>1
  <2> QED BY <2>3, <2>4
<1>16. SetInTime'
  BY <1>7 DEF ReminderSound, SetInTime
<1>17. Reminders!MoveAnnounced'
  <2>1. faults' = 0 => faults = 0
    BY <1>1, <1>9
  <2>2. \A d \in Calls : ({d} \X Reminders!Windows) \cap hurt' = {} => ({d} \X Reminders!Windows) \cap hurt = {}
    BY <1>7
  <2> QED BY <2>1, <2>2 DEF ReminderSound, Reminders!MoveAnnounced
<1>18. ASSUME NEW d \in Calls, NEW v \in Reminders!Windows, Owed(d, v)'
       PROVE  Owed(d, v) /\ (Coming(d, v)' \/ ~Coming(d, v) \/ missed' = missed + 1)
  <2>1. call[d].st = "scheduled" /\ call[d].at - call[d].anchor >= Reminders!Offset[v] /\ <<d, v>> \notin hurt' /\ sent'[d][v] = 0
    BY <1>18 DEF Owed
  <2>2. CASE d # c \/ v # w
    <3>1. Owed(d, v)
      BY <1>5, <1>7, <2>1, <2>2 DEF Owed
    <3>2. \A q \in ReadRow : InHands(q) => q \in tick.batch \/ q = tick.cur
      BY DEF InHands
    <3> QED BY <1>2, <2>2, <3>1, <3>2
  <2>3. CASE d = c /\ v = w
    <3>1. <<c, w>> \notin hurt /\ tick.cur.version = call[c].version
      BY <1>6, <1>7, <2>1, <2>3
    <3>2. ~counts
      <4>1. sent[c][w] + 1 # 0
        BY <1>12
      <4> QED BY <1>4, <2>1, <2>3, <3>1, <4>1
    <3>3. missed' = missed + 1 /\ sent' = sent
      BY <2>1, <2>3, <3>2
    <3> QED BY <2>1, <2>3, <3>1, <3>3 DEF Owed
  <2> QED BY <2>2, <2>3
<1>19. ChancesCount'
  <2>1. missed' \in {missed, missed + 1}
    OBVIOUS
  <2> QED BY <1>2, <1>18, <2>1, ChancesAfter DEF ReminderSound
<1> QED BY <1>10, <1>11, <1>13, <1>15, <1>16, <1>17, <1>19 DEF ReminderSound

\* A tick that ends early, in a failed query or with its process, has missed its chances;
\* a stamp without its event is on record.
LEMMA TickCut ==
    ASSUME ReminderLimits, ReminderInv, tick' = Reminders!IdleTick, UNCHANGED <<clock, call, stamps, sent, notices>>,
           IF tick.pc = "event" THEN faults' = faults + 1 /\ hurt' = hurt \cup {<<tick.cur.id, tick.w>>}
           ELSE UNCHANGED <<faults, hurt>>,
           missed' = IF tick.pc = "idle" THEN missed ELSE missed + 1
    PROVE  ReminderSound'
<1> USE DEF ReminderInv
<1>1. tick'.pc = "idle" /\ tick'.batch = {} /\ tick'.cur = Reminders!NoRow /\ Reminders!NoRow \notin ReadRow
  BY DEF Reminders!IdleTick, ReminderLimits, ReadRow, Reminders!NoRow
<1>2. /\ \A r \in ReadRow : ~InHands(r)'
      /\ \A c \in Calls, w \in Reminders!Windows : ~Telling(c, w)' /\ ~Coming(c, w)' /\ (Gone(c)' <=> Gone(c))
  BY <1>1 DEF InHands, Telling, Coming, Gone
<1>3. /\ faults \in Nat /\ faults' \in Nat /\ faults <= faults' /\ hurt \subseteq hurt'
      /\ (faults' = 0 => faults = 0)
  BY DEF ReminderTyped
<1>4. \A c \in Calls, w \in Reminders!Windows : Telling(c, w) => <<c, w>> \in hurt' /\ sent[c][w] <= faults
  BY DEF Telling, ReminderSound, SentCount
<1>5. RowsKnown' /\ ToldIsStamped'
  BY <1>2 DEF RowsKnown, ToldIsStamped
<1>6. SentCount'
  <2> SUFFICES ASSUME NEW c \in Calls, NEW w \in Reminders!Windows
               PROVE  /\ sent[c][w] <= faults' + 1
                      /\ <<c, w>> \notin stamps /\ ~Gone(c) => sent[c][w] <= faults'
    BY <1>2 DEF SentCount
  <2>1. /\ sent[c][w] <= faults + 1 /\ sent[c][w] \in Nat
        /\ <<c, w>> \notin stamps /\ ~Gone(c) => sent[c][w] <= faults
    BY CallSays DEF ReminderSound, SentCount
  <2>2. sent[c][w] <= faults' + 1 /\ (sent[c][w] <= faults => sent[c][w] <= faults')
    BY <1>3, <2>1
  <2> QED BY <2>1, <2>2
<1>7. Reminders!StampEarned'
  <2> SUFFICES ASSUME NEW s \in stamps PROVE sent[s[1]][s[2]] > 0 \/ s \in hurt'
    BY DEF Reminders!StampEarned
  <2>1. PICK d \in Calls, v \in Reminders!Windows : s = <<d, v>>
    BY DEF ReminderTyped
  <2>2. sent[d][v] > 0 \/ Telling(d, v) \/ s \in hurt
    BY <2>1 DEF ReminderSound, Reminders!StampEarned, Telling
  <2> QED BY <1>3, <1>4, <2>1, <2>2
<1>8. SetInTime'
  BY <1>3 DEF ReminderSound, SetInTime
<1>9. Reminders!MoveAnnounced'
  <2>1. \A d \in Calls : ({d} \X Reminders!Windows) \cap hurt' = {} => ({d} \X Reminders!Windows) \cap hurt = {}
    BY <1>3
  <2> QED BY <1>3, <2>1 DEF ReminderSound, Reminders!MoveAnnounced
<1>10. \A c \in Calls, w \in Reminders!Windows : Owed(c, w)' => Owed(c, w) /\ (~Coming(c, w) \/ missed' = missed + 1)
  BY <1>3 DEF Owed, Coming
<1>11. ChancesCount'
  BY <1>2, <1>10, ChancesAfter DEF ReminderSound
<1> QED BY <1>5, <1>6, <1>7, <1>8, <1>9, <1>11 DEF ReminderSound

\* Each boundary starts a tick or is missed.
LEMMA BoundaryPassed == ASSUME ReminderLimits, ReminderInv, Reminders!Boundary PROVE ReminderSound'
<1> USE DEF ReminderInv
<1>1. clock' = clock + 1 /\ UNCHANGED <<stamps, sent, hurt, faults, call, notices>> /\ clock \in Nat /\ missed \in Nat
  BY DEF Reminders!Boundary, Reminders!callVars, ReminderTyped
<1>2. \/ /\ tick.pc = "idle" /\ missed' = missed
         /\ tick' = [pc |-> "query", w |-> "min60", now |-> clock + 1, batch |-> {}, cur |-> Reminders!NoRow]
      \/ tick' = tick /\ missed' = missed + 1
  BY DEF Reminders!Boundary, Reminders!IdleTick, Reminders!Miss
<1>3. /\ \A r \in ReadRow : InHands(r)' => InHands(r)
      /\ \A c \in Calls, w \in Reminders!Windows : (Telling(c, w)' <=> Telling(c, w)) /\ (Telling(c, w) => tick' = tick)
  BY <1>2 DEF InHands, Telling, Reminders!NoRow, ReadRow, ReminderLimits
<1>4. RowsKnown'
  BY <1>1, <1>3 DEF ReminderSound, RowsKnown
<1>5. ToldIsStamped'
  BY <1>1, <1>3 DEF ReminderSound, ToldIsStamped, Gone
<1>6. SentCount'
  BY <1>1, <1>3 DEF ReminderSound, SentCount, Gone
<1>7. Reminders!StampEarned'
  BY <1>1, <1>2 DEF ReminderSound, Reminders!StampEarned
<1>8. SetInTime' /\ Reminders!MoveAnnounced'
  BY <1>1 DEF ReminderSound, SetInTime, Reminders!MoveAnnounced
<1>9. ChancesCount'
  <2> SUFFICES ASSUME NEW c \in Calls, NEW w \in Reminders!Windows, Owed(c, w)
               PROVE  /\ ~Coming(c, w)' => clock + 1 <= Before(c, w) + missed' \/ Last(c, w) <= Before(c, w) + missed'
                      /\ Coming(c, w)' => clock + 1 <= Before(c, w) + missed' + 1
    BY <1>1 DEF ChancesCount, Owed, Before, Last
  <2>1. Before(c, w) \in Int /\ Last(c, w) \in Int
    BY CallSays
  <2>2. /\ ~Coming(c, w) => clock <= Before(c, w) + missed \/ Last(c, w) <= Before(c, w) + missed
        /\ Coming(c, w) => clock <= Before(c, w) + missed + 1
    BY DEF ReminderSound, ChancesCount
  <2>3. CASE tick' = tick /\ missed' = missed + 1
    <3>1. Coming(c, w)' <=> Coming(c, w)
      BY <1>1, <2>3 DEF Coming, InHands, Before, Last
    <3>2. CASE Coming(c, w)
      <4>1. clock + 1 <= Before(c, w) + missed' + 1
        BY <1>1, <2>1, <2>2, <2>3, <3>2
      <4> QED BY <3>1, <3>2, <4>1
    <3>3. CASE ~Coming(c, w)
      <4>1. clock <= Before(c, w) + missed \/ Last(c, w) <= Before(c, w) + missed
        BY <2>2, <3>3
      <4>2. clock + 1 <= Before(c, w) + missed' \/ Last(c, w) <= Before(c, w) + missed'
        BY <1>1, <2>1, <2>3, <4>1
      <4> QED BY <3>1, <3>3, <4>2
    <3> QED BY <3>2, <3>3
  <2>4. CASE tick.pc = "idle" /\ missed' = missed /\
             tick' = [pc |-> "query", w |-> "min60", now |-> clock + 1, batch |-> {}, cur |-> Reminders!NoRow]
    <3>1. ~Coming(c, w)
      BY <2>4 DEF Coming
    <3>2. clock <= Before(c, w) + missed \/ Last(c, w) <= Before(c, w) + missed
      BY <2>2, <3>1
    <3>3. Coming(c, w)' <=> clock + 1 > Before(c, w) /\ clock + 1 <= Last(c, w)
      <4>1. Before(c, w)' = Before(c, w) /\ Last(c, w)' = Last(c, w)
        BY <1>1 DEF Before, Last
      <4>2. w \in {"min60", "min10"}
        BY DEF Reminders!Windows
      <4> QED BY <2>4, <4>1, <4>2 DEF Coming
    <3>4. CASE Coming(c, w)'
      <4>1. clock + 1 <= Before(c, w) + missed' + 1
        BY <1>1, <2>1, <2>4, <3>2, <3>3, <3>4
      <4> QED BY <3>4, <4>1
    <3>5. CASE ~Coming(c, w)'
      <4>1. clock + 1 <= Before(c, w) \/ clock + 1 > Last(c, w)
        BY <1>1, <2>1, <3>3, <3>5
      <4>2. clock + 1 <= Before(c, w) + missed' \/ Last(c, w) <= Before(c, w) + missed'
        BY <1>1, <2>1, <2>4, <3>2, <4>1
      <4> QED BY <3>5, <4>2
    <3> QED BY <3>4, <3>5
  <2> QED BY <1>2, <2>3, <2>4
<1> QED BY <1>4, <1>5, <1>6, <1>7, <1>8, <1>9 DEF ReminderSound

\* A step that leaves the calls, their reminders and the tick alone.
LEMMA ReminderRest ==
    ASSUME ReminderSound,
           UNCHANGED <<clock, call, stamps, tick, sent, notices, missed, faults, hurt>>
    PROVE  ReminderSound'
<1>1. /\ \A r \in ReadRow : InHands(r)' <=> InHands(r)
      /\ \A c \in Calls, w \in Reminders!Windows :
            /\ Telling(c, w)' <=> Telling(c, w)
            /\ Gone(c)' <=> Gone(c)
            /\ Owed(c, w)' <=> Owed(c, w)
            /\ Before(c, w)' = Before(c, w) /\ Last(c, w)' = Last(c, w)
  BY DEF InHands, Telling, Gone, Owed, Before, Last
<1>2. \A c \in Calls, w \in Reminders!Windows : Coming(c, w)' <=> Coming(c, w)
  BY <1>1 DEF Coming
<1>3. RowsKnown' /\ ToldIsStamped'
  BY <1>1 DEF ReminderSound, RowsKnown, ToldIsStamped
<1>4. SentCount' /\ SetInTime'
  BY <1>1 DEF ReminderSound, SentCount, SetInTime
<1>5. ChancesCount'
  BY <1>1, <1>2 DEF ReminderSound, ChancesCount
<1>6. Reminders!StampEarned' /\ Reminders!MoveAnnounced'
  BY DEF ReminderSound, Reminders!StampEarned, Reminders!MoveAnnounced
<1> QED BY <1>3, <1>4, <1>5, <1>6 DEF ReminderSound

\* The invariant is inductive.
LEMMA ReminderStep == ASSUME ReminderLimits, ReminderInv, [Reminders!Next]_(Reminders!vars) PROVE ReminderInv'
<1>1. ReminderTyped' /\ UpdatesInTime' /\ TickSays'
  BY ReminderTypes, InTime DEF ReminderInv
<1>2. ASSUME NEW c \in Calls, NEW at \in Slots, Reminders!Create(c, at) PROVE ReminderSound'
  BY <1>2, CallCreated
<1>3. ASSUME NEW o \in Operators, NEW c \in Calls, NEW at \in Slots \cup {0}, NEW st \in StatusRequests,
             Reminders!UpdateRead(o, c, at, st)
      PROVE  ReminderSound'
  BY <1>3, ReminderRest DEF Reminders!UpdateRead, Reminders!faultVars, ReminderInv
<1>4. ASSUME NEW o \in Operators, Reminders!UpdateTx(o) PROVE ReminderSound'
  <2>1. CASE Reminders!Exists(op[o].id)
    BY <1>4, <2>1, CallUpdated
  <2>2. CASE ~Reminders!Exists(op[o].id)
    BY <1>4, <2>2, ReminderRest DEF Reminders!UpdateTx, ReminderInv
  <2> QED BY <2>1, <2>2
<1>5. ASSUME NEW c \in Calls, Reminders!Remove(c) PROVE ReminderSound'
  BY <1>5, CallRemoved
<1>6. Reminders!Boundary => ReminderSound'
  BY BoundaryPassed
<1>7. Reminders!Query => ReminderSound'
  BY WindowRead
<1>8. Reminders!QueryFails => ReminderSound'
  <2> SUFFICES ASSUME Reminders!QueryFails PROVE ReminderSound'
    OBVIOUS
  <2>1. tick.pc = "query" /\ tick' = Reminders!IdleTick /\ missed' = missed + 1
    BY DEF Reminders!QueryFails, Reminders!Miss
  <2>2. UNCHANGED <<clock, call, stamps, sent, notices, faults, hurt>>
    BY DEF Reminders!QueryFails, Reminders!callVars
  <2> QED BY <2>1, <2>2, TickCut
<1>9. ASSUME NEW r \in tick.batch, Reminders!AlreadySent(r) PROVE ReminderSound'
  <2>1. /\ tick.pc = "each" /\ tick' = Reminders!Rest(tick.batch \ {r})
        /\ <<r.id, tick.w>> \in stamps \/ call[r.id].st = "deleted"
        /\ missed' = missed /\ UNCHANGED <<clock, stamps, sent, hurt, call, notices, faults>>
    BY <1>9 DEF Reminders!AlreadySent, Reminders!callVars, Reminders!faultVars
  <2> QED BY <2>1, RowPassed
<1>10. ASSUME NEW r \in tick.batch, Reminders!Stamp(r) PROVE ReminderSound'
  <2>1. /\ tick.pc = "each" /\ <<r.id, tick.w>> \notin stamps /\ call[r.id].st # "deleted"
        /\ UNCHANGED <<clock, sent, hurt, call, notices, faults>>
    BY <1>10 DEF Reminders!Stamp, Reminders!callVars
  <2>2. CASE /\ stamps' = stamps \cup {<<r.id, tick.w>>}
             /\ tick' = [tick EXCEPT !.batch = @ \ {r}, !.pc = "event", !.cur = r]
             /\ missed' = missed
    BY <2>1, <2>2, RowStamped
  <2>3. CASE missed' = missed + 1 /\ tick' = Reminders!Rest(tick.batch \ {r}) /\ stamps' = stamps
    BY <2>1, <2>3, RowPassed
  <2> QED BY <1>10, <2>2, <2>3 DEF Reminders!Stamp, Reminders!Miss
<1>11. Reminders!Emit => ReminderSound'
  <2> SUFFICES ASSUME Reminders!Emit PROVE ReminderSound'
    OBVIOUS
  <2>1. /\ tick.pc = "event" /\ tick' = Reminders!Rest(tick.batch) /\ sent' = Reminders!Emitted(tick.cur, tick.w)
        /\ UNCHANGED <<clock, call, notices>> /\ UNCHANGED <<stamps, hurt, faults, missed>>
    BY DEF Reminders!Emit, Reminders!callVars, Reminders!faultVars
  <2> QED BY <2>1, EventTold
<1>12. Reminders!EmitFails => ReminderSound'
  <2> SUFFICES ASSUME Reminders!EmitFails PROVE ReminderSound'
    OBVIOUS
  <2>1. /\ tick.pc = "event" /\ tick' = Reminders!Rest(tick.batch) /\ stamps' = Reminders!Unstamped /\ missed' = missed + 1
        /\ UNCHANGED <<clock, call, notices>> /\ UNCHANGED <<sent, hurt, faults>>
    BY DEF Reminders!EmitFails, Reminders!Miss, Reminders!callVars
  <2> QED BY <2>1, EventTold
<1>13. Reminders!EmitGoesWrong => ReminderSound'
  <2> SUFFICES ASSUME Reminders!EmitGoesWrong PROVE ReminderSound'
    OBVIOUS
  <2>1. /\ tick.pc = "event" /\ tick' = Reminders!Rest(tick.batch) /\ faults' = faults + 1
        /\ UNCHANGED <<clock, call, notices>> /\ missed' = missed
    BY DEF Reminders!EmitGoesWrong, Reminders!callVars
  <2>2. CASE sent' = Reminders!Emitted(tick.cur, tick.w) /\ stamps' = Reminders!Unstamped /\ hurt' = hurt
    BY <2>1, <2>2, EventTold
  <2>3. CASE hurt' = hurt \cup {<<tick.cur.id, tick.w>>} /\ sent' = sent /\ stamps' = stamps
    BY <2>1, <2>3, EventTold
  <2> QED BY <2>2, <2>3 DEF Reminders!EmitGoesWrong
<1>14. Reminders!Crash => ReminderSound'
  <2> SUFFICES ASSUME Reminders!Crash PROVE ReminderSound'
    OBVIOUS
  <2>1. tick' = Reminders!IdleTick /\ UNCHANGED <<clock, call, stamps, sent, notices>>
    BY DEF Reminders!Crash
  <2>2. IF tick.pc = "event" THEN faults' = faults + 1 /\ hurt' = hurt \cup {<<tick.cur.id, tick.w>>}
        ELSE UNCHANGED <<faults, hurt>>
    BY DEF Reminders!Crash
  <2>3. missed' = IF tick.pc = "idle" THEN missed ELSE missed + 1
    BY DEF Reminders!Crash, Reminders!Miss
  <2> QED BY <2>1, <2>2, <2>3, TickCut
<1>15. Reminders!Restart => ReminderSound'
  BY ReminderRest DEF Reminders!Restart, Reminders!callVars, Reminders!faultVars, ReminderInv
<1>16. UNCHANGED Reminders!vars => ReminderSound'
  BY ReminderRest DEF Reminders!vars, ReminderInv
<1>17. ReminderSound'
  BY <1>2, <1>3, <1>4, <1>5, <1>6, <1>7, <1>8, <1>9, <1>10, <1>11, <1>12, <1>13, <1>14, <1>15, <1>16 DEF Reminders!Next
<1> QED BY <1>1, <1>17 DEF ReminderInv

\* An owed reminder has at least two chances, so one missed tick does not lose it.
LEMMA TwoChances ==
    ASSUME ReminderTyped, SetInTime, NEW c \in Calls, NEW w \in Reminders!Windows, Owed(c, w)
    PROVE  Last(c, w) >= Before(c, w) + 2
<1>1. /\ call[c].st = "scheduled" /\ call[c].at - call[c].anchor >= Reminders!Offset[w]
      /\ call[c].at >= call[c].anchor + 3
  BY DEF Owed, SetInTime
<1>2. call[c].at \in Nat /\ call[c].anchor \in Nat /\ w \in {"min60", "min10"}
  BY CallSays DEF Reminders!Windows
<1>3. CASE w = "min60"
  <2>1. Reminders!Offset[w] = 12
    BY <1>3, CallSays
  <2> QED BY <1>1, <1>2, <2>1 DEF Last, Before, Reminders!LastTick, Reminders!Catchup, Reminders!Period
<1>4. CASE w = "min10"
  <2>1. Reminders!Offset[w] = 2
    BY <1>4, CallSays
  <2> QED BY <1>1, <1>2, <2>1 DEF Last, Before, Reminders!LastTick, Reminders!Catchup, Reminders!Period
<1> QED BY <1>2, <1>3, <1>4

\* What the invariant says of the reminders.
LEMMA ReminderSafety == ASSUME ReminderInv PROVE Reminders!RemindersSafe
<1> USE DEF ReminderInv
<1>1. Reminders!RemindedOnce
  <2> SUFFICES ASSUME NEW c \in Calls, NEW w \in Reminders!Windows PROVE sent[c][w] <= 1 + faults
    BY DEF Reminders!RemindedOnce
  <2>1. sent[c][w] <= faults + 1 /\ faults \in Nat
    BY DEF ReminderSound, SentCount, ReminderTyped
  <2> QED BY <2>1
<1>2. Reminders!RemindedInTime
  <2> SUFFICES ASSUME NEW c \in Calls, NEW w \in Reminders!Windows,
                      call[c].st = "scheduled", call[c].at - call[c].anchor >= Reminders!Offset[w],
                      clock > Reminders!LastTick(w, call[c].at), missed <= 1, <<c, w>> \notin hurt, sent[c][w] = 0
               PROVE  FALSE
    <3>1. \A c \in Calls, w \in Reminders!Windows : sent[c][w] \in Nat
      BY DEF ReminderTyped
    <3>2. \A c \in Calls, w \in Reminders!Windows : ~(sent[c][w] > 0) => sent[c][w] = 0
      BY <3>1
    <3> QED BY <3>2 DEF Reminders!RemindedInTime
  <2>1. Owed(c, w)
    BY DEF Owed
  <2>2. Last(c, w) >= Before(c, w) + 2
    BY <2>1, TwoChances DEF ReminderSound
  <2>3. /\ Before(c, w) \in Int /\ Last(c, w) \in Int /\ clock \in Nat /\ missed \in Nat
        /\ clock > Last(c, w)
    BY CallSays DEF Last
  <2>4. \/ clock <= Before(c, w) + missed
        \/ Last(c, w) <= Before(c, w) + missed
        \/ clock <= Before(c, w) + missed + 1
    BY <2>1 DEF ReminderSound, ChancesCount
  <2> QED BY <2>2, <2>3, <2>4
<1> QED BY <1>1, <1>2 DEF Reminders!RemindersSafe, ReminderSound

\* The reminder of a call goes out though a tick is missed, and once; a stamp stands for
\* its event; a moved call was announced (call-reminder.service.ts).
THEOREM RemindersAreSafe == ASSUME ReminderLimits PROVE Reminders!Spec => []Reminders!RemindersSafe
<1>1. Reminders!Init => ReminderInv
  BY ReminderInit
<1>2. ReminderInv /\ [Reminders!Next]_(Reminders!vars) => ReminderInv'
  BY ReminderStep
<1>3. ReminderInv => Reminders!RemindersSafe
  BY ReminderSafety
<1> QED BY <1>1, <1>2, <1>3, PTL DEF Reminders!Spec

\* The types are part of the invariant.
LEMMA RemindersTypedFollow == ReminderInv => Reminders!TypeOK
<1> SUFFICES ASSUME ReminderInv PROVE Reminders!TypeOK
  OBVIOUS
<1>1. call \in [Calls -> [st : Reminders!Status, at : Nat, anchor : Nat, version : Nat]]
  BY DEF ReminderInv, ReminderTyped, CallRow
<1>2. tick.pc \in {"idle", "query", "each", "event"}
  BY DEF ReminderInv, ReminderTyped, TickRow
<1> QED BY <1>1, <1>2 DEF ReminderInv, ReminderTyped, Reminders!TypeOK

\* Every variable of the reminders keeps its type (call-reminder.service.ts).
THEOREM RemindersTyped == ASSUME ReminderLimits PROVE Reminders!Spec => []Reminders!TypeOK
<1>1. Reminders!Init => ReminderInv
  BY ReminderInit
<1>2. ReminderInv /\ [Reminders!Next]_(Reminders!vars) => ReminderInv'
  BY ReminderStep
<1>3. ReminderInv => Reminders!TypeOK
  BY RemindersTypedFollow
<1> QED BY <1>1, <1>2, <1>3, PTL DEF Reminders!Spec

Deploy == INSTANCE DeployGateway

DeployLimits ==
    /\ BeTip \in Nat \ {0} /\ FeTip \in Nat \ {0} /\ MaxDeploys \in Nat
    /\ Migrating \subseteq 1..BeTip /\ Seeding \subseteq 1..BeTip

Backing == {"ff", "build", "backup", "migrate", "seed", "restart", "health"}
Fronting == {"feBuild", "swap", "probe", "rollback", "prune", "release"}
Switched == {"probe", "rollback", "prune", "release"}
RunnerPcs == Deploy!Alive \union {"new", "dead", "deployed"}
RunnerRow ==
    [pc : RunnerPcs, be : 0..BeTip, fe : 0..FeTip, prevBe : 0..BeTip, prevFe : 0..FeTip, base : 0..BeTip,
     backup : {"no", "verified"}, old : Deploy!Releases]

DeployTyped ==
    /\ tip \in [be : 1..BeTip, fe : 1..FeTip] /\ head \in [be : 1..BeTip, fe : 1..FeTip]
    /\ built \in 1..BeTip /\ running \in 1..BeTip
    /\ db \in [migrated : SUBSET Migrating, seeded : SUBSET Seeding, failed : {"no", "yes"}]
    /\ state \in [dbe : 1..BeTip, pbe : 0..BeTip, pfe : 1..FeTip, prfe : 0..FeTip,
                  rel : Deploy!Releases, prel : Deploy!Releases]
    /\ release \in [Deploy!Releases -> {"none", "part", "whole"}] /\ dist \in Deploy!Releases
    /\ lock \in [dir : {"no", "yes"}, id : 0..MaxDeploys]
    /\ caller \in [Deploy!Deploys -> {"new", "mkdir", "wait", "rm", "done"}]
    /\ run \in [Deploy!Deploys -> RunnerRow]
    /\ unlock \in 0..MaxDeploys /\ unlocks \in Nat

\* A deploy is planned, then locked, then run; at most one runner is alive.
OneAlive ==
    /\ \A d \in Deploy!Deploys : caller[d] \in {"new", "mkdir"} => run[d].pc = "new"
    /\ \A d, e \in Deploy!Deploys : run[d].pc \in Deploy!Alive /\ run[e].pc \in Deploy!Alive => d = e

\* Until a lock is removed under a deploy, whoever is alive holds the lock.
LockSays ==
    /\ lock.dir = "no" => lock.id = 0
    /\ unlock # 0 => unlocks > 0
    /\ raced = "no" =>
          \A d \in Deploy!Deploys :
             run[d].pc \in Deploy!Alive => lock.dir = "yes" /\ lock.id = (IF run[d].pc = "spawned" THEN 0 ELSE d)

\* What a runner knows of the backend, at each of its steps.
BackendSays(d) ==
    LET u == run[d] IN
    /\ u.pc \in {"preflight"} \union Backing => u.prevBe = state.dbe
    /\ u.pc \in Backing => u.base = state.dbe
    /\ u.pc \in Deploy!Changing => state.dbe <= u.be
    /\ u.pc = "ff" => head.be \in {state.dbe, u.be}
    /\ u.pc \in Deploy!Changing \ {"ff"} => head.be = u.be
    /\ u.pc \in Deploy!Changing \ {"ff", "build"} => built = u.be
    /\ u.pc \in {"health"} \union Fronting => running = u.be
    /\ u.pc \in Fronting => state.dbe = u.be
\* ... of the database ...
DbSays(d) ==
    LET u == run[d] IN
    /\ u.pc \in {"migrate", "seed"} => u.backup = "verified"
    /\ u.pc \in {"seed", "restart", "health"} => Deploy!Between(0, u.be, Migrating) \subseteq db.migrated
    /\ u.pc \in {"restart", "health"} => Deploy!Between(1, u.be, Seeding) \subseteq db.seeded
\* ... and of the frontend.
FrontSays(d) ==
    LET u == run[d] IN
    /\ u.pc \in Deploy!Changing => state.pfe <= u.fe
    /\ u.pc \in Backing \union {"feBuild"} => head.fe \in {state.pfe, u.fe}
    /\ u.pc \in Fronting \ {"feBuild"} => head.fe = u.fe
    /\ u.pc \in {"new", "spawned", "preflight", "feBuild"} \union Backing => release[d] = "none"
    /\ u.pc \in {"swap"} \union Switched => release[d] = "whole"
    /\ u.pc \in Switched => release[u.old] = "whole" /\ dist = d
    /\ u.pc \in {"prune", "release"} => state.pfe = u.fe /\ state.rel = d /\ state.prel = u.old
RunnersKnow == \A d \in Deploy!Deploys : BackendSays(d) /\ DbSays(d) /\ FrontSays(d)

\* No deploy is of a version that main does not have, and whoever changes something is of
\* the newest version that any deploy was planned for.
Planned(d) == caller[d] # "new"
NewestRuns ==
    /\ state.dbe <= tip.be /\ state.pfe <= tip.fe
    /\ \A d \in Deploy!Deploys : run[d].be <= tip.be /\ run[d].fe <= tip.fe
    /\ \A d, e \in Deploy!Deploys :
          Planned(d) /\ run[e].pc \in Deploy!Changing => run[d].be <= run[e].be /\ run[d].fe <= run[e].fe

\* The releases in use are whole.
InUseWhole == \A r \in {dist, state.rel, state.prel} : release[r] = "whole"

\* A planned deploy of the newest versions could be planned again.
PlanStands ==
    /\ head.be = state.dbe \/ head.be = tip.be
    /\ head.fe = state.pfe \/ head.fe = tip.fe
    /\ db.failed = "no" => Deploy!Between(0, head.be, Migrating) \subseteq db.migrated \/ head.be = tip.be
Replannable == \A d \in Deploy!Deploys : Planned(d) /\ run[d].be = tip.be /\ run[d].fe = tip.fe => PlanStands

\* Between deploys, and up to the preflight of one, everything is as recorded.
Untouched == lock.id = 0 \/ run[lock.id].pc = "preflight"
AsRecorded ==
    /\ head.be = state.dbe /\ head.fe = state.pfe
    /\ built = state.dbe /\ running = state.dbe /\ dist = state.rel
Agreed == raced = "no" /\ unlocks = 0 /\ Untouched => AsRecorded

DeploySound ==
    /\ RunnersKnow /\ NewestRuns /\ Deploy!DeployedIsInDb /\ InUseWhole /\ Replannable /\ Agreed /\ Deploy!PreviousBackendKept
DeployInv == DeployTyped /\ OneAlive /\ LockSays /\ DeploySound

\* Everything agrees at the installation.
LEMMA DeployInit == ASSUME DeployLimits PROVE Deploy!Init => DeployInv
<1> SUFFICES ASSUME Deploy!Init PROVE DeployInv
  OBVIOUS
<1>1. /\ tip = [be |-> 1, fe |-> 1] /\ head = [be |-> 1, fe |-> 1] /\ built = 1 /\ running = 1
      /\ db = [migrated |-> Migrating \intersect {1}, seeded |-> Seeding \intersect {1}, failed |-> "no"]
      /\ state = [dbe |-> 1, pbe |-> 0, pfe |-> 1, prfe |-> 0, rel |-> 0, prel |-> 0]
      /\ release = [r \in Deploy!Releases |-> IF r = 0 THEN "whole" ELSE "none"] /\ dist = 0
      /\ lock = [dir |-> "no", id |-> 0] /\ unlock = 0 /\ unlocks = 0
  BY DEF Deploy!Init, Deploy!NoLock
<1>2. /\ \A d \in Deploy!Deploys : caller[d] = "new" /\ run[d] = Deploy!NewRun /\ run[d].pc = "new" /\ run[d].be = 0 /\ run[d].fe = 0
      /\ caller = [d \in Deploy!Deploys |-> "new"] /\ run = [d \in Deploy!Deploys |-> Deploy!NewRun]
  BY DEF Deploy!Init, Deploy!NewRun
<1>3. /\ 1 \in 1..BeTip /\ 1 \in 1..FeTip /\ 0 \in 0..BeTip /\ 0 \in 0..FeTip /\ 0 \in Deploy!Releases /\ MaxDeploys \in Nat
      /\ 0 \in 0..MaxDeploys /\ \A d \in Deploy!Deploys : d \in Nat /\ d # 0 /\ d \in Deploy!Releases
  BY DEF DeployLimits, Deploy!Releases, Deploy!Deploys
<1>4. DeployTyped
  <2>1. Deploy!NewRun \in RunnerRow
    BY <1>3 DEF Deploy!NewRun, RunnerRow, RunnerPcs
  <2> QED BY <1>1, <1>2, <1>3, <2>1 DEF DeployTyped
<1>5. OneAlive /\ LockSays
  BY <1>1, <1>2 DEF OneAlive, LockSays, Deploy!Alive, Deploy!Changing
<1>6. RunnersKnow
  <2> SUFFICES ASSUME NEW d \in Deploy!Deploys PROVE BackendSays(d) /\ DbSays(d) /\ FrontSays(d)
    BY DEF RunnersKnow
  <2>1. release[d] = "none"
    BY <1>1, <1>3
  <2> QED BY <1>2, <2>1 DEF BackendSays, DbSays, FrontSays, Backing, Fronting, Switched, Deploy!Changing
<1>7. NewestRuns /\ Replannable /\ Deploy!PreviousBackendKept
  BY <1>1, <1>2 DEF NewestRuns, Replannable, Planned, Deploy!PreviousBackendKept
<1>8. Deploy!DeployedIsInDb
  <2>1. \A x \in 1..BeTip : x <= 1 => x = 1
    BY DEF DeployLimits
  <2>2. \A x \in 1..BeTip : ~(1 < x /\ x <= 1)
    BY DEF DeployLimits
  <2> QED BY <1>1, <2>1, <2>2 DEF Deploy!DeployedIsInDb, Deploy!Between, DeployLimits
<1>9. InUseWhole
  BY <1>1, <1>3 DEF InUseWhole
<1>10. Agreed
  BY <1>1 DEF Agreed, AsRecorded
<1> QED BY <1>4, <1>5, <1>6, <1>7, <1>8, <1>9, <1>10 DEF DeployInv, DeploySound

\* What lies between two versions lies before or after any third one.
LEMMA BetweenSplit ==
    ASSUME NEW S \in SUBSET Int, NEW a \in Int, NEW b \in Int, NEW c \in Int
    PROVE  Deploy!Between(a, c, S) \subseteq Deploy!Between(a, b, S) \union Deploy!Between(b, c, S)
<1> SUFFICES ASSUME NEW x \in S, a < x, x <= c PROVE x <= b \/ b < x
  BY DEF Deploy!Between
<1>1. x \in Int
  OBVIOUS
<1> QED BY <1>1

LEMMA BetweenNone ==
    ASSUME NEW S \in SUBSET Int, NEW b \in Int, NEW c \in Int, Deploy!Between(b, c, S) = {}
    PROVE  Deploy!Between(0, c, S) \subseteq Deploy!Between(0, b, S) /\ Deploy!Between(1, c, S) \subseteq Deploy!Between(1, b, S)
<1> SUFFICES ASSUME NEW x \in S, x <= c PROVE x <= b
  BY DEF Deploy!Between
<1>1. ~(b < x)
  BY DEF Deploy!Between
<1>2. x \in Int
  OBVIOUS
<1> QED BY <1>1, <1>2

\* A runner moves on: its other fields stay, and the other runners are not alive.
LEMMA RunnerMoves ==
    ASSUME DeployTyped, OneAlive, NEW d \in Deploy!Deploys, run[d].pc \in Deploy!Alive,
           NEW to \in RunnerPcs, run' = Deploy!Goto(d, to)
    PROVE  /\ run'[d] \in RunnerRow /\ run[d] \in RunnerRow /\ run' \in [Deploy!Deploys -> RunnerRow]
           /\ run'[d].pc = to /\ run'[d].be = run[d].be /\ run'[d].fe = run[d].fe
           /\ run'[d].prevBe = run[d].prevBe /\ run'[d].prevFe = run[d].prevFe
           /\ run'[d].base = run[d].base /\ run'[d].backup = run[d].backup /\ run'[d].old = run[d].old
           /\ \A e \in Deploy!Deploys : e # d => run'[e] = run[e] /\ run[e].pc \notin Deploy!Alive
<1>1. run \in [Deploy!Deploys -> RunnerRow] /\ run[d] \in RunnerRow
  BY DEF DeployTyped
<1>2. run' = [run EXCEPT ![d] = [run[d] EXCEPT !.pc = to]]
  BY DEF Deploy!Goto
<1>3. run'[d] = [run[d] EXCEPT !.pc = to] /\ \A e \in Deploy!Deploys : e # d => run'[e] = run[e]
  BY <1>1, <1>2
<1>4. [run[d] EXCEPT !.pc = to] \in RunnerRow
  BY <1>1 DEF RunnerRow
<1>5. run' \in [Deploy!Deploys -> RunnerRow]
  BY <1>1, <1>2, <1>4
<1>6. /\ run'[d].pc = to /\ run'[d].be = run[d].be /\ run'[d].fe = run[d].fe
      /\ run'[d].prevBe = run[d].prevBe /\ run'[d].prevFe = run[d].prevFe
      /\ run'[d].base = run[d].base /\ run'[d].backup = run[d].backup /\ run'[d].old = run[d].old
  BY <1>1, <1>3 DEF RunnerRow
<1> QED BY <1>1, <1>3, <1>4, <1>5, <1>6 DEF OneAlive

\* A runner's row keeps its type when one of its fields is written.
LEMMA RunnerWritten ==
    ASSUME NEW u \in RunnerRow
    PROVE  /\ \A to \in RunnerPcs : [u EXCEPT !.pc = to] \in RunnerRow
           /\ \A v \in 0..BeTip : /\ [u EXCEPT !.be = v] \in RunnerRow /\ [u EXCEPT !.prevBe = v] \in RunnerRow
                                  /\ [u EXCEPT !.base = v] \in RunnerRow
           /\ \A v \in 0..FeTip : [u EXCEPT !.fe = v] \in RunnerRow /\ [u EXCEPT !.prevFe = v] \in RunnerRow
           /\ [u EXCEPT !.backup = "verified"] \in RunnerRow
           /\ \A r \in Deploy!Releases : [u EXCEPT !.old = r] \in RunnerRow
BY DEF RunnerRow

\* The types survive every step; whoever is alive has been planned and locked.
LEMMA DeployTypes == ASSUME DeployLimits, DeployTyped, OneAlive, LockSays, RunnersKnow, [Deploy!Next]_(Deploy!vars) PROVE DeployTyped'
<1>1. /\ tip \in [be : 1..BeTip, fe : 1..FeTip] /\ head \in [be : 1..BeTip, fe : 1..FeTip]
      /\ built \in 1..BeTip /\ running \in 1..BeTip
      /\ db \in [migrated : SUBSET Migrating, seeded : SUBSET Seeding, failed : {"no", "yes"}]
      /\ state \in [dbe : 1..BeTip, pbe : 0..BeTip, pfe : 1..FeTip, prfe : 0..FeTip, rel : Deploy!Releases, prel : Deploy!Releases]
      /\ release \in [Deploy!Releases -> {"none", "part", "whole"}] /\ dist \in Deploy!Releases
      /\ lock \in [dir : {"no", "yes"}, id : 0..MaxDeploys]
      /\ caller \in [Deploy!Deploys -> {"new", "mkdir", "wait", "rm", "done"}]
      /\ run \in [Deploy!Deploys -> RunnerRow] /\ unlock \in 0..MaxDeploys /\ unlocks \in Nat
  BY DEF DeployTyped
<1>2. /\ BeTip \in Nat /\ FeTip \in Nat /\ MaxDeploys \in Nat /\ Deploy!NoLock \in [dir : {"no", "yes"}, id : 0..MaxDeploys]
      /\ \A d \in Deploy!Deploys : d \in Nat /\ d \in Deploy!Releases /\ d \in 0..MaxDeploys /\ d # 0
  BY DEF DeployLimits, Deploy!Deploys, Deploy!Releases, Deploy!NoLock
<1>3. UNCHANGED Deploy!vars => DeployTyped'
  BY <1>1 DEF Deploy!vars, DeployTyped
<1>4. Deploy!Push("be", BeTip) \/ Deploy!Push("fe", FeTip) => DeployTyped'
  <2>1. Deploy!Push("be", BeTip) => tip' \in [be : 1..BeTip, fe : 1..FeTip]
    BY <1>1, <1>2 DEF Deploy!Push
  <2>2. Deploy!Push("fe", FeTip) => tip' \in [be : 1..BeTip, fe : 1..FeTip]
    BY <1>1, <1>2 DEF Deploy!Push
  <2> QED BY <1>1, <2>1, <2>2 DEF Deploy!Push, Deploy!data, Deploy!front, Deploy!bounds, DeployTyped
<1>5. Deploy!Pm2Restart => DeployTyped'
  BY <1>1 DEF Deploy!Pm2Restart, Deploy!data, Deploy!front, DeployTyped
<1>6. ASSUME NEW d \in Deploy!Deploys, Deploy!Plan(d) PROVE DeployTyped'
  <2>1. run' = [run EXCEPT ![d] = [[run[d] EXCEPT !.be = tip.be] EXCEPT !.fe = tip.fe]]
    BY <1>1, <1>6 DEF Deploy!Plan
  <2>2. tip.be \in 0..BeTip /\ tip.fe \in 0..FeTip
    BY <1>1, <1>2
  <2>3. [[run[d] EXCEPT !.be = tip.be] EXCEPT !.fe = tip.fe] \in RunnerRow
    BY <1>1, <2>2, RunnerWritten
  <2>4. run' \in [Deploy!Deploys -> RunnerRow]
    BY <1>1, <2>1, <2>3
  <2> QED BY <1>1, <1>6, <2>4 DEF Deploy!Plan, Deploy!code, Deploy!data, Deploy!front, Deploy!bounds, DeployTyped
<1>7. ASSUME NEW d \in Deploy!Deploys, Deploy!LockDir(d) PROVE DeployTyped'
  <2>1. /\ run' = run \/ run' = [run EXCEPT ![d] = [run[d] EXCEPT !.pc = "spawned"]]
        /\ lock' = lock \/ lock' = [dir |-> "yes", id |-> 0]
    BY <1>7 DEF Deploy!LockDir, Deploy!Goto
  <2>2. [run[d] EXCEPT !.pc = "spawned"] \in RunnerRow
    BY <1>1 DEF RunnerRow, RunnerPcs, Deploy!Alive
  <2>3. run' \in [Deploy!Deploys -> RunnerRow] /\ lock' \in [dir : {"no", "yes"}, id : 0..MaxDeploys]
    BY <1>1, <1>2, <2>1, <2>2
  <2> QED BY <1>1, <1>7, <2>3 DEF Deploy!LockDir, Deploy!code, Deploy!data, Deploy!front, Deploy!bounds, DeployTyped
<1>8. ASSUME NEW d \in Deploy!Deploys, Deploy!CallerSees(d) \/ Deploy!CallerTimesOut(d) \/ Deploy!CallerRemovesLock(d) PROVE DeployTyped'
  <2>1. CASE Deploy!CallerSees(d)
    BY <1>1, <2>1 DEF Deploy!CallerSees, Deploy!code, Deploy!data, Deploy!front, Deploy!bounds, DeployTyped
  <2>2. CASE Deploy!CallerTimesOut(d)
    BY <1>1, <2>2 DEF Deploy!CallerTimesOut, Deploy!code, Deploy!data, Deploy!front, Deploy!bounds, DeployTyped
  <2>3. CASE Deploy!CallerRemovesLock(d)
    BY <1>1, <1>2, <2>3 DEF Deploy!CallerRemovesLock, Deploy!code, Deploy!data, Deploy!front, Deploy!bounds, DeployTyped
  <2> QED BY <1>8, <2>1, <2>2, <2>3
<1>9. ASSUME NEW d \in Deploy!Deploys, Deploy!UnlockCheck(d) PROVE DeployTyped'
  BY <1>1, <1>2, <1>9 DEF Deploy!UnlockCheck, Deploy!code, Deploy!data, Deploy!front, DeployTyped
<1>10. Deploy!UnlockRemove => DeployTyped'
  BY <1>1, <1>2 DEF Deploy!UnlockRemove, Deploy!code, Deploy!data, Deploy!front, Deploy!bounds, DeployTyped
<1>11. ASSUME NEW d \in Deploy!Deploys, Deploy!WriteMeta(d) PROVE DeployTyped'
  <2>1. CASE lock.dir = "yes"
    <3>1. run' = [run EXCEPT ![d] = [[[run[d] EXCEPT !.pc = "preflight"] EXCEPT !.prevBe = state.dbe] EXCEPT !.prevFe = state.pfe]]
      BY <1>1, <1>11, <2>1 DEF Deploy!WriteMeta
    <3>2. state.dbe \in 0..BeTip /\ state.pfe \in 0..FeTip
      BY <1>1, <1>2
    <3>3. [[[run[d] EXCEPT !.pc = "preflight"] EXCEPT !.prevBe = state.dbe] EXCEPT !.prevFe = state.pfe] \in RunnerRow
      BY <1>1, <3>2, RunnerWritten, "preflight" \in RunnerPcs DEF RunnerPcs, Deploy!Alive
    <3>4. run' \in [Deploy!Deploys -> RunnerRow]
      BY <1>1, <3>1, <3>3
    <3>5. lock' \in [dir : {"no", "yes"}, id : 0..MaxDeploys]
      BY <1>1, <1>2, <1>11, <2>1 DEF Deploy!WriteMeta
    <3> QED BY <1>1, <1>11, <3>4, <3>5 DEF Deploy!WriteMeta, Deploy!code, Deploy!data, Deploy!front, Deploy!bounds, DeployTyped
  <2>2. CASE lock.dir # "yes"
    <3>1. run' \in [Deploy!Deploys -> RunnerRow]
      BY <1>11, <2>2, RunnerMoves, "dead" \in RunnerPcs DEF Deploy!WriteMeta, Deploy!Alive, RunnerPcs
    <3> QED BY <1>1, <1>11, <2>2, <3>1 DEF Deploy!WriteMeta, Deploy!code, Deploy!data, Deploy!front, Deploy!bounds, DeployTyped
  <2> QED BY <2>1, <2>2
<1>12. ASSUME NEW d \in Deploy!Deploys, Deploy!Preflight(d) PROVE DeployTyped'
  <2>1. CASE run' = [run EXCEPT ![d].pc = "ff", ![d].base = state.dbe]
    <3>1. run' = [run EXCEPT ![d] = [[run[d] EXCEPT !.pc = "ff"] EXCEPT !.base = state.dbe]]
      BY <1>1, <2>1
    <3>2. state.dbe \in 0..BeTip
      BY <1>1, <1>2
    <3>3. [[run[d] EXCEPT !.pc = "ff"] EXCEPT !.base = state.dbe] \in RunnerRow
      BY <1>1, <3>2, RunnerWritten, "ff" \in RunnerPcs DEF RunnerPcs, Deploy!Alive, Deploy!Changing
    <3>4. run' \in [Deploy!Deploys -> RunnerRow]
      BY <1>1, <3>1, <3>3
    <3> QED BY <1>1, <1>12, <3>4 DEF Deploy!Preflight, Deploy!code, Deploy!data, Deploy!front, Deploy!bounds, DeployTyped
  <2>2. CASE run' = Deploy!Goto(d, "dead")
    <3>1. run' \in [Deploy!Deploys -> RunnerRow]
      BY <1>12, <2>2, RunnerMoves, "dead" \in RunnerPcs DEF Deploy!Preflight, Deploy!Alive, RunnerPcs
    <3> QED BY <1>1, <1>12, <3>1 DEF Deploy!Preflight, Deploy!code, Deploy!data, Deploy!front, Deploy!bounds, DeployTyped
  <2> QED BY <1>12, <2>1, <2>2 DEF Deploy!Preflight
<1>13. /\ "dead" \in RunnerPcs /\ "build" \in RunnerPcs /\ "backup" \in RunnerPcs /\ "restart" \in RunnerPcs
       /\ "seed" \in RunnerPcs /\ "health" \in RunnerPcs /\ "feBuild" \in RunnerPcs /\ "swap" \in RunnerPcs
       /\ "rollback" \in RunnerPcs /\ "prune" \in RunnerPcs /\ "release" \in RunnerPcs /\ "deployed" \in RunnerPcs
  BY DEF RunnerPcs, Deploy!Alive, Deploy!Changing
<1>14. ASSUME NEW d \in Deploy!Deploys, Deploy!Stops(d) PROVE DeployTyped'
  <2>1. run' \in [Deploy!Deploys -> RunnerRow]
    BY <1>13, <1>14, RunnerMoves DEF Deploy!Stops
  <2> QED BY <1>1, <1>14, <2>1 DEF Deploy!Stops, Deploy!code, Deploy!data, Deploy!front, Deploy!bounds, DeployTyped
<1>15. ASSUME NEW d \in Deploy!Deploys, Deploy!FastForwardBe(d) PROVE DeployTyped'
  <2>1. run' \in [Deploy!Deploys -> RunnerRow] /\ run[d].be \in 0..BeTip
    BY <1>1, <1>13, <1>15, RunnerMoves DEF Deploy!FastForwardBe, Deploy!Alive, Deploy!Changing, RunnerRow
  <2>2. head' \in [be : 1..BeTip, fe : 1..FeTip]
    BY <1>1, <1>2, <1>15, <2>1 DEF Deploy!FastForwardBe, Deploy!Merged
  <2> QED BY <1>1, <1>15, <2>1, <2>2 DEF Deploy!FastForwardBe, Deploy!data, Deploy!front, Deploy!bounds, DeployTyped
<1>16. ASSUME NEW d \in Deploy!Deploys, Deploy!Build(d) PROVE DeployTyped'
  <2>1. run' \in [Deploy!Deploys -> RunnerRow]
    BY <1>13, <1>16, RunnerMoves DEF Deploy!Build, Deploy!Alive, Deploy!Changing
  <2>2. built' \in 1..BeTip
    BY <1>1, <1>16 DEF Deploy!Build
  <2> QED BY <1>1, <1>16, <2>1, <2>2 DEF Deploy!Build, Deploy!data, Deploy!front, Deploy!bounds, DeployTyped
<1>17. ASSUME NEW d \in Deploy!Deploys, Deploy!BackupAndGate(d) PROVE DeployTyped'
  <2>1. run' = [run EXCEPT ![d] = [[run[d] EXCEPT !.pc = "migrate"] EXCEPT !.backup = "verified"]]
    BY <1>1, <1>17 DEF Deploy!BackupAndGate
  <2>2. [[run[d] EXCEPT !.pc = "migrate"] EXCEPT !.backup = "verified"] \in RunnerRow
    BY <1>1, RunnerWritten, "migrate" \in RunnerPcs DEF RunnerPcs, Deploy!Alive, Deploy!Changing
  <2>3. run' \in [Deploy!Deploys -> RunnerRow]
    BY <1>1, <2>1, <2>2
  <2> QED BY <1>1, <1>17, <2>3 DEF Deploy!BackupAndGate, Deploy!code, Deploy!data, Deploy!front, Deploy!bounds, DeployTyped
<1>18. ASSUME NEW d \in Deploy!Deploys, Deploy!MigrateDeploy(d) PROVE DeployTyped'
  <2>1. run' \in [Deploy!Deploys -> RunnerRow]
    BY <1>13, <1>18, RunnerMoves DEF Deploy!MigrateDeploy, Deploy!Alive, Deploy!Changing
  <2>2. Deploy!Pending \in SUBSET Migrating
    BY DEF Deploy!Pending, Deploy!Between
  <2>3. db' \in [migrated : SUBSET Migrating, seeded : SUBSET Seeding, failed : {"no", "yes"}]
    <3>1. [db EXCEPT !.migrated = db.migrated \union Deploy!Pending] \in [migrated : SUBSET Migrating, seeded : SUBSET Seeding, failed : {"no", "yes"}]
      BY <1>1, <2>2
    <3>2. [db EXCEPT !.failed = "yes"] \in [migrated : SUBSET Migrating, seeded : SUBSET Seeding, failed : {"no", "yes"}]
      BY <1>1
    <3> QED BY <1>1, <1>18, <3>1, <3>2 DEF Deploy!MigrateDeploy
  <2> QED BY <1>1, <1>18, <2>1, <2>3 DEF Deploy!MigrateDeploy, Deploy!code, Deploy!front, Deploy!bounds, DeployTyped
<1>19. ASSUME NEW d \in Deploy!Deploys, Deploy!SeedSystem(d) PROVE DeployTyped'
  <2>1. run' \in [Deploy!Deploys -> RunnerRow]
    BY <1>13, <1>19, RunnerMoves DEF Deploy!SeedSystem, Deploy!Alive, Deploy!Changing
  <2>2. Deploy!SeedDelta(d) \in SUBSET Seeding
    BY DEF Deploy!SeedDelta, Deploy!Between
  <2>3. db' \in [migrated : SUBSET Migrating, seeded : SUBSET Seeding, failed : {"no", "yes"}]
    BY <1>1, <1>19, <2>2 DEF Deploy!SeedSystem
  <2> QED BY <1>1, <1>19, <2>1, <2>3 DEF Deploy!SeedSystem, Deploy!code, Deploy!front, Deploy!bounds, DeployTyped
<1>20. ASSUME NEW d \in Deploy!Deploys, Deploy!RestartBackend(d) PROVE DeployTyped'
  <2>1. run' \in [Deploy!Deploys -> RunnerRow]
    BY <1>13, <1>20, RunnerMoves DEF Deploy!RestartBackend, Deploy!Alive, Deploy!Changing
  <2> QED BY <1>1, <1>20, <2>1 DEF Deploy!RestartBackend, Deploy!data, Deploy!front, Deploy!bounds, DeployTyped
<1>21. ASSUME NEW d \in Deploy!Deploys, Deploy!RecordBackend(d) PROVE DeployTyped'
  <2>1. run' \in [Deploy!Deploys -> RunnerRow] /\ run[d] \in RunnerRow
    BY <1>13, <1>21, RunnerMoves DEF Deploy!RecordBackend, Deploy!Alive, Deploy!Changing
  <2>2. head.be = run[d].be
    BY <1>21 DEF Deploy!RecordBackend, RunnersKnow, BackendSays, Deploy!Changing
  <2>3. run[d].be \in 1..BeTip /\ Deploy!KeptPrevious(d) \in 0..BeTip
    BY <1>1, <2>1, <2>2 DEF RunnerRow, Deploy!KeptPrevious
  <2>4. state' \in [dbe : 1..BeTip, pbe : 0..BeTip, pfe : 1..FeTip, prfe : 0..FeTip, rel : Deploy!Releases, prel : Deploy!Releases]
    BY <1>1, <1>21, <2>3 DEF Deploy!RecordBackend
  <2> QED BY <1>1, <1>21, <2>1, <2>4 DEF Deploy!RecordBackend, Deploy!code, Deploy!front, Deploy!bounds, DeployTyped
<1>22. ASSUME NEW d \in Deploy!Deploys, Deploy!BuildFrontend(d) PROVE DeployTyped'
  <2>1. run' \in [Deploy!Deploys -> RunnerRow] /\ run[d].fe \in 0..FeTip
    BY <1>1, <1>13, <1>22, RunnerMoves DEF Deploy!BuildFrontend, Deploy!Alive, Deploy!Changing, RunnerRow
  <2>2. head' \in [be : 1..BeTip, fe : 1..FeTip]
    BY <1>1, <1>2, <1>22, <2>1 DEF Deploy!BuildFrontend, Deploy!Merged
  <2>3. release' \in [Deploy!Releases -> {"none", "part", "whole"}]
    BY <1>1, <1>22 DEF Deploy!BuildFrontend
  <2> QED BY <1>1, <1>22, <2>1, <2>2, <2>3 DEF Deploy!BuildFrontend, Deploy!data, Deploy!bounds, DeployTyped
<1>23. ASSUME NEW d \in Deploy!Deploys, Deploy!SwapDist(d) PROVE DeployTyped'
  <2>1. run' = [run EXCEPT ![d] = [[run[d] EXCEPT !.pc = "probe"] EXCEPT !.old = dist]]
    BY <1>1, <1>23 DEF Deploy!SwapDist
  <2>2. [[run[d] EXCEPT !.pc = "probe"] EXCEPT !.old = dist] \in RunnerRow
    BY <1>1, RunnerWritten, "probe" \in RunnerPcs DEF RunnerPcs, Deploy!Alive, Deploy!Changing
  <2>3. run' \in [Deploy!Deploys -> RunnerRow] /\ dist' \in Deploy!Releases
    BY <1>1, <1>2, <1>23, <2>1, <2>2 DEF Deploy!SwapDist
  <2> QED BY <1>1, <1>23, <2>3 DEF Deploy!SwapDist, Deploy!code, Deploy!data, Deploy!bounds, DeployTyped
<1>24. ASSUME NEW d \in Deploy!Deploys, Deploy!ProbeFails(d) PROVE DeployTyped'
  <2>1. run' \in [Deploy!Deploys -> RunnerRow]
    BY <1>13, <1>24, RunnerMoves DEF Deploy!ProbeFails, Deploy!Alive, Deploy!Changing
  <2> QED BY <1>1, <1>24, <2>1 DEF Deploy!ProbeFails, Deploy!code, Deploy!data, Deploy!front, Deploy!bounds, DeployTyped
<1>25. ASSUME NEW d \in Deploy!Deploys, Deploy!RollBack(d) PROVE DeployTyped'
  <2>1. run' \in [Deploy!Deploys -> RunnerRow] /\ run[d].old \in Deploy!Releases
    BY <1>1, <1>13, <1>25, RunnerMoves DEF Deploy!RollBack, Deploy!Alive, Deploy!Changing, RunnerRow
  <2>2. dist' \in Deploy!Releases
    BY <1>1, <1>25, <2>1 DEF Deploy!RollBack
  <2> QED BY <1>1, <1>25, <2>1, <2>2 DEF Deploy!RollBack, Deploy!code, Deploy!data, Deploy!bounds, DeployTyped
<1>26. ASSUME NEW d \in Deploy!Deploys, Deploy!RecordFrontend(d) PROVE DeployTyped'
  <2>1. run' \in [Deploy!Deploys -> RunnerRow] /\ run[d] \in RunnerRow
    BY <1>13, <1>26, RunnerMoves DEF Deploy!RecordFrontend, Deploy!Alive, Deploy!Changing
  <2>2. head.fe = run[d].fe
    BY <1>26 DEF Deploy!RecordFrontend, RunnersKnow, FrontSays, Fronting
  <2>3. run[d].fe \in 1..FeTip /\ run[d].prevFe \in 0..FeTip /\ run[d].old \in Deploy!Releases
    BY <1>1, <2>1, <2>2 DEF RunnerRow
  <2>4. state' \in [dbe : 1..BeTip, pbe : 0..BeTip, pfe : 1..FeTip, prfe : 0..FeTip, rel : Deploy!Releases, prel : Deploy!Releases]
    BY <1>1, <1>2, <1>26, <2>3 DEF Deploy!RecordFrontend
  <2> QED BY <1>1, <1>26, <2>1, <2>4 DEF Deploy!RecordFrontend, Deploy!code, Deploy!front, Deploy!bounds, DeployTyped
<1>27. ASSUME NEW d \in Deploy!Deploys, Deploy!Prune(d) PROVE DeployTyped'
  <2>1. run' \in [Deploy!Deploys -> RunnerRow]
    BY <1>13, <1>27, RunnerMoves DEF Deploy!Prune, Deploy!Alive, Deploy!Changing
  <2>2. release' \in [Deploy!Releases -> {"none", "part", "whole"}]
    BY <1>1, <1>27 DEF Deploy!Prune
  <2> QED BY <1>1, <1>27, <2>1, <2>2 DEF Deploy!Prune, Deploy!code, Deploy!data, Deploy!bounds, DeployTyped
<1>28. ASSUME NEW d \in Deploy!Deploys, Deploy!ReleaseLock(d) PROVE DeployTyped'
  <2>1. run' \in [Deploy!Deploys -> RunnerRow]
    BY <1>13, <1>28, RunnerMoves DEF Deploy!ReleaseLock, Deploy!Alive, Deploy!Changing
  <2> QED BY <1>1, <1>2, <1>28, <2>1 DEF Deploy!ReleaseLock, Deploy!code, Deploy!data, Deploy!front, Deploy!bounds, DeployTyped
<1> QED BY <1>3, <1>4, <1>5, <1>6, <1>7, <1>8, <1>9, <1>10, <1>11, <1>12, <1>14, <1>15, <1>16, <1>17, <1>18, <1>19,
           <1>20, <1>21, <1>22, <1>23, <1>24, <1>25, <1>26, <1>27, <1>28 DEF Deploy!Next, Deploy!RunnerStep

\* A runner's step that leaves locks and calls alone keeps who is alive and who holds the lock.
LEMMA RunnerHolds ==
    ASSUME DeployTyped, OneAlive, LockSays, NEW d \in Deploy!Deploys, run[d].pc \in Deploy!Alive \ {"spawned"},
           run'[d].pc \notin {"new", "spawned"},
           \A e \in Deploy!Deploys : e # d => run'[e] = run[e],
           UNCHANGED <<caller, unlock, unlocks, raced, lock>>
    PROVE  OneAlive' /\ LockSays'
<1>1. \A e \in Deploy!Deploys : e # d => run'[e] = run[e] /\ run[e].pc \notin Deploy!Alive
  BY DEF OneAlive
<1>2. \A e \in Deploy!Deploys : run'[e].pc \in Deploy!Alive => e = d
  BY <1>1
<1>3. caller[d] \notin {"new", "mkdir"}
  BY DEF OneAlive, Deploy!Alive, Deploy!Changing
<1>4. OneAlive'
  <2>1. \A e \in Deploy!Deploys : caller'[e] \in {"new", "mkdir"} => run'[e].pc = "new"
    BY <1>1, <1>3 DEF OneAlive
  <2> QED BY <1>2, <2>1 DEF OneAlive
<1>5. LockSays'
  <2>1. raced = "no" => lock.dir = "yes" /\ lock.id = d
    BY DEF LockSays
  <2> QED BY <1>2, <2>1 DEF LockSays
<1> QED BY <1>4, <1>5

\* A runner that dies leaves the lock where it is.
LEMMA RunnerDies ==
    ASSUME DeployTyped, OneAlive, LockSays, NEW d \in Deploy!Deploys, run[d].pc \in Deploy!Alive, run' = Deploy!Goto(d, "dead"),
           UNCHANGED <<caller, unlock, unlocks, raced, lock>>
    PROVE  OneAlive' /\ LockSays'
<1>1. /\ run'[d].pc = "dead" /\ \A e \in Deploy!Deploys : e # d => run'[e] = run[e] /\ run[e].pc \notin Deploy!Alive
  BY RunnerMoves, "dead" \in RunnerPcs DEF RunnerPcs
<1>2. \A e \in Deploy!Deploys : run'[e].pc \notin Deploy!Alive
  BY <1>1 DEF Deploy!Alive, Deploy!Changing
<1>3. caller[d] \notin {"new", "mkdir"}
  BY DEF OneAlive, Deploy!Alive, Deploy!Changing
<1>4. \A e \in Deploy!Deploys : caller'[e] \in {"new", "mkdir"} => run'[e].pc = "new"
  BY <1>1, <1>3 DEF OneAlive
<1> QED BY <1>2, <1>4 DEF OneAlive, LockSays

\* One runner at a time, and it holds the lock.
LEMMA OneHolds ==
    ASSUME DeployLimits, DeployTyped, OneAlive, LockSays, [Deploy!Next]_(Deploy!vars)
    PROVE  OneAlive' /\ LockSays'
<1>1. /\ run \in [Deploy!Deploys -> RunnerRow] /\ caller \in [Deploy!Deploys -> {"new", "mkdir", "wait", "rm", "done"}]
      /\ lock \in [dir : {"no", "yes"}, id : 0..MaxDeploys] /\ unlocks \in Nat
      /\ \A d \in Deploy!Deploys : d # 0
  BY DEF DeployTyped, Deploy!Deploys
<1>2. CASE UNCHANGED <<run, caller, lock, unlock, unlocks, raced>>
  BY <1>2 DEF OneAlive, LockSays
<1>3. ASSUME NEW d \in Deploy!Deploys, Deploy!Plan(d) PROVE OneAlive' /\ LockSays'
  <2>1. /\ \A e \in Deploy!Deploys : run'[e].pc = run[e].pc
        /\ \A e \in Deploy!Deploys : caller'[e] \in {"new", "mkdir"} => caller[e] \in {"new", "mkdir"}
        /\ UNCHANGED <<lock, unlock, unlocks, raced>>
    BY <1>1, <1>3 DEF Deploy!Plan, Deploy!NextDeploy, Deploy!bounds, RunnerRow
  <2> QED BY <2>1 DEF OneAlive, LockSays
<1>4. ASSUME NEW d \in Deploy!Deploys, Deploy!LockDir(d), raced = "no" PROVE OneAlive' /\ LockSays'
  <2>1. CASE lock.dir = "no"
    <3>1. /\ lock' = [dir |-> "yes", id |-> 0] /\ run' = Deploy!Goto(d, "spawned") /\ caller' = [caller EXCEPT ![d] = "wait"]
          /\ UNCHANGED <<unlock, unlocks, raced>>
      BY <1>4, <2>1 DEF Deploy!LockDir, Deploy!Mkdir, Deploy!bounds
    <3>2. run'[d].pc = "spawned" /\ \A e \in Deploy!Deploys : e # d => run'[e] = run[e]
      BY <1>1, <3>1 DEF Deploy!Goto, RunnerRow
    <3>3. \A e \in Deploy!Deploys : run[e].pc \notin Deploy!Alive
      BY <1>4, <2>1 DEF LockSays
    <3>4. \A e \in Deploy!Deploys : run'[e].pc \in Deploy!Alive => e = d
      BY <3>2, <3>3
    <3>5. \A e \in Deploy!Deploys : caller'[e] \in {"new", "mkdir"} => e # d /\ caller[e] \in {"new", "mkdir"}
      BY <1>1, <3>1
    <3>6. OneAlive'
      BY <3>2, <3>4, <3>5 DEF OneAlive
    <3>7. LockSays'
      BY <3>1, <3>2, <3>4 DEF LockSays
    <3> QED BY <3>6, <3>7
  <2>2. CASE lock.dir # "no"
    <3>1. UNCHANGED <<lock, run, unlock, unlocks, raced>> /\ caller' = [caller EXCEPT ![d] = "done"]
      BY <1>4, <2>2 DEF Deploy!LockDir, Deploy!Mkdir, Deploy!bounds
    <3>2. \A e \in Deploy!Deploys : caller'[e] \in {"new", "mkdir"} => caller[e] \in {"new", "mkdir"}
      BY <1>1, <3>1
    <3> QED BY <3>1, <3>2 DEF OneAlive, LockSays
  <2> QED BY <2>1, <2>2
<1>5. ASSUME NEW d \in Deploy!Deploys, Deploy!CallerSees(d) \/ Deploy!CallerTimesOut(d) PROVE OneAlive' /\ LockSays'
  <2>1. /\ UNCHANGED <<lock, run, unlock, unlocks, raced>>
        /\ caller' = [caller EXCEPT ![d] = "done"] \/ caller' = [caller EXCEPT ![d] = "rm"]
    BY <1>5 DEF Deploy!CallerSees, Deploy!CallerTimesOut, Deploy!bounds
  <2>2. \A e \in Deploy!Deploys : caller'[e] \in {"new", "mkdir"} => caller[e] \in {"new", "mkdir"}
    BY <1>1, <2>1
  <2> QED BY <2>1, <2>2 DEF OneAlive, LockSays
<1>6. ASSUME NEW d \in Deploy!Deploys, Deploy!CallerRemovesLock(d) PROVE OneAlive' /\ LockSays'
  <2>1. /\ UNCHANGED <<run, unlock, unlocks>> /\ lock' = Deploy!NoLock /\ raced' = Deploy!Hurried(0)
        /\ caller' = [caller EXCEPT ![d] = "done"]
    BY <1>6 DEF Deploy!CallerRemovesLock, Deploy!bounds
  <2>2. \A e \in Deploy!Deploys : caller'[e] \in {"new", "mkdir"} => caller[e] \in {"new", "mkdir"}
    BY <1>1, <2>1
  <2>3. raced' = "no" => \A e \in Deploy!Deploys : run[e].pc \notin Deploy!Alive
    BY <2>1 DEF Deploy!Hurried
  <2> QED BY <2>1, <2>2, <2>3 DEF OneAlive, LockSays, Deploy!NoLock
<1>7. ASSUME NEW d \in Deploy!Deploys, Deploy!UnlockCheck(d) PROVE OneAlive' /\ LockSays'
  <2>1. UNCHANGED <<run, caller, lock, raced>> /\ unlocks' = unlocks + 1
    BY <1>7 DEF Deploy!UnlockCheck
  <2>2. unlocks' > 0
    BY <1>1, <2>1
  <2> QED BY <2>1, <2>2 DEF OneAlive, LockSays
<1>8. Deploy!UnlockRemove => OneAlive' /\ LockSays'
  <2> SUFFICES ASSUME Deploy!UnlockRemove PROVE OneAlive' /\ LockSays'
    OBVIOUS
  <2>1. UNCHANGED <<run, caller, unlocks>> /\ lock' = Deploy!NoLock /\ raced' = Deploy!Hurried(unlock) /\ unlock' = 0
    BY DEF Deploy!UnlockRemove, Deploy!bounds
  <2>2. raced' = "no" => \A e \in Deploy!Deploys : run[e].pc \notin Deploy!Alive
    BY <2>1 DEF Deploy!Hurried
  <2> QED BY <2>1, <2>2 DEF OneAlive, LockSays, Deploy!NoLock
<1>9. ASSUME NEW d \in Deploy!Deploys, Deploy!WriteMeta(d) PROVE OneAlive' /\ LockSays'
  <2>1. CASE lock.dir = "yes"
    <3>1. /\ run' = [run EXCEPT ![d].pc = "preflight", ![d].prevBe = state.dbe, ![d].prevFe = state.pfe]
          /\ lock' = [lock EXCEPT !.id = d] /\ UNCHANGED <<caller, unlock, unlocks, raced>> /\ run[d].pc = "spawned"
      BY <1>9, <2>1 DEF Deploy!WriteMeta, Deploy!bounds
    <3>2. run'[d].pc = "preflight" /\ \A e \in Deploy!Deploys : e # d => run'[e] = run[e] /\ run[e].pc \notin Deploy!Alive
      BY <1>1, <3>1 DEF OneAlive, RunnerRow, Deploy!Alive
    <3>3. lock'.dir = "yes" /\ lock'.id = d
      BY <1>1, <2>1, <3>1
    <3>4. \A e \in Deploy!Deploys : run'[e].pc \in Deploy!Alive => e = d
      BY <3>2
    <3>5. \A e \in Deploy!Deploys : caller'[e] \in {"new", "mkdir"} => e # d /\ run'[e].pc = "new"
      BY <3>1, <3>2 DEF OneAlive
    <3>6. OneAlive'
      BY <3>4, <3>5 DEF OneAlive
    <3>7. LockSays'
      BY <3>1, <3>2, <3>3, <3>4 DEF LockSays
    <3> QED BY <3>6, <3>7
  <2>2. CASE lock.dir # "yes"
    BY <1>9, <2>2, RunnerDies DEF Deploy!WriteMeta, Deploy!bounds, Deploy!Alive
  <2> QED BY <2>1, <2>2
<1>10. ASSUME NEW d \in Deploy!Deploys, Deploy!Stops(d) PROVE OneAlive' /\ LockSays'
  BY <1>10, RunnerDies DEF Deploy!Stops, Deploy!bounds
<1>11. ASSUME NEW d \in Deploy!Deploys, Deploy!Preflight(d) PROVE OneAlive' /\ LockSays'
  <2>1. CASE run' = Deploy!Goto(d, "dead")
    BY <1>11, <2>1, RunnerDies DEF Deploy!Preflight, Deploy!bounds, Deploy!Alive
  <2>2. CASE run' = [run EXCEPT ![d].pc = "ff", ![d].base = state.dbe]
    <3>1. run'[d].pc = "ff" /\ \A e \in Deploy!Deploys : e # d => run'[e] = run[e]
      BY <1>1, <2>2 DEF RunnerRow
    <3>2. UNCHANGED <<caller, unlock, unlocks, raced, lock>> /\ run[d].pc = "preflight"
      BY <1>11 DEF Deploy!Preflight, Deploy!bounds
    <3>3. run[d].pc \in Deploy!Alive \ {"spawned"}
      BY <3>2 DEF Deploy!Alive
    <3>4. run'[d].pc \notin {"new", "spawned"}
      BY <3>1
    <3> QED BY <3>1, <3>2, <3>3, <3>4, RunnerHolds
  <2> QED BY <1>11, <2>1, <2>2 DEF Deploy!Preflight
<1>12. ASSUME NEW d \in Deploy!Deploys, run[d].pc \in Deploy!Changing, NEW to \in RunnerPcs \ {"new", "spawned"}, run' = Deploy!Goto(d, to),
              UNCHANGED <<caller, unlock, unlocks, raced, lock>>
       PROVE  OneAlive' /\ LockSays'
  <2>1. run[d].pc \in Deploy!Alive \ {"spawned"}
    BY <1>12 DEF Deploy!Alive, Deploy!Changing
  <2>2. run'[d].pc = to /\ \A e \in Deploy!Deploys : e # d => run'[e] = run[e]
    BY <1>12, <2>1, RunnerMoves
  <2> QED BY <1>12, <2>1, <2>2, RunnerHolds
<1>13. /\ "dead" \in RunnerPcs /\ "build" \in RunnerPcs /\ "backup" \in RunnerPcs /\ "restart" \in RunnerPcs
       /\ "seed" \in RunnerPcs /\ "health" \in RunnerPcs /\ "feBuild" \in RunnerPcs /\ "swap" \in RunnerPcs
       /\ "rollback" \in RunnerPcs /\ "prune" \in RunnerPcs /\ "release" \in RunnerPcs /\ "deployed" \in RunnerPcs
  BY DEF RunnerPcs, Deploy!Alive, Deploy!Changing
<1>14. ASSUME NEW d \in Deploy!Deploys, Deploy!FastForwardBe(d) \/ Deploy!Build(d) \/ Deploy!MigrateDeploy(d) \/ Deploy!SeedSystem(d) PROVE OneAlive' /\ LockSays'
  <2>1. UNCHANGED <<caller, unlock, unlocks, raced, lock>> /\ run[d].pc \in Deploy!Changing
    BY <1>14 DEF Deploy!FastForwardBe, Deploy!Build, Deploy!MigrateDeploy, Deploy!SeedSystem, Deploy!bounds, Deploy!Changing
  <2>2. \E to \in {"build", "backup", "restart", "seed", "dead"} : run' = Deploy!Goto(d, to)
    BY <1>14 DEF Deploy!FastForwardBe, Deploy!Build, Deploy!MigrateDeploy, Deploy!SeedSystem
  <2> QED BY <1>12, <1>13, <2>1, <2>2
<1>15. ASSUME NEW d \in Deploy!Deploys, Deploy!RestartBackend(d) \/ Deploy!RecordBackend(d) \/ Deploy!BuildFrontend(d) PROVE OneAlive' /\ LockSays'
  <2>1. UNCHANGED <<caller, unlock, unlocks, raced, lock>> /\ run[d].pc \in Deploy!Changing
    BY <1>15 DEF Deploy!RestartBackend, Deploy!RecordBackend, Deploy!BuildFrontend, Deploy!bounds, Deploy!Changing
  <2>2. \E to \in {"health", "feBuild", "swap", "dead"} : run' = Deploy!Goto(d, to)
    BY <1>15 DEF Deploy!RestartBackend, Deploy!RecordBackend, Deploy!BuildFrontend
  <2> QED BY <1>12, <1>13, <2>1, <2>2
<1>16. ASSUME NEW d \in Deploy!Deploys, Deploy!ProbeFails(d) \/ Deploy!RollBack(d) \/ Deploy!RecordFrontend(d) \/ Deploy!Prune(d) PROVE OneAlive' /\ LockSays'
  <2>1. UNCHANGED <<caller, unlock, unlocks, raced, lock>> /\ run[d].pc \in Deploy!Changing
    BY <1>16 DEF Deploy!ProbeFails, Deploy!RollBack, Deploy!RecordFrontend, Deploy!Prune, Deploy!bounds, Deploy!Changing
  <2>2. \E to \in {"rollback", "dead", "prune", "release"} : run' = Deploy!Goto(d, to)
    BY <1>16 DEF Deploy!ProbeFails, Deploy!RollBack, Deploy!RecordFrontend, Deploy!Prune
  <2> QED BY <1>12, <1>13, <2>1, <2>2
<1>17. ASSUME NEW d \in Deploy!Deploys, Deploy!BackupAndGate(d) \/ Deploy!SwapDist(d) PROVE OneAlive' /\ LockSays'
  <2>1. UNCHANGED <<caller, unlock, unlocks, raced, lock>> /\ run[d].pc \in Deploy!Alive \ {"spawned"}
    BY <1>17 DEF Deploy!BackupAndGate, Deploy!SwapDist, Deploy!bounds, Deploy!Changing, Deploy!Alive
  <2>2. run'[d].pc \in {"migrate", "probe"} /\ \A e \in Deploy!Deploys : e # d => run'[e] = run[e]
    BY <1>1, <1>17 DEF Deploy!BackupAndGate, Deploy!SwapDist, RunnerRow
  <2> QED BY <2>1, <2>2, RunnerHolds
<1>18. ASSUME NEW d \in Deploy!Deploys, Deploy!ReleaseLock(d) PROVE OneAlive' /\ LockSays'
  <2>1. UNCHANGED <<caller, unlock, unlocks, raced>> /\ run[d].pc \in Deploy!Alive /\ run' = Deploy!Goto(d, "deployed") /\ lock' = Deploy!NoLock
    BY <1>18 DEF Deploy!ReleaseLock, Deploy!bounds, Deploy!Changing, Deploy!Alive
  <2>2. run'[d].pc = "deployed" /\ \A e \in Deploy!Deploys : e # d => run'[e] = run[e] /\ run[e].pc \notin Deploy!Alive
    BY <1>13, <2>1, RunnerMoves
  <2>3. \A e \in Deploy!Deploys : run'[e].pc \notin Deploy!Alive
    BY <2>2 DEF Deploy!Alive, Deploy!Changing
  <2>4. \A e \in Deploy!Deploys : caller'[e] \in {"new", "mkdir"} => run'[e].pc = "new"
    BY <1>18, <2>1, <2>2 DEF OneAlive, Deploy!ReleaseLock
  <2> QED BY <2>1, <2>3, <2>4 DEF OneAlive, LockSays, Deploy!NoLock
<1>19. Deploy!Push("be", BeTip) \/ Deploy!Push("fe", FeTip) \/ Deploy!Pm2Restart \/ UNCHANGED Deploy!vars => OneAlive' /\ LockSays'
  BY <1>2 DEF Deploy!Push, Deploy!Pm2Restart, Deploy!vars, Deploy!bounds
<1> QED BY <1>3, <1>4, <1>5, <1>6, <1>7, <1>8, <1>9, <1>10, <1>11, <1>14, <1>15, <1>16, <1>17, <1>18, <1>19 DEF Deploy!Next, Deploy!RunnerStep

\* While a runner past its spawn holds the lock, nothing is promised of what it changes.
LEMMA LockedAway ==
    ASSUME DeployTyped, LockSays, NEW d \in Deploy!Deploys, run[d].pc \in Deploy!Alive \ {"spawned"}, run'[d].pc # "preflight",
           UNCHANGED <<lock, unlocks, raced>>
    PROVE  Agreed'
<1>1. raced = "no" => lock.id = d /\ d # 0
  BY DEF LockSays, Deploy!Deploys
<1> QED BY <1>1 DEF Agreed, Untouched

\* Who is not alive knows only that it has not built anything yet.
LEMMA OthersKnow ==
    ASSUME OneAlive, RunnersKnow, NEW d \in Deploy!Deploys, run[d].pc \in Deploy!Alive,
           \A e \in Deploy!Deploys : e # d => run'[e] = run[e] /\ (release[e] = "none" => release'[e] = "none"),
           BackendSays(d)', DbSays(d)', FrontSays(d)'
    PROVE  RunnersKnow'
<1> SUFFICES ASSUME NEW e \in Deploy!Deploys, e # d PROVE BackendSays(e)' /\ DbSays(e)' /\ FrontSays(e)'
  BY DEF RunnersKnow
<1>1. run'[e] = run[e] /\ run[e].pc \notin Deploy!Alive
  BY DEF OneAlive
<1>2. /\ run[e].pc \notin Deploy!Changing /\ run[e].pc \notin {"spawned", "preflight"} /\ run[e].pc \notin Backing
      /\ run[e].pc \notin Fronting /\ run[e].pc \notin Switched
  BY <1>1 DEF Deploy!Alive, Deploy!Changing, Backing, Fronting, Switched
<1>3. run[e].pc = "new" => release'[e] = "none"
  BY DEF RunnersKnow, FrontSays
<1>4. BackendSays(e)'
  BY <1>1, <1>2 DEF BackendSays, Backing, Deploy!Changing
<1>5. DbSays(e)'
  BY <1>1, <1>2 DEF DbSays, Deploy!Changing
<1>6. FrontSays(e)'
  BY <1>1, <1>2, <1>3 DEF FrontSays, Deploy!Changing
<1> QED BY <1>4, <1>5, <1>6

\* A runner goes from one changing step to the next.
LEMMA StepSound ==
    ASSUME DeployLimits, DeployTyped, OneAlive, LockSays, DeploySound, NEW d \in Deploy!Deploys,
           run[d].pc \in Deploy!Changing, run'[d].pc \in Deploy!Changing, run'[d].be = run[d].be, run'[d].fe = run[d].fe,
           \A e \in Deploy!Deploys : e # d => run'[e] = run[e] /\ (release[e] = "none" => release'[e] = "none"),
           UNCHANGED <<tip, caller, lock, unlocks, raced>>, DeployTyped',
           BackendSays(d)', DbSays(d)', FrontSays(d)', Deploy!DeployedIsInDb', InUseWhole', Deploy!PreviousBackendKept'
    PROVE  DeploySound'
<1>1. run[d].pc \in Deploy!Alive \ {"spawned"} /\ run'[d].pc # "preflight"
  BY DEF Deploy!Alive, Deploy!Changing
<1>2. RunnersKnow'
  BY <1>1, OthersKnow DEF DeploySound
<1>3. Agreed'
  BY <1>1, LockedAway
<1>4. /\ state'.dbe <= run[d].be /\ state'.pfe <= run[d].fe /\ state'.dbe \in Int /\ state'.pfe \in Int
      /\ run[d].be \in Int /\ run[d].fe \in Int /\ tip.be \in Int /\ tip.fe \in Int
      /\ run[d].be <= tip.be /\ run[d].fe <= tip.fe
  BY DEF DeployTyped, RunnerRow, BackendSays, FrontSays, DeploySound, NewestRuns
<1>5. state'.dbe <= tip'.be /\ state'.pfe <= tip'.fe
  BY <1>4
<1>6. /\ \A e \in Deploy!Deploys : run'[e].be = run[e].be /\ run'[e].fe = run[e].fe
      /\ \A e \in Deploy!Deploys : run'[e].pc \in Deploy!Changing => run[e].pc \in Deploy!Changing
  OBVIOUS
<1>7. NewestRuns'
  BY <1>5, <1>6 DEF DeploySound, NewestRuns, Planned
<1>8. Replannable'
  <2> SUFFICES ASSUME NEW e \in Deploy!Deploys, Planned(e), run[e].be = tip.be, run[e].fe = tip.fe PROVE PlanStands'
    BY <1>6 DEF Replannable, Planned
  <2>1. tip.be <= run[d].be /\ tip.fe <= run[d].fe
    BY DEF DeploySound, NewestRuns
  <2>2. run'[d].be = tip'.be /\ run'[d].fe = tip'.fe
    BY <1>4, <2>1
  <2>3. head'.be = state'.dbe \/ head'.be = tip'.be
    BY <2>2 DEF BackendSays
  <2>4. head'.fe = state'.pfe \/ head'.fe = tip'.fe
    BY <2>2 DEF FrontSays, Deploy!Changing, Backing, Fronting
  <2>5. head'.be = state'.dbe => Deploy!Between(0, head'.be, Migrating) \subseteq db'.migrated
    BY DEF Deploy!DeployedIsInDb
  <2> QED BY <2>3, <2>4, <2>5 DEF PlanStands
<1> QED BY <1>2, <1>3, <1>7, <1>8 DEF DeploySound

\* A runner dies.
LEMMA EndSound ==
    ASSUME DeployTyped, OneAlive, DeploySound, NEW d \in Deploy!Deploys, run[d].pc \in Deploy!Alive, run' = Deploy!Goto(d, "dead"),
           \A e \in Deploy!Deploys : e # d => (release[e] = "none" => release'[e] = "none"),
           UNCHANGED <<tip, state, caller>>, Replannable', Agreed', InUseWhole', Deploy!DeployedIsInDb'
    PROVE  DeploySound'
<1>1. /\ run'[d].pc = "dead" /\ run'[d].be = run[d].be /\ run'[d].fe = run[d].fe
      /\ \A e \in Deploy!Deploys : e # d => run'[e] = run[e] /\ run[e].pc \notin Deploy!Alive
  BY RunnerMoves, "dead" \in RunnerPcs DEF RunnerPcs
<1>2. BackendSays(d)'
  BY <1>1 DEF BackendSays, Deploy!Changing, Backing, Fronting
<1>3. DbSays(d)'
  BY <1>1 DEF DbSays
<1>4. FrontSays(d)'
  BY <1>1 DEF FrontSays, Deploy!Changing, Backing, Fronting, Switched
<1>5. RunnersKnow'
  BY <1>1, <1>2, <1>3, <1>4, OthersKnow DEF DeploySound
<1>6. \A e \in Deploy!Deploys : run'[e].pc \notin Deploy!Changing /\ run'[e].be = run[e].be /\ run'[e].fe = run[e].fe
  BY <1>1 DEF Deploy!Changing, Deploy!Alive
<1>7. NewestRuns'
  BY <1>6 DEF DeploySound, NewestRuns
<1>8. Deploy!PreviousBackendKept'
  BY DEF DeploySound, Deploy!PreviousBackendKept
<1> QED BY <1>5, <1>7, <1>8 DEF DeploySound

\* Pushes, restarts by themselves and what callers and operators do leave every record true.
LEMMA WorldSound ==
    ASSUME DeployLimits, DeployTyped, OneAlive, LockSays, DeploySound, raced = "no",
           \/ Deploy!Push("be", BeTip) \/ Deploy!Push("fe", FeTip) \/ Deploy!Pm2Restart \/ Deploy!UnlockRemove
           \/ \E d \in Deploy!Deploys : Deploy!Plan(d) \/ Deploy!LockDir(d) \/ Deploy!CallerSees(d) \/ Deploy!CallerTimesOut(d)
                                 \/ Deploy!CallerRemovesLock(d) \/ Deploy!UnlockCheck(d)
    PROVE  DeploySound'
<1>1. /\ run \in [Deploy!Deploys -> RunnerRow] /\ caller \in [Deploy!Deploys -> {"new", "mkdir", "wait", "rm", "done"}]
      /\ tip \in [be : Int, fe : Int] /\ \A d \in Deploy!Deploys : run[d].be \in Int /\ run[d].fe \in Int
      /\ state.dbe \in Int /\ state.pfe \in Int
  BY DEF DeployTyped, RunnerRow, DeployLimits
<1>2. ASSUME UNCHANGED <<head, built, Deploy!data, Deploy!front>> PROVE Deploy!DeployedIsInDb' /\ InUseWhole' /\ Deploy!PreviousBackendKept'
  BY <1>2 DEF DeploySound, Deploy!DeployedIsInDb, InUseWhole, Deploy!PreviousBackendKept, Deploy!data, Deploy!front
<1>3. ASSUME UNCHANGED <<Deploy!code, Deploy!data, Deploy!front, run>> PROVE RunnersKnow'
  BY <1>3 DEF DeploySound, RunnersKnow, BackendSays, DbSays, FrontSays, Deploy!code, Deploy!data, Deploy!front
<1>4. ASSUME UNCHANGED <<head, Deploy!data, Deploy!front, run, caller, lock, unlocks, raced, built>>, tip'.be >= tip.be, tip'.fe >= tip.fe,
             tip' \in [be : Int, fe : Int], tip' = tip \/ tip'.be > tip.be \/ tip'.fe > tip.fe
      PROVE  NewestRuns' /\ Replannable'
  <2>1. /\ state'.dbe <= tip'.be /\ state'.pfe <= tip'.fe
        /\ \A d \in Deploy!Deploys : run'[d].be <= tip'.be /\ run'[d].fe <= tip'.fe
    <3>1. state.dbe <= tip.be /\ state.pfe <= tip.fe /\ \A d \in Deploy!Deploys : run[d].be <= tip.be /\ run[d].fe <= tip.fe
      BY DEF DeploySound, NewestRuns
    <3>2. state'.dbe = state.dbe /\ state'.pfe = state.pfe /\ run' = run
      BY <1>4 DEF Deploy!data
    <3> QED BY <1>1, <1>4, <3>1, <3>2
  <2>2. NewestRuns'
    BY <1>4, <2>1 DEF DeploySound, NewestRuns, Planned
  <2>3. ASSUME NEW d \in Deploy!Deploys, run[d].be = tip'.be, run[d].fe = tip'.fe PROVE tip' = tip
    <3>1. run[d].be <= tip.be /\ run[d].fe <= tip.fe
      BY DEF DeploySound, NewestRuns
    <3> QED BY <1>1, <1>4, <2>3, <3>1
  <2>4. Replannable'
    <3> SUFFICES ASSUME NEW d \in Deploy!Deploys, Planned(d), run[d].be = tip'.be, run[d].fe = tip'.fe PROVE PlanStands'
      BY <1>4 DEF Replannable, Planned
    <3>1. tip' = tip
      BY <2>3
    <3>2. PlanStands
      BY <3>1 DEF DeploySound, Replannable
    <3> QED BY <1>4, <3>1, <3>2 DEF PlanStands, Deploy!data
  <2> QED BY <2>2, <2>4
<1>5. Deploy!Push("be", BeTip) => DeploySound'
  <2> SUFFICES ASSUME Deploy!Push("be", BeTip) PROVE DeploySound'
    OBVIOUS
  <2>1. /\ UNCHANGED <<head, built, running, db, state, release, dist, run, caller, lock, unlocks, raced>>
        /\ tip' = [tip EXCEPT !.be = tip.be + 1]
    BY DEF Deploy!Push, Deploy!data, Deploy!front, Deploy!bounds
  <2>2. tip'.be > tip.be /\ tip'.be >= tip.be /\ tip'.fe >= tip.fe /\ tip' \in [be : Int, fe : Int]
    BY <1>1, <2>1
  <2>3. NewestRuns' /\ Replannable' /\ Deploy!DeployedIsInDb' /\ InUseWhole' /\ Deploy!PreviousBackendKept'
    BY <1>2, <1>4, <2>1, <2>2 DEF Deploy!data, Deploy!front
  <2>4. RunnersKnow'
    BY <2>1 DEF DeploySound, RunnersKnow, BackendSays, DbSays, FrontSays
  <2>5. Agreed'
    BY <2>1 DEF DeploySound, Agreed, AsRecorded, Untouched
  <2> QED BY <2>3, <2>4, <2>5 DEF DeploySound
<1>6. Deploy!Push("fe", FeTip) => DeploySound'
  <2> SUFFICES ASSUME Deploy!Push("fe", FeTip) PROVE DeploySound'
    OBVIOUS
  <2>1. /\ UNCHANGED <<head, built, running, db, state, release, dist, run, caller, lock, unlocks, raced>>
        /\ tip' = [tip EXCEPT !.fe = tip.fe + 1]
    BY DEF Deploy!Push, Deploy!data, Deploy!front, Deploy!bounds
  <2>2. tip'.fe > tip.fe /\ tip'.be >= tip.be /\ tip'.fe >= tip.fe /\ tip' \in [be : Int, fe : Int]
    BY <1>1, <2>1
  <2>3. NewestRuns' /\ Replannable' /\ Deploy!DeployedIsInDb' /\ InUseWhole' /\ Deploy!PreviousBackendKept'
    BY <1>2, <1>4, <2>1, <2>2 DEF Deploy!data, Deploy!front
  <2>4. RunnersKnow'
    BY <2>1 DEF DeploySound, RunnersKnow, BackendSays, DbSays, FrontSays
  <2>5. Agreed'
    BY <2>1 DEF DeploySound, Agreed, AsRecorded, Untouched
  <2> QED BY <2>3, <2>4, <2>5 DEF DeploySound
<1>7. Deploy!Pm2Restart => DeploySound'
  <2> SUFFICES ASSUME Deploy!Pm2Restart PROVE DeploySound'
    OBVIOUS
  <2>1. UNCHANGED <<tip, head, built, db, state, release, dist, run, caller, lock, unlocks, raced>> /\ running' = built
    BY DEF Deploy!Pm2Restart, Deploy!data, Deploy!front
  <2>2. NewestRuns' /\ Replannable' /\ Deploy!DeployedIsInDb' /\ InUseWhole' /\ Deploy!PreviousBackendKept'
    BY <1>1, <1>2, <1>4, <2>1 DEF Deploy!data, Deploy!front
  <2>3. RunnersKnow'
    <3> SUFFICES ASSUME NEW d \in Deploy!Deploys PROVE BackendSays(d)' /\ DbSays(d)' /\ FrontSays(d)'
      BY DEF RunnersKnow
    <3>1. BackendSays(d) /\ DbSays(d) /\ FrontSays(d)
      BY DEF DeploySound, RunnersKnow
    <3>2. run[d].pc \in {"health"} \union Fronting => built = run[d].be
      BY <3>1 DEF BackendSays, Fronting, Deploy!Changing
    <3>3. BackendSays(d)'
      BY <2>1, <3>1, <3>2 DEF BackendSays
    <3> QED BY <2>1, <3>1, <3>3 DEF DbSays, FrontSays
  <2>4. Agreed'
    BY <2>1 DEF DeploySound, Agreed, AsRecorded, Untouched
  <2> QED BY <2>2, <2>3, <2>4 DEF DeploySound
<1>8. ASSUME UNCHANGED <<Deploy!code, Deploy!data, Deploy!front, run>>, \A d \in Deploy!Deploys : Planned(d)' <=> Planned(d), Agreed'
      PROVE  DeploySound'
  <2>1. RunnersKnow' /\ Deploy!DeployedIsInDb' /\ InUseWhole' /\ Deploy!PreviousBackendKept'
    BY <1>2, <1>3, <1>8 DEF Deploy!code
  <2>2. NewestRuns' /\ Replannable'
    BY <1>8 DEF DeploySound, NewestRuns, Replannable, PlanStands, Deploy!code, Deploy!data
  <2> QED BY <1>8, <2>1, <2>2 DEF DeploySound
<1>9. ASSUME UNCHANGED <<Deploy!code, Deploy!data, Deploy!front>> PROVE AsRecorded' <=> AsRecorded
  BY <1>9 DEF AsRecorded, Deploy!code, Deploy!data, Deploy!front
<1>10. Deploy!UnlockRemove => DeploySound'
  <2> SUFFICES ASSUME Deploy!UnlockRemove PROVE DeploySound'
    OBVIOUS
  <2>1. UNCHANGED <<Deploy!code, Deploy!data, Deploy!front, run, caller, unlocks>> /\ unlock # 0
    BY DEF Deploy!UnlockRemove, Deploy!bounds
  <2>2. Agreed'
    BY <2>1 DEF LockSays, Agreed
  <2> QED BY <1>8, <2>1, <2>2 DEF Planned
<1>11. ASSUME NEW d \in Deploy!Deploys, Deploy!CallerSees(d) \/ Deploy!CallerTimesOut(d) PROVE DeploySound'
  <2>1. /\ UNCHANGED <<Deploy!code, Deploy!data, Deploy!front, run, lock, unlocks, raced>> /\ caller[d] = "wait"
        /\ caller' = [caller EXCEPT ![d] = "done"] \/ caller' = [caller EXCEPT ![d] = "rm"]
    BY <1>11 DEF Deploy!CallerSees, Deploy!CallerTimesOut, Deploy!bounds
  <2>2. Agreed'
    BY <1>9, <2>1 DEF DeploySound, Agreed, Untouched
  <2>3. \A e \in Deploy!Deploys : Planned(e)' <=> Planned(e)
    BY <1>1, <2>1 DEF Planned
  <2> QED BY <1>8, <2>1, <2>2, <2>3
<1>12. ASSUME NEW d \in Deploy!Deploys, Deploy!CallerRemovesLock(d) PROVE DeploySound'
  <2>1. /\ UNCHANGED <<Deploy!code, Deploy!data, Deploy!front, run, unlocks>> /\ caller[d] = "rm" /\ raced' = Deploy!Hurried(0)
        /\ caller' = [caller EXCEPT ![d] = "done"]
    BY <1>12 DEF Deploy!CallerRemovesLock, Deploy!bounds
  <2>2. raced' = "no" => lock.id = 0
    BY <2>1 DEF Deploy!Hurried
  <2>3. Agreed'
    BY <1>9, <2>1, <2>2 DEF DeploySound, Agreed, Untouched
  <2>4. \A e \in Deploy!Deploys : Planned(e)' <=> Planned(e)
    BY <1>1, <2>1 DEF Planned
  <2> QED BY <1>8, <2>1, <2>3, <2>4
<1>13. ASSUME NEW d \in Deploy!Deploys, Deploy!UnlockCheck(d) PROVE DeploySound'
  <2>1. UNCHANGED <<Deploy!code, Deploy!data, Deploy!front, run, caller>> /\ unlocks' = unlocks + 1 /\ unlocks \in Nat
    BY <1>13 DEF Deploy!UnlockCheck, DeployTyped
  <2>2. unlocks' # 0
    BY <2>1
  <2>3. Agreed'
    BY <2>2 DEF Agreed
  <2> QED BY <1>8, <2>1, <2>3 DEF Planned
<1>14. ASSUME NEW d \in Deploy!Deploys, Deploy!LockDir(d) PROVE DeploySound'
  <2>1. CASE lock.dir = "no"
    <3>1. /\ lock' = [dir |-> "yes", id |-> 0] /\ run' = Deploy!Goto(d, "spawned") /\ caller' = [caller EXCEPT ![d] = "wait"]
          /\ UNCHANGED <<Deploy!code, Deploy!data, Deploy!front, unlocks, raced>> /\ caller[d] = "mkdir"
      BY <1>14, <2>1 DEF Deploy!LockDir, Deploy!Mkdir, Deploy!bounds
    <3>2. /\ run'[d].pc = "spawned" /\ \A e \in Deploy!Deploys : e # d => run'[e] = run[e]
          /\ \A e \in Deploy!Deploys : run'[e].be = run[e].be /\ run'[e].fe = run[e].fe
      BY <1>1, <3>1 DEF Deploy!Goto, RunnerRow
    <3>3. run[d].pc = "new" /\ FrontSays(d)
      BY <3>1 DEF OneAlive, DeploySound, RunnersKnow
    <3>4. \A e \in Deploy!Deploys : Planned(e)' <=> Planned(e)
      BY <1>1, <3>1 DEF Planned
    <3>5. BackendSays(d)' /\ DbSays(d)'
      BY <3>2 DEF BackendSays, DbSays, Backing, Fronting, Deploy!Changing
    <3>6. FrontSays(d)'
      BY <3>1, <3>2, <3>3 DEF FrontSays, Backing, Fronting, Switched, Deploy!Changing, Deploy!front
    <3>7. RunnersKnow'
      <4> SUFFICES ASSUME NEW e \in Deploy!Deploys, e # d PROVE BackendSays(e)' /\ DbSays(e)' /\ FrontSays(e)'
        BY <3>5, <3>6 DEF RunnersKnow
      <4>1. BackendSays(e) /\ DbSays(e) /\ FrontSays(e) /\ run'[e] = run[e]
        BY <3>2 DEF DeploySound, RunnersKnow
      <4> QED BY <3>1, <4>1 DEF BackendSays, DbSays, FrontSays, Deploy!code, Deploy!data, Deploy!front
    <3>8. \A e \in Deploy!Deploys : run'[e].pc \in Deploy!Changing => run[e].pc \in Deploy!Changing
      BY <3>2 DEF Deploy!Changing
    <3>9. NewestRuns'
      BY <3>1, <3>2, <3>4, <3>8 DEF DeploySound, NewestRuns, Deploy!code, Deploy!data
    <3>10. Replannable'
      BY <3>1, <3>2, <3>4 DEF DeploySound, Replannable, PlanStands, Deploy!code, Deploy!data
    <3>11. Agreed'
      BY <1>9, <2>1, <3>1 DEF LockSays, DeploySound, Agreed, Untouched
    <3>12. Deploy!DeployedIsInDb' /\ InUseWhole' /\ Deploy!PreviousBackendKept'
      BY <1>2, <3>1 DEF Deploy!code
    <3> QED BY <3>7, <3>9, <3>10, <3>11, <3>12 DEF DeploySound
  <2>2. CASE lock.dir # "no"
    <3>1. /\ UNCHANGED <<Deploy!code, Deploy!data, Deploy!front, run, lock, unlocks, raced>> /\ caller[d] = "mkdir"
          /\ caller' = [caller EXCEPT ![d] = "done"]
      BY <1>14, <2>2 DEF Deploy!LockDir, Deploy!Mkdir, Deploy!bounds
    <3>2. Agreed'
      BY <1>9, <3>1 DEF DeploySound, Agreed, Untouched
    <3>3. \A e \in Deploy!Deploys : Planned(e)' <=> Planned(e)
      BY <1>1, <3>1 DEF Planned
    <3> QED BY <1>8, <3>1, <3>2, <3>3
  <2> QED BY <2>1, <2>2
<1>15. ASSUME NEW d \in Deploy!Deploys, Deploy!Plan(d) PROVE DeploySound'
  <2>1. /\ UNCHANGED <<Deploy!code, Deploy!data, Deploy!front, lock, unlocks, raced>> /\ caller[d] = "new" /\ lock.dir = "no"
        /\ caller' = [caller EXCEPT ![d] = "mkdir"] /\ Deploy!PlanOk(tip.be, tip.fe)
    BY <1>15 DEF Deploy!Plan, Deploy!NextDeploy, Deploy!bounds
  <2>2. /\ run'[d].be = tip.be /\ run'[d].fe = tip.fe
        /\ \A e \in Deploy!Deploys : /\ run'[e].pc = run[e].pc
                                     /\ e # d => run'[e] = run[e]
    BY <1>1, <1>15 DEF Deploy!Plan, RunnerRow
  <2>3. \A e \in Deploy!Deploys : e # d => (Planned(e)' <=> Planned(e))
    BY <1>1, <2>1 DEF Planned
  <2>4. \A e \in Deploy!Deploys : run[e].pc \notin Deploy!Alive
    BY <2>1 DEF LockSays
  <2>5. run[d].pc = "new" /\ FrontSays(d)
    BY <2>1 DEF OneAlive, DeploySound, RunnersKnow
  <2>6. PlanStands'
    BY <2>1 DEF Deploy!PlanOk, Deploy!HeadOk, Deploy!DbOk, PlanStands, Deploy!code, Deploy!data
  <2>7. RunnersKnow'
    <3>1. BackendSays(d)' /\ DbSays(d)'
      BY <2>2, <2>5 DEF BackendSays, DbSays, Backing, Fronting, Deploy!Changing
    <3>2. FrontSays(d)'
      BY <2>1, <2>2, <2>5 DEF FrontSays, Backing, Fronting, Switched, Deploy!Changing, Deploy!front
    <3> SUFFICES ASSUME NEW e \in Deploy!Deploys, e # d PROVE BackendSays(e)' /\ DbSays(e)' /\ FrontSays(e)'
      BY <3>1, <3>2 DEF RunnersKnow
    <3>3. BackendSays(e) /\ DbSays(e) /\ FrontSays(e) /\ run'[e] = run[e]
      BY <2>2 DEF DeploySound, RunnersKnow
    <3> QED BY <2>1, <3>3 DEF BackendSays, DbSays, FrontSays, Deploy!code, Deploy!data, Deploy!front
  <2>8. NewestRuns'
    <3>1. \A e \in Deploy!Deploys : run'[e].pc \notin Deploy!Changing
      BY <2>2, <2>4 DEF Deploy!Alive
    <3>2. \A e \in Deploy!Deploys : run'[e].be <= tip.be /\ run'[e].fe <= tip.fe
      BY <1>1, <2>2 DEF DeploySound, NewestRuns
    <3> QED BY <2>1, <3>1, <3>2 DEF DeploySound, NewestRuns, Deploy!code, Deploy!data
  <2>9. Replannable'
    <3>1. tip' = tip /\ (PlanStands' <=> PlanStands)
      BY <2>1 DEF PlanStands, Deploy!code, Deploy!data
    <3> QED BY <2>6 DEF Replannable
  <2>10. Agreed'
    <3>1. Untouched' => Untouched
      <4>1. lock.id \in 0..MaxDeploys /\ (lock.id # 0 => lock.id \in Deploy!Deploys)
        BY DEF DeployTyped, Deploy!Deploys, DeployLimits
      <4> QED BY <2>1, <2>2, <4>1 DEF Untouched
    <3> QED BY <1>9, <2>1, <3>1 DEF DeploySound, Agreed
  <2>11. Deploy!DeployedIsInDb' /\ InUseWhole' /\ Deploy!PreviousBackendKept'
    BY <1>2, <2>1 DEF Deploy!code
  <2> QED BY <2>7, <2>8, <2>9, <2>10, <2>11 DEF DeploySound
<1> QED BY <1>5, <1>6, <1>7, <1>10, <1>11, <1>12, <1>13, <1>14, <1>15

\* The first steps of a runner: its meta, the plan checked again under the lock, or death.
LEMMA StartSound ==
    ASSUME DeployLimits, DeployTyped, OneAlive, LockSays, DeploySound, raced = "no", NEW d \in Deploy!Deploys,
           Deploy!WriteMeta(d) \/ Deploy!Preflight(d) \/ Deploy!Stops(d)
    PROVE  DeploySound'
<1>1. run \in [Deploy!Deploys -> RunnerRow] /\ tip.be \in Int /\ tip.fe \in Int /\ d # 0
  BY DEF DeployTyped, DeployLimits, Deploy!Deploys
<1>2. /\ UNCHANGED <<tip, head, built, running, db, state, release, dist, caller, unlocks, raced>>
      /\ run[d].pc \in Deploy!Alive
  BY DEF Deploy!WriteMeta, Deploy!Preflight, Deploy!Stops, Deploy!code, Deploy!data, Deploy!front, Deploy!bounds, Deploy!Alive
<1>3. Deploy!DeployedIsInDb' /\ InUseWhole' /\ Deploy!PreviousBackendKept' /\ (AsRecorded' <=> AsRecorded) /\ (PlanStands' <=> PlanStands)
  BY <1>2 DEF DeploySound, Deploy!DeployedIsInDb, InUseWhole, Deploy!PreviousBackendKept, AsRecorded, PlanStands
<1>4. CASE run' = Deploy!Goto(d, "dead")
  <2>1. run'[d].pc = "dead" /\ \A e \in Deploy!Deploys : run'[e].be = run[e].be /\ run'[e].fe = run[e].fe
    BY <1>2, <1>4, RunnerMoves, "dead" \in RunnerPcs DEF RunnerPcs
  <2>2. Replannable'
    BY <1>2, <1>3, <2>1 DEF DeploySound, Replannable, Planned
  <2>3. Agreed'
    <3>1. lock' = lock
      <4>1. lock.dir = "yes"
        BY <1>2 DEF LockSays
      <4>2. ~Deploy!WriteMeta(d)
        <5> SUFFICES ASSUME Deploy!WriteMeta(d) PROVE FALSE
          OBVIOUS
        <5>1. run' = [run EXCEPT ![d].pc = "preflight", ![d].prevBe = state.dbe, ![d].prevFe = state.pfe]
          BY <4>1 DEF Deploy!WriteMeta
        <5>2. run'[d].pc = "preflight"
          BY <1>1, <5>1 DEF RunnerRow
        <5> QED BY <2>1, <5>2
      <4> QED BY <4>2 DEF Deploy!Preflight, Deploy!Stops
    <3>2. Untouched' => Untouched
      <4>1. \A e \in Deploy!Deploys : e # d => run'[e] = run[e]
        BY <1>2, <1>4, RunnerMoves, "dead" \in RunnerPcs DEF RunnerPcs
      <4>2. lock.id # 0 => lock.id \in Deploy!Deploys
        BY DEF DeployTyped, Deploy!Deploys, DeployLimits
      <4> QED BY <2>1, <3>1, <4>1, <4>2 DEF Untouched
    <3> QED BY <1>2, <1>3, <3>2 DEF DeploySound, Agreed
  <2> QED BY <1>2, <1>3, <1>4, <2>2, <2>3, EndSound
<1>5. CASE /\ run' = [run EXCEPT ![d].pc = "preflight", ![d].prevBe = state.dbe, ![d].prevFe = state.pfe]
           /\ run[d].pc = "spawned"
  <2>1. /\ run'[d].pc = "preflight" /\ run'[d].prevBe = state.dbe
        /\ \A e \in Deploy!Deploys : e # d => run'[e] = run[e]
        /\ \A e \in Deploy!Deploys : run'[e].be = run[e].be /\ run'[e].fe = run[e].fe
    BY <1>1, <1>5 DEF RunnerRow
  <2>2. release[d] = "none"
    BY <1>5 DEF DeploySound, RunnersKnow, FrontSays
  <2>3. BackendSays(d)' /\ DbSays(d)' /\ FrontSays(d)'
    BY <1>2, <2>1, <2>2 DEF BackendSays, DbSays, FrontSays, Backing, Fronting, Switched, Deploy!Changing
  <2>4. RunnersKnow'
    BY <1>2, <2>1, <2>3, OthersKnow DEF DeploySound
  <2>5. \A e \in Deploy!Deploys : run'[e].pc \in Deploy!Changing => run[e].pc \in Deploy!Changing
    BY <2>1 DEF Deploy!Changing
  <2>6. NewestRuns' /\ Replannable'
    BY <1>2, <1>3, <2>1, <2>5 DEF DeploySound, NewestRuns, Replannable, Planned
  <2>7. lock.id = 0
    BY <1>2, <1>5 DEF LockSays
  <2>8. Agreed'
    BY <1>2, <1>3, <2>7 DEF DeploySound, Agreed, Untouched
  <2> QED BY <1>3, <2>4, <2>6, <2>8 DEF DeploySound
<1>6. CASE /\ run' = [run EXCEPT ![d].pc = "ff", ![d].base = state.dbe] /\ run[d].pc = "preflight"
           /\ Deploy!PlanOk(run[d].be, run[d].fe) /\ lock' = lock
  <2>1. /\ run'[d].pc = "ff" /\ run'[d].base = state.dbe /\ run'[d].prevBe = run[d].prevBe
        /\ \A e \in Deploy!Deploys : e # d => run'[e] = run[e]
        /\ \A e \in Deploy!Deploys : run'[e].be = run[e].be /\ run'[e].fe = run[e].fe
    BY <1>1, <1>6 DEF RunnerRow
  <2>2. /\ run[d].be = tip.be /\ run[d].fe = tip.fe /\ head.be \in {state.dbe, run[d].be}
        /\ head.fe \in {state.pfe, run[d].fe}
    BY <1>6 DEF Deploy!PlanOk, Deploy!HeadOk
  <2>3. state.dbe <= run[d].be /\ state.pfe <= run[d].fe
    BY <2>2 DEF DeploySound, NewestRuns
  <2>4. release[d] = "none" /\ run[d].prevBe = state.dbe
    BY <1>6 DEF DeploySound, RunnersKnow, FrontSays, BackendSays
  <2>5. BackendSays(d)'
    BY <1>2, <2>1, <2>2, <2>3, <2>4 DEF BackendSays, Fronting
  <2>6. DbSays(d)'
    BY <2>1 DEF DbSays
  <2>7. FrontSays(d)'
    BY <1>2, <2>1, <2>2, <2>3, <2>4 DEF FrontSays, Fronting, Switched
  <2>8. RunnersKnow'
    BY <1>2, <2>1, <2>5, <2>6, <2>7, OthersKnow DEF DeploySound
  <2>9. \A e \in Deploy!Deploys : run'[e].pc \in Deploy!Changing => e = d
    BY <1>2, <2>1 DEF OneAlive, Deploy!Alive
  <2>10. \A e \in Deploy!Deploys : run[e].be <= run[d].be /\ run[e].fe <= run[d].fe
    BY <2>2 DEF DeploySound, NewestRuns
  <2>11. NewestRuns'
    BY <1>2, <2>1, <2>9, <2>10 DEF DeploySound, NewestRuns
  <2>12. Replannable'
    BY <1>2, <1>3, <2>1 DEF DeploySound, Replannable, Planned
  <2>13. Agreed'
    BY <1>2, <1>6, <2>1, LockedAway, run[d].pc \in Deploy!Alive \ {"spawned"} DEF Deploy!Alive
  <2> QED BY <1>3, <2>8, <2>11, <2>12, <2>13 DEF DeploySound
<1> QED BY <1>4, <1>5, <1>6 DEF Deploy!WriteMeta, Deploy!Preflight, Deploy!Stops

\* The backend's part of a deploy: code, backup, migrations, seeds, restart, record.
LEMMA BackendSound ==
    ASSUME DeployLimits, DeployTyped, OneAlive, LockSays, DeploySound, DeployTyped', NEW d \in Deploy!Deploys,
           \/ Deploy!FastForwardBe(d) \/ Deploy!Build(d) \/ Deploy!BackupAndGate(d) \/ Deploy!MigrateDeploy(d) \/ Deploy!SeedSystem(d)
           \/ Deploy!RestartBackend(d) \/ Deploy!RecordBackend(d)
    PROVE  DeploySound'
<1>1. /\ run \in [Deploy!Deploys -> RunnerRow] /\ run[d] \in RunnerRow /\ d # 0
      /\ head \in [be : Int, fe : Int] /\ head.be \in Int /\ head.fe \in Int /\ run[d].be \in Int /\ run[d].fe \in Int
      /\ state.dbe \in Int /\ state.pfe \in Int /\ tip.be \in Int /\ tip.fe \in Int /\ run[d].base \in Int
      /\ db \in [migrated : SUBSET Migrating, seeded : SUBSET Seeding, failed : {"no", "yes"}]
      /\ Migrating \in SUBSET Int /\ Seeding \in SUBSET Int
  <2>1. run \in [Deploy!Deploys -> RunnerRow] /\ run[d] \in RunnerRow /\ d # 0
    <3>1. run \in [Deploy!Deploys -> RunnerRow]
      BY DEF DeployTyped
    <3>2. d # 0
      BY DEF Deploy!Deploys
    <3> QED BY <3>1, <3>2
  <2>2. run[d].be \in Int /\ run[d].fe \in Int /\ run[d].base \in Int
    BY <2>1 DEF RunnerRow
  <2>3. /\ head \in [be : Int, fe : Int] /\ head.be \in Int /\ head.fe \in Int
        /\ state.dbe \in Int /\ state.pfe \in Int /\ tip.be \in Int /\ tip.fe \in Int
        /\ db \in [migrated : SUBSET Migrating, seeded : SUBSET Seeding, failed : {"no", "yes"}]
    BY DEF DeployTyped
  <2>4. Migrating \in SUBSET Int /\ Seeding \in SUBSET Int
    BY DEF DeployLimits
  <2> QED BY <2>1, <2>2, <2>3, <2>4
<1>2. BackendSays(d) /\ DbSays(d) /\ FrontSays(d) /\ Deploy!DeployedIsInDb /\ InUseWhole /\ Deploy!PreviousBackendKept
  BY DEF DeploySound, RunnersKnow
<1>3. /\ UNCHANGED <<tip, release, dist, caller, lock, unlocks, raced>>
      /\ run[d].pc \in Backing /\ run[d].pc \in Deploy!Changing /\ run[d].pc \in Deploy!Alive
  BY DEF Deploy!FastForwardBe, Deploy!Build, Deploy!BackupAndGate, Deploy!MigrateDeploy, Deploy!SeedSystem, Deploy!RestartBackend, Deploy!RecordBackend,
         Deploy!code, Deploy!data, Deploy!front, Deploy!bounds, Backing, Deploy!Changing, Deploy!Alive
<1>4. run[d].base = state.dbe /\ run[d].prevBe = state.dbe /\ state.dbe <= run[d].be /\ state.pfe <= run[d].fe
  BY <1>2, <1>3 DEF BackendSays, FrontSays
<1>5. release[d] = "none" /\ head.fe \in {state.pfe, run[d].fe}
  BY <1>2, <1>3 DEF FrontSays
<1>6. ASSUME NEW to \in Deploy!Changing, run' = Deploy!Goto(d, to)
      PROVE  /\ run'[d].pc = to /\ run'[d].be = run[d].be /\ run'[d].fe = run[d].fe /\ run'[d].prevBe = run[d].prevBe
             /\ run'[d].base = run[d].base /\ run'[d].backup = run[d].backup
             /\ \A e \in Deploy!Deploys : e # d => run'[e] = run[e]
  <2>1. to \in RunnerPcs
    BY DEF RunnerPcs, Deploy!Alive
  <2> QED BY <1>3, <1>6, <2>1, RunnerMoves
<1>7. ASSUME UNCHANGED <<head, state>>, run'[d].pc \in Backing, run'[d].fe = run[d].fe PROVE FrontSays(d)'
  BY <1>3, <1>4, <1>5, <1>7 DEF FrontSays, Backing, Fronting, Switched
<1>8. ASSUME UNCHANGED <<db, state>> PROVE Deploy!DeployedIsInDb'
  BY <1>2, <1>8 DEF Deploy!DeployedIsInDb
<1>9. ASSUME UNCHANGED state PROVE Deploy!PreviousBackendKept' /\ InUseWhole'
  BY <1>2, <1>3, <1>9 DEF Deploy!PreviousBackendKept, InUseWhole
<1>10. /\ "build" \in Deploy!Changing /\ "backup" \in Deploy!Changing /\ "migrate" \in Deploy!Changing /\ "seed" \in Deploy!Changing
       /\ "restart" \in Deploy!Changing /\ "health" \in Deploy!Changing /\ "feBuild" \in Deploy!Changing
       /\ "build" \in Backing /\ "backup" \in Backing /\ "migrate" \in Backing /\ "seed" \in Backing
       /\ "restart" \in Backing /\ "health" \in Backing
  BY DEF Deploy!Changing, Backing
<1>11. CASE Deploy!FastForwardBe(d)
  <2>1. UNCHANGED <<db, state, built, running>> /\ head' = Deploy!Merged("be", run[d].be) /\ run' = Deploy!Goto(d, "build") /\ run[d].pc = "ff"
    BY <1>11 DEF Deploy!FastForwardBe, Deploy!data
  <2>2. run'[d].pc = "build" /\ run'[d].be = run[d].be /\ run'[d].fe = run[d].fe /\ run'[d].prevBe = run[d].prevBe
        /\ run'[d].base = run[d].base /\ \A e \in Deploy!Deploys : e # d => run'[e] = run[e]
    BY <1>6, <1>10, <2>1
  <2>3. head.be \in {state.dbe, run[d].be}
    BY <1>2, <2>1 DEF BackendSays
  <2>4. head'.be = run[d].be /\ head'.fe = head.fe
    BY <1>1, <1>4, <2>1, <2>3 DEF Deploy!Merged
  <2>5. BackendSays(d)'
    BY <1>4, <2>1, <2>2, <2>4 DEF BackendSays, Fronting
  <2>6. DbSays(d)'
    BY <2>2 DEF DbSays
  <2>7. FrontSays(d)'
    BY <1>3, <1>4, <1>5, <2>1, <2>2, <2>4 DEF FrontSays, Backing, Fronting, Switched
  <2> QED BY <1>3, <1>8, <1>9, <1>10, <2>1, <2>2, <2>5, <2>6, <2>7, StepSound
<1>12. CASE Deploy!Build(d)
  <2>1. UNCHANGED <<db, state, head, running>> /\ built' = head.be /\ run[d].pc = "build"
    BY <1>12 DEF Deploy!Build, Deploy!data
  <2>2. head.be = run[d].be
    BY <1>2, <1>3, <2>1 DEF BackendSays
  <2>3. PICK to \in {"backup", "restart"} :
           run' = Deploy!Goto(d, to) /\ (to = "restart" => ~Deploy!Needed(run[d].base, run[d].be))
    BY <1>12 DEF Deploy!Build
  <2>4. run'[d].pc = to /\ run'[d].be = run[d].be /\ run'[d].fe = run[d].fe /\ run'[d].prevBe = run[d].prevBe
        /\ run'[d].base = run[d].base /\ \A e \in Deploy!Deploys : e # d => run'[e] = run[e]
    BY <1>6, <1>10, <2>3
  <2>5. BackendSays(d)'
    BY <1>4, <2>1, <2>2, <2>4 DEF BackendSays, Fronting
  <2>6. DbSays(d)'
    <3> SUFFICES ASSUME to = "restart"
                 PROVE  /\ Deploy!Between(0, run[d].be, Migrating) \subseteq db.migrated
                        /\ Deploy!Between(1, run[d].be, Seeding) \subseteq db.seeded
      BY <2>1, <2>4 DEF DbSays
    <3>1. Deploy!Between(state.dbe, run[d].be, Migrating) = {} /\ Deploy!Between(state.dbe, run[d].be, Seeding) = {}
      BY <1>4, <2>3 DEF Deploy!Needed, Deploy!Between
    <3>2. Deploy!Between(0, run[d].be, Migrating) \subseteq Deploy!Between(0, state.dbe, Migrating)
      BY <1>1, <3>1, BetweenNone
    <3>3. Deploy!Between(1, run[d].be, Seeding) \subseteq Deploy!Between(1, state.dbe, Seeding)
      BY <1>1, <3>1, BetweenNone
    <3> QED BY <1>2, <3>2, <3>3 DEF Deploy!DeployedIsInDb
  <2>7. FrontSays(d)'
    BY <1>7, <1>10, <2>1, <2>4
  <2>8. run'[d].pc \in Deploy!Changing
    BY <1>10, <2>4
  <2> QED BY <1>3, <1>8, <1>9, <2>1, <2>4, <2>5, <2>6, <2>7, <2>8, StepSound
<1>13. CASE Deploy!BackupAndGate(d)
  <2>1. /\ UNCHANGED <<db, state, head, running, built>> /\ run[d].pc = "backup"
        /\ run' = [run EXCEPT ![d].pc = "migrate", ![d].backup = "verified"]
    BY <1>13 DEF Deploy!BackupAndGate, Deploy!code, Deploy!data
  <2>2. run'[d].pc = "migrate" /\ run'[d].be = run[d].be /\ run'[d].fe = run[d].fe /\ run'[d].prevBe = run[d].prevBe
        /\ run'[d].base = run[d].base /\ run'[d].backup = "verified" /\ \A e \in Deploy!Deploys : e # d => run'[e] = run[e]
    BY <1>1, <2>1 DEF RunnerRow
  <2>3. head.be = run[d].be /\ built = run[d].be
    BY <1>2, <1>3, <2>1 DEF BackendSays
  <2>4. BackendSays(d)'
    BY <1>4, <2>1, <2>2, <2>3 DEF BackendSays, Fronting
  <2>5. DbSays(d)'
    BY <2>2 DEF DbSays
  <2>6. FrontSays(d)'
    BY <1>7, <1>10, <2>1, <2>2
  <2> QED BY <1>3, <1>8, <1>9, <1>10, <2>1, <2>2, <2>4, <2>5, <2>6, StepSound
<1>14. CASE Deploy!MigrateDeploy(d)
  <2>1. UNCHANGED <<state, head, running, built, tip>> /\ run[d].pc = "migrate"
    BY <1>14 DEF Deploy!MigrateDeploy, Deploy!code
  <2>2. head.be = run[d].be /\ built = run[d].be /\ run[d].backup = "verified"
    BY <1>2, <1>3, <2>1 DEF BackendSays, DbSays
  <2>3. CASE run' = Deploy!Goto(d, "seed") /\ db' = IF Deploy!Between(run[d].base, run[d].be, Migrating) = {} THEN db
                                                   ELSE [db EXCEPT !.migrated = @ \union Deploy!Pending]
    <3>1. run'[d].pc = "seed" /\ run'[d].be = run[d].be /\ run'[d].fe = run[d].fe /\ run'[d].prevBe = run[d].prevBe
          /\ run'[d].base = run[d].base /\ run'[d].backup = "verified" /\ \A e \in Deploy!Deploys : e # d => run'[e] = run[e]
      BY <1>6, <1>10, <2>2, <2>3
    <3>2. /\ db.migrated \subseteq db'.migrated /\ db'.seeded = db.seeded
          /\ Deploy!Between(state.dbe, run[d].be, Migrating) = {} \/ db'.migrated = db.migrated \union Deploy!Pending
      BY <1>1, <1>4, <2>3
    <3>3. Deploy!Between(0, run[d].be, Migrating) \subseteq db'.migrated
      <4>1. CASE Deploy!Between(state.dbe, run[d].be, Migrating) = {}
        <5>1. Deploy!Between(0, run[d].be, Migrating) \subseteq Deploy!Between(0, state.dbe, Migrating)
          BY <1>1, <4>1, BetweenNone
        <5> QED BY <1>2, <3>2, <5>1 DEF Deploy!DeployedIsInDb
      <4>2. CASE db'.migrated = db.migrated \union Deploy!Pending
        BY <2>2, <4>2 DEF Deploy!Pending
      <4> QED BY <3>2, <4>1, <4>2
    <3>4. Deploy!DeployedIsInDb'
      BY <1>2, <2>1, <3>2 DEF Deploy!DeployedIsInDb
    <3>5. BackendSays(d)'
      BY <1>4, <2>1, <2>2, <3>1 DEF BackendSays, Fronting
    <3>6. DbSays(d)'
      BY <3>1, <3>3 DEF DbSays
    <3>7. FrontSays(d)'
      BY <1>7, <1>10, <2>1, <3>1
    <3> QED BY <1>3, <1>9, <1>10, <2>1, <3>1, <3>4, <3>5, <3>6, <3>7, StepSound
  <2>4. CASE run' = Deploy!Goto(d, "dead") /\ db' = [db EXCEPT !.failed = "yes"]
    <3>1. db'.migrated = db.migrated /\ db'.seeded = db.seeded /\ db'.failed = "yes"
      BY <1>1, <2>4
    <3>2. Deploy!DeployedIsInDb'
      BY <1>2, <2>1, <3>1 DEF Deploy!DeployedIsInDb
    <3>3. /\ run'[d].pc = "dead" /\ \A e \in Deploy!Deploys : run'[e].be = run[e].be /\ run'[e].fe = run[e].fe
      BY <1>3, <2>4, RunnerMoves, "dead" \in RunnerPcs DEF RunnerPcs
    <3>4. Replannable'
      BY <1>3, <2>1, <3>1, <3>3 DEF DeploySound, Replannable, PlanStands, Planned
    <3>5. Agreed'
      BY <1>3, <2>1, <3>3, LockedAway, run[d].pc \in Deploy!Alive \ {"spawned"} DEF Deploy!Changing
    <3> QED BY <1>3, <1>9, <2>1, <2>4, <3>2, <3>4, <3>5, EndSound
  <2> QED BY <1>14, <2>3, <2>4 DEF Deploy!MigrateDeploy
<1>15. CASE Deploy!SeedSystem(d)
  <2>1. /\ UNCHANGED <<state, head, running, built, tip>> /\ run[d].pc = "seed" /\ run' = Deploy!Goto(d, "restart")
        /\ db' = [db EXCEPT !.seeded = @ \union Deploy!SeedDelta(d)]
    BY <1>15 DEF Deploy!SeedSystem, Deploy!code
  <2>2. run'[d].pc = "restart" /\ run'[d].be = run[d].be /\ run'[d].fe = run[d].fe /\ run'[d].prevBe = run[d].prevBe
        /\ run'[d].base = run[d].base /\ \A e \in Deploy!Deploys : e # d => run'[e] = run[e]
    BY <1>6, <1>10, <2>1
  <2>3. head.be = run[d].be /\ built = run[d].be /\ Deploy!Between(0, run[d].be, Migrating) \subseteq db.migrated
    BY <1>2, <1>3, <2>1 DEF BackendSays, DbSays
  <2>4. db'.migrated = db.migrated /\ db'.seeded = db.seeded \union Deploy!Between(state.dbe, run[d].be, Seeding)
    BY <1>1, <1>4, <2>1 DEF Deploy!SeedDelta
  <2>5. Deploy!Between(1, run[d].be, Seeding) \subseteq db'.seeded
    <3>1. Deploy!Between(1, run[d].be, Seeding) \subseteq Deploy!Between(1, state.dbe, Seeding) \union Deploy!Between(state.dbe, run[d].be, Seeding)
      BY <1>1, BetweenSplit
    <3> QED BY <1>2, <2>4, <3>1 DEF Deploy!DeployedIsInDb
  <2>6. Deploy!DeployedIsInDb'
    BY <1>2, <2>1, <2>4 DEF Deploy!DeployedIsInDb
  <2>7. BackendSays(d)'
    BY <1>4, <2>1, <2>2, <2>3 DEF BackendSays, Fronting
  <2>8. DbSays(d)'
    BY <2>2, <2>3, <2>4, <2>5 DEF DbSays
  <2>9. FrontSays(d)'
    BY <1>7, <1>10, <2>1, <2>2
  <2> QED BY <1>3, <1>9, <1>10, <2>1, <2>2, <2>6, <2>7, <2>8, <2>9, StepSound
<1>16. CASE Deploy!RestartBackend(d)
  <2>1. /\ UNCHANGED <<state, head, db, built, tip>> /\ run[d].pc = "restart" /\ run' = Deploy!Goto(d, "health")
        /\ running' = built
    BY <1>16 DEF Deploy!RestartBackend, Deploy!data
  <2>2. run'[d].pc = "health" /\ run'[d].be = run[d].be /\ run'[d].fe = run[d].fe /\ run'[d].prevBe = run[d].prevBe
        /\ run'[d].base = run[d].base /\ \A e \in Deploy!Deploys : e # d => run'[e] = run[e]
    BY <1>6, <1>10, <2>1
  <2>3. /\ head.be = run[d].be /\ built = run[d].be /\ Deploy!Between(0, run[d].be, Migrating) \subseteq db.migrated
        /\ Deploy!Between(1, run[d].be, Seeding) \subseteq db.seeded
    BY <1>2, <1>3, <2>1 DEF BackendSays, DbSays
  <2>4. BackendSays(d)'
    BY <1>4, <2>1, <2>2, <2>3 DEF BackendSays, Fronting
  <2>5. DbSays(d)'
    BY <2>1, <2>2, <2>3 DEF DbSays
  <2>6. FrontSays(d)'
    BY <1>7, <1>10, <2>1, <2>2
  <2> QED BY <1>3, <1>8, <1>9, <1>10, <2>1, <2>2, <2>4, <2>5, <2>6, StepSound
<1>17. CASE Deploy!RecordBackend(d)
  <2>1. /\ UNCHANGED <<running, head, db, built, tip>> /\ run[d].pc = "health" /\ run' = Deploy!Goto(d, "feBuild")
        /\ state' = [state EXCEPT !.dbe = run[d].be, !.pbe = Deploy!KeptPrevious(d)]
    BY <1>17 DEF Deploy!RecordBackend, Deploy!code
  <2>2. run'[d].pc = "feBuild" /\ run'[d].be = run[d].be /\ run'[d].fe = run[d].fe
        /\ \A e \in Deploy!Deploys : e # d => run'[e] = run[e]
    BY <1>6, <1>10, <2>1
  <2>3. /\ head.be = run[d].be /\ built = run[d].be /\ Deploy!Between(0, run[d].be, Migrating) \subseteq db.migrated
        /\ Deploy!Between(1, run[d].be, Seeding) \subseteq db.seeded /\ running = run[d].be
    BY <1>2, <1>3, <2>1 DEF BackendSays, DbSays
  <2>4. /\ state'.dbe = run[d].be /\ state'.pbe = Deploy!KeptPrevious(d) /\ state'.pfe = state.pfe
        /\ state'.rel = state.rel /\ state'.prel = state.prel
    BY <2>1 DEF DeployTyped
  <2>5. Deploy!DeployedIsInDb'
    BY <2>1, <2>3, <2>4 DEF Deploy!DeployedIsInDb
  <2>6. Deploy!PreviousBackendKept'
    BY <1>2, <1>4, <2>4 DEF Deploy!PreviousBackendKept, Deploy!KeptPrevious
  <2>7. InUseWhole'
    BY <1>2, <1>3, <2>4 DEF InUseWhole
  <2>8. BackendSays(d)'
    <3>1. state'.dbe <= run[d].be
      BY <1>1, <2>4
    <3> QED BY <2>1, <2>2, <2>3, <2>4, <3>1 DEF BackendSays, Backing
  <2>9. DbSays(d)'
    BY <2>2 DEF DbSays
  <2>10. FrontSays(d)'
    BY <1>3, <1>4, <1>5, <2>1, <2>2, <2>4 DEF FrontSays, Backing, Fronting, Switched
  <2> QED BY <1>3, <1>10, <2>1, <2>2, <2>5, <2>6, <2>7, <2>8, <2>9, <2>10, StepSound
<1> QED BY <1>11, <1>12, <1>13, <1>14, <1>15, <1>16, <1>17

\* The frontend's part: a release of its own, the swap of the symlink, its probe, the
\* record, the pruning and the end.
LEMMA FrontendSound ==
    ASSUME DeployLimits, DeployTyped, OneAlive, LockSays, DeploySound, DeployTyped', NEW d \in Deploy!Deploys,
           \/ Deploy!BuildFrontend(d) \/ Deploy!SwapDist(d) \/ Deploy!ProbeFails(d) \/ Deploy!RollBack(d) \/ Deploy!RecordFrontend(d)
           \/ Deploy!Prune(d) \/ Deploy!ReleaseLock(d)
    PROVE  DeploySound'
<1>1. /\ run \in [Deploy!Deploys -> RunnerRow] /\ run[d] \in RunnerRow /\ d # 0 /\ d \in Deploy!Releases
      /\ run[d].old \in Deploy!Releases /\ run[d].fe \in Int
  <2>1. run \in [Deploy!Deploys -> RunnerRow] /\ run[d] \in RunnerRow /\ d # 0 /\ d \in Deploy!Releases
    <3>1. run \in [Deploy!Deploys -> RunnerRow]
      BY DEF DeployTyped
    <3>2. d # 0 /\ d \in Deploy!Releases
      BY DEF Deploy!Deploys, Deploy!Releases, DeployLimits
    <3> QED BY <3>1, <3>2
  <2> QED BY <2>1 DEF RunnerRow
<1>2. /\ head \in [be : Int, fe : Int] /\ head.be \in Int /\ head.fe \in Int
      /\ state.dbe \in Int /\ state.pfe \in Int /\ tip.be \in Int /\ tip.fe \in Int
      /\ state \in [dbe : 1..BeTip, pbe : 0..BeTip, pfe : 1..FeTip, prfe : 0..FeTip, rel : Deploy!Releases, prel : Deploy!Releases]
      /\ release \in [Deploy!Releases -> {"none", "part", "whole"}] /\ dist \in Deploy!Releases
      /\ state.rel \in Deploy!Releases /\ state.prel \in Deploy!Releases
  BY DEF DeployTyped
<1>3. BackendSays(d) /\ DbSays(d) /\ FrontSays(d) /\ Deploy!DeployedIsInDb /\ InUseWhole /\ Deploy!PreviousBackendKept
  BY DEF DeploySound, RunnersKnow
<1>4. /\ UNCHANGED <<tip, db, built, running, caller, unlocks, raced>>
      /\ run[d].pc \in Fronting /\ run[d].pc \in Deploy!Changing /\ run[d].pc \in Deploy!Alive
  BY DEF Deploy!BuildFrontend, Deploy!SwapDist, Deploy!ProbeFails, Deploy!RollBack, Deploy!RecordFrontend, Deploy!Prune, Deploy!ReleaseLock,
         Deploy!code, Deploy!data, Deploy!front, Deploy!bounds, Fronting, Deploy!Changing, Deploy!Alive
<1>5. head.be = run[d].be /\ built = run[d].be /\ running = run[d].be /\ state.dbe = run[d].be /\ state.pfe <= run[d].fe
  BY <1>3, <1>4 DEF BackendSays, FrontSays, Fronting, Deploy!Changing
<1>6. ASSUME NEW to \in Deploy!Changing, run' = Deploy!Goto(d, to)
      PROVE  /\ run'[d].pc = to /\ run'[d].be = run[d].be /\ run'[d].fe = run[d].fe /\ run'[d].old = run[d].old
             /\ \A e \in Deploy!Deploys : e # d => run'[e] = run[e]
  <2>1. to \in RunnerPcs
    BY DEF RunnerPcs, Deploy!Alive
  <2> QED BY <1>4, <1>6, <2>1, RunnerMoves
<1>7. ASSUME head'.be = head.be, state'.dbe = state.dbe, run'[d].pc \in Fronting, run'[d].be = run[d].be
      PROVE  BackendSays(d)' /\ DbSays(d)'
  <2>1. /\ run'[d].pc \notin Backing /\ run'[d].pc \notin {"preflight", "migrate", "seed", "restart", "health", "ff"}
    BY <1>7 DEF Backing, Fronting
  <2>2. BackendSays(d)'
    BY <1>2, <1>4, <1>5, <1>7, <2>1 DEF BackendSays
  <2>3. DbSays(d)'
    BY <2>1 DEF DbSays
  <2> QED BY <2>2, <2>3
<1>8. ASSUME state'.dbe = state.dbe PROVE Deploy!DeployedIsInDb'
  BY <1>3, <1>4, <1>8 DEF Deploy!DeployedIsInDb
<1>9. ASSUME state'.dbe = state.dbe, state'.pbe = state.pbe PROVE Deploy!PreviousBackendKept'
  BY <1>3, <1>9 DEF Deploy!PreviousBackendKept
<1>10. /\ "swap" \in Deploy!Changing /\ "probe" \in Deploy!Changing /\ "rollback" \in Deploy!Changing /\ "prune" \in Deploy!Changing
       /\ "release" \in Deploy!Changing /\ "swap" \in Fronting /\ "probe" \in Fronting /\ "rollback" \in Fronting
       /\ "prune" \in Fronting /\ "release" \in Fronting
  BY DEF Deploy!Changing, Fronting
<1>11. ASSUME run[d].pc \in Switched
       PROVE  head.fe = run[d].fe /\ release[d] = "whole" /\ release[run[d].old] = "whole" /\ dist = d
  BY <1>3, <1>11 DEF FrontSays, Switched, Fronting
<1>12. CASE Deploy!BuildFrontend(d)
  <2>1. /\ UNCHANGED <<state, dist, lock>> /\ head' = Deploy!Merged("fe", run[d].fe) /\ run[d].pc = "feBuild"
    BY <1>12 DEF Deploy!BuildFrontend, Deploy!data
  <2>2. release[d] = "none" /\ head.fe \in {state.pfe, run[d].fe}
    BY <1>3, <2>1 DEF FrontSays
  <2>3. head'.fe = run[d].fe /\ head'.be = head.be
    BY <1>1, <1>2, <1>5, <2>1, <2>2 DEF Deploy!Merged
  <2>4. d \notin {dist, state.rel, state.prel}
    BY <1>3, <2>2 DEF InUseWhole
  <2>5. \A r \in Deploy!Releases : r # d => release'[r] = release[r]
    BY <1>2, <1>12 DEF Deploy!BuildFrontend
  <2>6. InUseWhole'
    BY <1>2, <1>3, <2>1, <2>4, <2>5 DEF InUseWhole
  <2>7. \A e \in Deploy!Deploys : e # d => (release[e] = "none" => release'[e] = "none")
    BY <2>5 DEF Deploy!Deploys, Deploy!Releases
  <2>8. CASE run' = Deploy!Goto(d, "swap") /\ release' = [release EXCEPT ![d] = "whole"]
    <3>1. run'[d].pc = "swap" /\ run'[d].be = run[d].be /\ run'[d].fe = run[d].fe /\ \A e \in Deploy!Deploys : e # d => run'[e] = run[e]
      BY <1>6, <1>10, <2>8
    <3>2. release'[d] = "whole"
      BY <1>1, <1>2, <2>8
    <3>3. FrontSays(d)'
      BY <1>5, <2>1, <2>3, <3>1, <3>2 DEF FrontSays, Backing, Switched
    <3> QED BY <1>4, <1>7, <1>8, <1>9, <1>10, <2>1, <2>3, <2>6, <2>7, <3>1, <3>3, StepSound
  <2>9. CASE run' = Deploy!Goto(d, "dead")
    <3>1. /\ run'[d].pc = "dead" /\ \A e \in Deploy!Deploys : run'[e].be = run[e].be /\ run'[e].fe = run[e].fe
      BY <1>4, <2>9, RunnerMoves, "dead" \in RunnerPcs DEF RunnerPcs
    <3>2. Replannable'
      <4> SUFFICES ASSUME NEW e \in Deploy!Deploys, Planned(e), run[e].be = tip.be, run[e].fe = tip.fe PROVE PlanStands'
        BY <1>4, <3>1 DEF Replannable, Planned
      <4>1. tip.fe <= run[d].fe /\ run[d].fe <= tip.fe
        BY <1>4 DEF DeploySound, NewestRuns
      <4>2. head'.fe = tip'.fe
        BY <1>1, <1>2, <1>4, <2>3, <4>1
      <4>3. PlanStands
        BY DEF DeploySound, Replannable
      <4> QED BY <1>4, <2>1, <2>3, <4>2, <4>3 DEF PlanStands
    <3>3. Agreed'
      BY <1>4, <2>1, <3>1, LockedAway, run[d].pc \in Deploy!Alive \ {"spawned"} DEF Deploy!Changing
    <3> QED BY <1>4, <1>8, <2>1, <2>6, <2>7, <2>9, <3>2, <3>3, EndSound
  <2> QED BY <1>12, <2>8, <2>9 DEF Deploy!BuildFrontend
<1>13. CASE Deploy!SwapDist(d)
  <2>1. /\ UNCHANGED <<head, state, release, lock>> /\ run[d].pc = "swap" /\ dist' = d
        /\ run' = [run EXCEPT ![d].pc = "probe", ![d].old = dist]
    BY <1>13 DEF Deploy!SwapDist, Deploy!code, Deploy!data
  <2>2. run'[d].pc = "probe" /\ run'[d].be = run[d].be /\ run'[d].fe = run[d].fe /\ run'[d].old = dist
        /\ \A e \in Deploy!Deploys : e # d => run'[e] = run[e]
    BY <1>1, <2>1 DEF RunnerRow
  <2>3. release[d] = "whole" /\ head.fe = run[d].fe /\ release[dist] = "whole"
    BY <1>3, <2>1 DEF FrontSays, Fronting, InUseWhole
  <2>4. InUseWhole'
    BY <1>3, <2>1, <2>3 DEF InUseWhole
  <2>5. FrontSays(d)'
    BY <1>5, <2>1, <2>2, <2>3 DEF FrontSays, Backing
  <2> QED BY <1>4, <1>7, <1>8, <1>9, <1>10, <2>1, <2>2, <2>4, <2>5, StepSound
<1>14. CASE Deploy!ProbeFails(d)
  <2>1. /\ UNCHANGED <<head, state, release, lock, dist>> /\ run[d].pc = "probe" /\ run' = Deploy!Goto(d, "rollback")
    BY <1>14 DEF Deploy!ProbeFails, Deploy!code, Deploy!data, Deploy!front
  <2>2. run'[d].pc = "rollback" /\ run'[d].be = run[d].be /\ run'[d].fe = run[d].fe /\ run'[d].old = run[d].old
        /\ \A e \in Deploy!Deploys : e # d => run'[e] = run[e]
    BY <1>6, <1>10, <2>1
  <2>3. head.fe = run[d].fe /\ release[d] = "whole" /\ release[run[d].old] = "whole" /\ dist = d
    BY <1>11, <2>1 DEF Switched
  <2>4. InUseWhole'
    BY <1>3, <2>1 DEF InUseWhole
  <2>5. FrontSays(d)'
    BY <1>5, <2>1, <2>2, <2>3 DEF FrontSays, Backing
  <2> QED BY <1>4, <1>7, <1>8, <1>9, <1>10, <2>1, <2>2, <2>4, <2>5, StepSound
<1>15. CASE Deploy!RollBack(d)
  <2>1. /\ UNCHANGED <<head, state, release, lock>> /\ run[d].pc = "rollback" /\ run' = Deploy!Goto(d, "dead")
        /\ dist' \in {dist, run[d].old}
    BY <1>15 DEF Deploy!RollBack, Deploy!code, Deploy!data
  <2>2. release[run[d].old] = "whole"
    BY <1>11, <2>1 DEF Switched
  <2>3. InUseWhole'
    BY <1>3, <2>1, <2>2 DEF InUseWhole
  <2>4. /\ run'[d].pc = "dead" /\ \A e \in Deploy!Deploys : run'[e].be = run[e].be /\ run'[e].fe = run[e].fe
    BY <1>4, <2>1, RunnerMoves, "dead" \in RunnerPcs DEF RunnerPcs
  <2>5. Replannable'
    BY <1>4, <2>1, <2>4 DEF DeploySound, Replannable, PlanStands, Planned
  <2>6. Agreed'
    BY <1>4, <2>1, <2>4, LockedAway, run[d].pc \in Deploy!Alive \ {"spawned"} DEF Deploy!Changing
  <2> QED BY <1>4, <1>8, <2>1, <2>3, <2>5, <2>6, EndSound
<1>16. CASE Deploy!RecordFrontend(d)
  <2>1. /\ UNCHANGED <<head, release, dist, lock>> /\ run[d].pc = "probe" /\ run' = Deploy!Goto(d, "prune")
        /\ state' = [state EXCEPT !.pfe = run[d].fe, !.prfe = run[d].prevFe, !.rel = d, !.prel = run[d].old]
    BY <1>16 DEF Deploy!RecordFrontend, Deploy!code, Deploy!front
  <2>2. run'[d].pc = "prune" /\ run'[d].be = run[d].be /\ run'[d].fe = run[d].fe /\ run'[d].old = run[d].old
        /\ \A e \in Deploy!Deploys : e # d => run'[e] = run[e]
    BY <1>6, <1>10, <2>1
  <2>3. head.fe = run[d].fe /\ release[d] = "whole" /\ release[run[d].old] = "whole" /\ dist = d
    BY <1>11, <2>1 DEF Switched
  <2>4. /\ state'.dbe = state.dbe /\ state'.pbe = state.pbe /\ state'.pfe = run[d].fe
        /\ state'.rel = d /\ state'.prel = run[d].old
    BY <1>2, <2>1
  <2>5. InUseWhole'
    BY <2>1, <2>3, <2>4 DEF InUseWhole
  <2>6. FrontSays(d)'
    <3>1. state'.pfe <= run[d].fe
      BY <1>1, <2>4
    <3> QED BY <2>1, <2>2, <2>3, <2>4, <3>1 DEF FrontSays, Backing
  <2> QED BY <1>4, <1>7, <1>8, <1>9, <1>10, <2>1, <2>2, <2>4, <2>5, <2>6, StepSound
<1>17. CASE Deploy!Prune(d)
  <2>1. /\ UNCHANGED <<head, state, dist, lock>> /\ run[d].pc = "prune" /\ run' = Deploy!Goto(d, "release")
        /\ release' = [r \in Deploy!Releases |-> IF r \in Deploy!Pruned(d) THEN "none" ELSE release[r]]
    BY <1>17 DEF Deploy!Prune, Deploy!code, Deploy!data
  <2>2. run'[d].pc = "release" /\ run'[d].be = run[d].be /\ run'[d].fe = run[d].fe /\ run'[d].old = run[d].old
        /\ \A e \in Deploy!Deploys : e # d => run'[e] = run[e]
    BY <1>6, <1>10, <2>1
  <2>3. head.fe = run[d].fe /\ release[d] = "whole" /\ release[run[d].old] = "whole" /\ dist = d
    BY <1>11, <2>1 DEF Switched
  <2>4. state.pfe = run[d].fe /\ state.rel = d /\ state.prel = run[d].old
    BY <1>3, <2>1 DEF FrontSays
  <2>5. d \notin Deploy!Pruned(d) /\ run[d].old \notin Deploy!Pruned(d)
    BY DEF Deploy!Pruned, Deploy!KeptReleases
  <2>6. release'[d] = "whole" /\ release'[run[d].old] = "whole"
    BY <1>1, <2>1, <2>3, <2>5
  <2>7. InUseWhole'
    BY <2>1, <2>3, <2>4, <2>6 DEF InUseWhole
  <2>8. FrontSays(d)'
    BY <1>5, <2>1, <2>2, <2>3, <2>4, <2>6 DEF FrontSays, Backing
  <2>9. \A e \in Deploy!Deploys : e # d => (release[e] = "none" => release'[e] = "none")
    BY <2>1 DEF Deploy!Deploys, Deploy!Releases
  <2> QED BY <1>4, <1>7, <1>8, <1>9, <1>10, <2>1, <2>2, <2>7, <2>8, <2>9, StepSound
<1>18. CASE Deploy!ReleaseLock(d)
  <2>1. /\ UNCHANGED <<head, state, dist, release>> /\ run[d].pc = "release" /\ run' = Deploy!Goto(d, "deployed")
    BY <1>18 DEF Deploy!ReleaseLock, Deploy!code, Deploy!data, Deploy!front
  <2>2. /\ run'[d].pc = "deployed" /\ run'[d].be = run[d].be /\ run'[d].fe = run[d].fe
        /\ \A e \in Deploy!Deploys : e # d => run'[e] = run[e] /\ run[e].pc \notin Deploy!Alive
    BY <1>4, <2>1, RunnerMoves, "deployed" \in RunnerPcs DEF RunnerPcs
  <2>3. head.fe = run[d].fe /\ dist = d /\ state.pfe = run[d].fe /\ state.rel = d
    BY <1>3, <1>11, <2>1 DEF Switched, FrontSays
  <2>4. Agreed'
    <3>1. AsRecorded'
      BY <1>4, <1>5, <2>1, <2>3 DEF AsRecorded
    <3> QED BY <3>1 DEF Agreed
  <2>5. BackendSays(d)' /\ DbSays(d)' /\ FrontSays(d)'
    BY <2>2 DEF BackendSays, DbSays, FrontSays, Backing, Fronting, Switched, Deploy!Changing
  <2>6. RunnersKnow'
    BY <1>4, <2>1, <2>2, <2>5, OthersKnow DEF DeploySound
  <2>7. \A e \in Deploy!Deploys : run'[e].pc \notin Deploy!Changing
    BY <2>2 DEF Deploy!Changing, Deploy!Alive
  <2>8. NewestRuns' /\ Replannable'
    BY <1>4, <2>1, <2>2, <2>7 DEF DeploySound, NewestRuns, Replannable, PlanStands, Planned
  <2>9. InUseWhole' /\ Deploy!DeployedIsInDb' /\ Deploy!PreviousBackendKept'
    BY <1>3, <1>8, <1>9, <2>1 DEF InUseWhole
  <2> QED BY <2>4, <2>6, <2>8, <2>9 DEF DeploySound
<1> QED BY <1>12, <1>13, <1>14, <1>15, <1>16, <1>17, <1>18

\* The invariant is inductive.
LEMMA DeployStep == ASSUME DeployLimits, DeployInv, [Deploy!Next]_(Deploy!vars) PROVE DeployInv'
<1> USE DEF DeployInv
<1>1. DeployTyped' /\ OneAlive' /\ LockSays'
  BY DeployTypes, OneHolds DEF DeploySound
<1>2. CASE UNCHANGED Deploy!vars
  BY <1>1, <1>2 DEF Deploy!vars, DeploySound, RunnersKnow, BackendSays, DbSays, FrontSays, NewestRuns, Planned, Deploy!DeployedIsInDb,
     InUseWhole, Replannable, PlanStands, Agreed, AsRecorded, Untouched, Deploy!PreviousBackendKept
<1>3. CASE Deploy!Next
  <2>1. CASE \/ Deploy!Push("be", BeTip) \/ Deploy!Push("fe", FeTip) \/ Deploy!Pm2Restart \/ Deploy!UnlockRemove
             \/ \E d \in Deploy!Deploys : Deploy!Plan(d) \/ Deploy!LockDir(d) \/ Deploy!CallerSees(d) \/ Deploy!CallerTimesOut(d)
                                   \/ Deploy!CallerRemovesLock(d) \/ Deploy!UnlockCheck(d)
    BY <1>1, <1>3, <2>1, WorldSound DEF Deploy!Next
  <2>2. CASE \E d \in Deploy!Deploys : Deploy!RunnerStep(d)
    <3> PICK d \in Deploy!Deploys : Deploy!RunnerStep(d)
      BY <2>2
    <3>1. raced = "no"
      BY <1>3 DEF Deploy!Next
    <3>2. CASE Deploy!WriteMeta(d) \/ Deploy!Preflight(d) \/ Deploy!Stops(d)
      BY <1>1, <3>1, <3>2, StartSound
    <3>3. CASE \/ Deploy!FastForwardBe(d) \/ Deploy!Build(d) \/ Deploy!BackupAndGate(d) \/ Deploy!MigrateDeploy(d) \/ Deploy!SeedSystem(d)
               \/ Deploy!RestartBackend(d) \/ Deploy!RecordBackend(d)
      BY <1>1, <3>3, BackendSound
    <3>4. CASE \/ Deploy!BuildFrontend(d) \/ Deploy!SwapDist(d) \/ Deploy!ProbeFails(d) \/ Deploy!RollBack(d) \/ Deploy!RecordFrontend(d)
               \/ Deploy!Prune(d) \/ Deploy!ReleaseLock(d)
      BY <1>1, <3>4, FrontendSound
    <3> QED BY <3>2, <3>3, <3>4 DEF Deploy!RunnerStep
  <2> QED BY <1>3, <2>1, <2>2 DEF Deploy!Next
<1> QED BY <1>2, <1>3

\* What the invariant says of a deploy.
LEMMA DeploySafety == ASSUME DeployLimits, DeployInv PROVE Deploy!DeploySafe
<1> USE DEF DeployInv
<1>1. Deploy!OneRunner
  BY DEF OneAlive, Deploy!OneRunner, Deploy!Alive
<1>2. Deploy!ServedReleasesExist
  BY DEF DeploySound, InUseWhole, Deploy!ServedReleasesExist
<1>3. Deploy!FreeMeansAgreed
  <2> SUFFICES ASSUME lock.dir = "no", unlocks = 0, raced = "no"
               PROVE  /\ head = [be |-> state.dbe, fe |-> state.pfe] /\ running = state.dbe /\ dist = state.rel
    BY DEF Deploy!FreeMeansAgreed
  <2>1. AsRecorded
    BY DEF LockSays, DeploySound, Agreed, Untouched
  <2> QED BY <2>1 DEF AsRecorded, DeployTyped
<1>4. Deploy!RetryAllowed
  <2> SUFFICES ASSUME NEW d \in Deploy!Deploys, run[d].pc = "dead", db.failed = "no", [be |-> run[d].be, fe |-> run[d].fe] = tip
               PROVE  Deploy!PlanOk(tip.be, tip.fe)
    BY DEF Deploy!RetryAllowed
  <2>1. Planned(d) /\ run[d].be = tip.be /\ run[d].fe = tip.fe
    BY DEF OneAlive, Planned
  <2>2. PlanStands
    BY <2>1 DEF DeploySound, Replannable
  <2> QED BY <2>2 DEF PlanStands, Deploy!PlanOk, Deploy!HeadOk, Deploy!DbOk
<1>5. Deploy!DeployedIsInDb /\ Deploy!PreviousBackendKept
  BY DEF DeploySound
<1> QED BY <1>1, <1>2, <1>3, <1>4, <1>5 DEF Deploy!DeploySafe

\* The database is written under a verified backup, and the backend is restarted only on
\* code whose migrations are in.
LEMMA DeployGuarded == ASSUME DeployLimits, DeployInv, [Deploy!Next]_(Deploy!vars) PROVE [Deploy!GuardedStep]_(Deploy!vars)
<1> USE DEF DeployInv
<1> SUFFICES ASSUME Deploy!Next PROVE Deploy!GuardedStep
  OBVIOUS
<1>1. run \in [Deploy!Deploys -> RunnerRow]
  BY DEF DeployTyped
<1>2. ASSUME db # db' PROVE \E d \in Deploy!Deploys : run[d] # run'[d] /\ run[d].backup = "verified"
  <2>1. PICK d \in Deploy!Deploys : Deploy!MigrateDeploy(d) \/ Deploy!SeedSystem(d)
    BY <1>2 DEF Deploy!Next, Deploy!RunnerStep, Deploy!Push, Deploy!Pm2Restart, Deploy!UnlockRemove, Deploy!Plan, Deploy!LockDir, Deploy!CallerSees, Deploy!CallerTimesOut,
       Deploy!CallerRemovesLock, Deploy!UnlockCheck, Deploy!WriteMeta, Deploy!Preflight, Deploy!Stops, Deploy!FastForwardBe, Deploy!Build, Deploy!BackupAndGate,
       Deploy!RestartBackend, Deploy!RecordBackend, Deploy!BuildFrontend, Deploy!SwapDist, Deploy!ProbeFails, Deploy!RollBack, Deploy!RecordFrontend, Deploy!Prune,
       Deploy!ReleaseLock, Deploy!data
  <2>2. run[d].pc \in {"migrate", "seed"} /\ run[d].pc \in Deploy!Alive
    BY <2>1 DEF Deploy!MigrateDeploy, Deploy!SeedSystem, Deploy!Alive, Deploy!Changing
  <2>3. PICK to \in {"seed", "dead", "restart"} : run' = Deploy!Goto(d, to) /\ to # run[d].pc
    BY <2>1 DEF Deploy!MigrateDeploy, Deploy!SeedSystem
  <2>4. run'[d].pc = to
    BY <2>2, <2>3, RunnerMoves, to \in RunnerPcs DEF RunnerPcs, Deploy!Alive, Deploy!Changing
  <2>5. run[d].backup = "verified"
    BY <2>2 DEF DeploySound, RunnersKnow, DbSays
  <2> QED BY <2>3, <2>4, <2>5
<1>3. ASSUME NEW d \in Deploy!Deploys, run[d].pc = "restart", run'[d].pc = "health"
      PROVE  Deploy!Between(0, running', Migrating) \subseteq db.migrated
  <2>1. running' = built
    <3>1. \A e \in Deploy!Deploys : run[e].pc \in Deploy!Alive => e = d
      BY <1>3 DEF OneAlive, Deploy!Alive, Deploy!Changing
    <3>2. ASSUME NEW e \in Deploy!Deploys, NEW to \in RunnerPcs \ {"health"}, run' = Deploy!Goto(e, to) PROVE FALSE
      BY <1>1, <1>3, <3>2 DEF Deploy!Goto, RunnerRow
    <3>3. ASSUME NEW e \in Deploy!Deploys, Deploy!RunnerStep(e), ~Deploy!RestartBackend(e) PROVE FALSE
      <4>1. e = d
        BY <3>1, <3>3 DEF Deploy!RunnerStep, Deploy!Alive, Deploy!Changing, Deploy!WriteMeta, Deploy!Preflight, Deploy!Stops, Deploy!FastForwardBe, Deploy!Build, Deploy!BackupAndGate,
           Deploy!MigrateDeploy, Deploy!SeedSystem, Deploy!RecordBackend, Deploy!BuildFrontend, Deploy!SwapDist, Deploy!ProbeFails, Deploy!RollBack, Deploy!RecordFrontend,
           Deploy!Prune, Deploy!ReleaseLock
      <4>2. Deploy!Stops(d)
        BY <1>3, <3>3, <4>1 DEF Deploy!RunnerStep, Deploy!WriteMeta, Deploy!Preflight, Deploy!FastForwardBe, Deploy!Build, Deploy!BackupAndGate,
           Deploy!MigrateDeploy, Deploy!SeedSystem, Deploy!RecordBackend, Deploy!BuildFrontend, Deploy!SwapDist, Deploy!ProbeFails, Deploy!RollBack, Deploy!RecordFrontend,
           Deploy!Prune, Deploy!ReleaseLock
      <4> QED BY <3>2, <4>2, "dead" \in RunnerPcs \ {"health"} DEF Deploy!Stops, RunnerPcs
    <3>4. ASSUME run' = run PROVE FALSE
      BY <1>3, <3>4
    <3>5. ASSUME NEW e \in Deploy!Deploys, Deploy!Plan(e) PROVE FALSE
      <4>1. run'[d].pc = run[d].pc
        BY <1>1, <3>5 DEF Deploy!Plan, RunnerRow
      <4> QED BY <1>3, <4>1
    <3>6. ASSUME NEW e \in Deploy!Deploys, Deploy!LockDir(e) PROVE FALSE
      BY <3>2, <3>4, <3>6, "spawned" \in RunnerPcs \ {"health"} DEF Deploy!LockDir, RunnerPcs, Deploy!Alive
    <3>7. \E e \in Deploy!Deploys : Deploy!RestartBackend(e)
      BY <3>3, <3>4, <3>5, <3>6 DEF Deploy!Next, Deploy!Push, Deploy!Pm2Restart, Deploy!UnlockRemove, Deploy!CallerSees, Deploy!CallerTimesOut, Deploy!CallerRemovesLock, Deploy!UnlockCheck
    <3> QED BY <3>7 DEF Deploy!RestartBackend
  <2>2. built = run[d].be /\ Deploy!Between(0, run[d].be, Migrating) \subseteq db.migrated
    BY <1>3 DEF DeploySound, RunnersKnow, BackendSays, DbSays, Deploy!Changing
  <2> QED BY <2>1, <2>2
<1> QED BY <1>2, <1>3 DEF Deploy!GuardedStep

\* A deploy keeps its invariant wherever it stops.
LEMMA DeploysKnown == ASSUME DeployLimits PROVE Deploy!Spec => []DeployInv
<1>1. Deploy!Init => DeployInv
  BY DeployInit
<1>2. DeployInv /\ [Deploy!Next]_(Deploy!vars) => DeployInv'
  BY DeployStep
<1> QED BY <1>1, <1>2, PTL DEF Deploy!Spec

\* One runner at a time, the recorded state true of database, releases and processes,
\* and the way to retry open, wherever a deploy stops (runner_main, v_deploy_run).
THEOREM DeploysAreSafe == ASSUME DeployLimits PROVE Deploy!Spec => []Deploy!DeploySafe
<1>1. DeployInv => Deploy!DeploySafe
  BY DeploySafety
<1> QED BY <1>1, DeploysKnown, PTL

\* The database is written only by a runner that has a verified backup, and the backend
\* restarts only on code whose migrations are in (runner_main).
THEOREM WritesAreGuarded == ASSUME DeployLimits PROVE Deploy!Spec => Deploy!WritesGuarded
<1>1. DeployInv /\ [Deploy!Next]_(Deploy!vars) => [Deploy!GuardedStep]_(Deploy!vars)
  BY DeployGuarded
<1> QED BY <1>1, DeploysKnown, PTL DEF Deploy!Spec, Deploy!WritesGuarded

\* The types are part of the invariant.
LEMMA DeploysTypedFollow == DeployInv => Deploy!TypeOK
<1> SUFFICES ASSUME DeployInv PROVE Deploy!TypeOK
  OBVIOUS
<1>1. db.migrated \subseteq Migrating /\ db.seeded \subseteq Seeding
  BY DEF DeployInv, DeployTyped
<1>2. \A d \in Deploy!Deploys : run[d].pc \in Deploy!Alive \union {"new", "dead", "deployed"}
  BY DEF DeployInv, DeployTyped, RunnerRow, RunnerPcs
<1> QED BY <1>1, <1>2 DEF DeployInv, DeployTyped, Deploy!TypeOK

\* Every variable of the gateway keeps its type (runner_main, v_deploy_run).
THEOREM DeploysTyped == ASSUME DeployLimits PROVE Deploy!Spec => []Deploy!TypeOK
<1>1. DeployInv => Deploy!TypeOK
  BY DeploysTypedFollow
<1>2. Deploy!Init => DeployInv
  BY DeployInit
<1>3. DeployInv /\ [Deploy!Next]_(Deploy!vars) => DeployInv'
  BY DeployStep
<1> QED BY <1>1, <1>2, <1>3, PTL DEF Deploy!Spec

=============================================================================

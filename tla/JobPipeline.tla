---------------------------- MODULE JobPipeline ----------------------------
(***************************************************************************)
(* The scanner's analysis pipeline: JobPost rows in Postgres, their BullMQ *)
(* jobs in Redis, the worker slots that run processJobPost, the scheduler  *)
(* tick that reconciles the two stores, the ingest hot path, and the       *)
(* operator's calls (pause, enable-analysis, bulk skip / analyze / remove).*)
(*                                                                         *)
(* One backend process.  Every await of the code ends a step: two database *)
(* statements, or a database statement and a Redis call, are never one     *)
(* step unless the code runs them in one transaction.                      *)
(***************************************************************************)
EXTENDS Naturals

CONSTANTS
    Posts,          \* the providerJobIds; each becomes at most one JobPost row
    Workers,        \* the slots of the BullMQ Worker (concurrency: 2)
    Operators,      \* concurrent HTTP calls that change the pipeline
    NoWorker,       \* owner of a job that no live slot holds
    NoPost,         \* what an idle slot or enqueuer works on
    MaxAttempts,    \* `attempts` of queue.add (3)
    Calls,          \* which operator calls may happen
    MaxCalls,       \* BOUND: how many operator calls a behaviour contains
    Faults,         \* which faults may happen
    MaxFaults,      \* BOUND: how many faults a behaviour contains
    BootTickDone    \* FALSE: start at boot; TRUE: start after an idle first tick

AllCalls  == {"pause", "enable", "skip", "analyze", "remove"}
AllFaults == {"crash", "lockLoss", "flush", "redisError", "dbError", "aiError", "badOutput"}

ASSUME ConstantsAssumption ==
    /\ NoWorker \notin Workers
    /\ NoPost \notin Posts
    /\ MaxAttempts \in Nat \ {0}
    /\ MaxCalls \in Nat
    /\ MaxFaults \in Nat
    /\ Calls \subseteq AllCalls
    /\ Faults \subseteq AllFaults
    /\ BootTickDone \in BOOLEAN

VARIABLES
    \* Postgres
    status,             \* JobPost.status, "ABSENT" before the insert, "DELETED" after
    enqueueState,       \* JobPost.enqueueState
    analysisAttempts,   \* JobPost.analysisAttempts
    analysisEnabled,    \* Setting scanner.analysisEnabled
    matchEvents,        \* NotificationEvent rows of type JOB_POST_MATCH per post
    \* Redis
    jobState,           \* state of the job `${id}-v1`
    jobMade,            \* its attemptsMade
    jobStalls,          \* how often it stalled
    jobOwner,           \* the slot that holds its lock
    paused,             \* queue.isPaused()
    \* the process
    cache,              \* SettingsService.cache for the flag
    wpc, wpost, wtry, wseen,            \* per worker slot
    tpc, tids, tseen,                   \* the running queueReconcileTick
    firstReconcileDone,                 \* its boot latch
    oldRows,                            \* rows last enqueued (or created) before the boot
    epc, epost,                         \* the enqueue() calls in flight
    opc, oids,                          \* per operator call in flight
    calls, faults                       \* budgets left

rowVars   == <<status, enqueueState, analysisAttempts>>
jobVars   == <<jobState, jobMade, jobStalls, jobOwner>>
workVars  == <<wpc, wpost, wtry, wseen>>
tickVars  == <<tpc, tids, tseen, firstReconcileDone>>
enqRow    == <<enqueueState, oldRows>>
enqVars   == <<epc, epost>>
callVars  == <<opc, oids, calls>>
vars == <<rowVars, oldRows, analysisEnabled, matchEvents, jobVars, paused, cache,
          workVars, tickVars, enqVars, callVars, faults>>

-----------------------------------------------------------------------------
Statuses   == {"ABSENT", "NEW", "PROCESSING", "PROCESSED", "FAILED", "SKIPPED", "DELETED"}
EnqStates  == {"null", "BACKLOG", "PENDING", "ENQUEUED"}
JobStates  == {"absent", "waiting", "delayed", "active", "completed", "failed"}
Flag       == {"on", "off"}
Enqueuers  == {"reconcile", "drain"}    \* the scheduler tick and the ingest hot path
WorkerPcs  == {"idle", "claim", "flag", "fill", "rollback", "gate", "evaluate",
               "decline", "accept", "notify", "transient", "permanent", "complete", "fail"}
TickPcs    == {"idle", "reset", "resetActive", "resetWrite", "pauseFlag", "pauseFill",
               "pauseApply", "lost", "lostCheck", "lostWrite", "pending", "loop"}
EnqPcs     == {"idle", "check", "ghost", "add", "mark"}
OpPcs      == {"idle", "enable", "forget", "forgetEnable", "resume"}

\* The slot is past the claim and has not yet written the row's outcome.
Holding == {"flag", "fill", "rollback", "gate", "evaluate", "decline", "accept",
            "transient", "permanent"}
Exists(p) == status[p] \notin {"ABSENT", "DELETED"}
\* MUTANT: a delayed retry is taken for a leftover.
TerminalOrDelayed == {"completed", "failed", "delayed"}
Terminal  == {"completed", "failed"}
Locked(p) == jobState[p] = "active" /\ jobOwner[p] # NoWorker

Fault(f)  == f \in Faults /\ faults > 0 /\ faults' = faults - 1
Call(c)   == c \in Calls /\ calls > 0 /\ calls' = calls - 1

\* updateMany over the rows of S.
SetStatus(S, s)  == status' = [p \in Posts |-> IF p \in S THEN s ELSE status[p]]
SetEnqueue(S, e) == enqueueState' = [p \in Posts |-> IF p \in S THEN e ELSE enqueueState[p]]

\* The job hash of p is replaced; st is its state, 0 its counters, no lock.
FreshJob(p, st) ==
    /\ jobState' = [jobState EXCEPT ![p] = st]
    /\ jobMade' = [jobMade EXCEPT ![p] = 0]
    /\ jobStalls' = [jobStalls EXCEPT ![p] = 0]
    /\ jobOwner' = [jobOwner EXCEPT ![p] = NoWorker]

\* MUTANT: removal ignores the lock.
RemoveJobLocked(p) == FreshJob(p, "absent")

\* job.remove(): BullMQ refuses while the job is locked.  The lock of a slot that
\* died is held until it runs out, so an active job without an owner may go or stay.
RemoveJob(p) ==
    \/ ~Locked(p) /\ FreshJob(p, "absent")
    \/ jobState[p] = "active" /\ UNCHANGED jobVars

Goto(w, pc) == wpc' = [wpc EXCEPT ![w] = pc] /\ UNCHANGED <<wpost, wtry, wseen>>

\* MUTANT: the id is dropped but the caller stays inside enqueue().
EnqueueForgets(e) == UNCHANGED epc /\ epost' = [epost EXCEPT ![e] = NoPost]

\* enqueue() returns or throws; both callers go on with their next post.
EnqueueReturn(e) ==
    /\ epc' = [epc EXCEPT ![e] = "idle"]
    /\ epost' = [epost EXCEPT ![e] = NoPost]

Init ==
    /\ status = [p \in Posts |-> "ABSENT"]
    /\ enqueueState = [p \in Posts |-> "null"]
    /\ analysisAttempts = [p \in Posts |-> 0]
    /\ analysisEnabled \in Flag
    /\ matchEvents = [p \in Posts |-> 0]
    /\ jobState = [p \in Posts |-> "absent"]
    /\ jobMade = [p \in Posts |-> 0]
    /\ jobStalls = [p \in Posts |-> 0]
    /\ jobOwner = [p \in Posts |-> NoWorker]
    /\ paused = (analysisEnabled = "off")
    /\ cache = "unset"
    /\ wpc = [w \in Workers |-> "idle"]
    /\ wpost = [w \in Workers |-> NoPost]
    /\ wtry = [w \in Workers |-> 0]
    /\ wseen = [w \in Workers |-> "on"]
    /\ tpc = "idle"
    /\ tids = {}
    /\ tseen = "on"
    /\ firstReconcileDone = BootTickDone
    /\ oldRows = {}
    /\ epc = [e \in Enqueuers |-> "idle"]
    /\ epost = [e \in Enqueuers |-> NoPost]
    /\ opc = [o \in Operators |-> "idle"]
    /\ oids = [o \in Operators |-> {}]
    /\ calls = MaxCalls
    /\ faults = MaxFaults

-----------------------------------------------------------------------------
(* Ingest: commitLink inserts the row and reads the flag FOR SHARE in one  *)
(* transaction, then pushes a PENDING row to the queue.  A known            *)
(* providerJobId, deleted rows aside, never inserts again; a deleted post   *)
(* that is delivered again is a new row and so another member of Posts.     *)
commitLink(p) ==
    /\ status[p] = "ABSENT"
    /\ epc["drain"] = "idle"
    /\ status' = [status EXCEPT ![p] = "NEW"]
    /\ IF analysisEnabled = "on"
       THEN /\ enqueueState' = [enqueueState EXCEPT ![p] = "PENDING"]
            /\ epc' = [epc EXCEPT !["drain"] = "check"]
            /\ epost' = [epost EXCEPT !["drain"] = p]
       ELSE /\ enqueueState' = [enqueueState EXCEPT ![p] = "BACKLOG"]
            /\ UNCHANGED enqVars
    /\ UNCHANGED <<analysisAttempts, oldRows, analysisEnabled, matchEvents, jobVars, paused, cache,
                   workVars, tickVars, callVars, faults>>

-----------------------------------------------------------------------------
(* enqueue(jobPostId), run by the tick and by the hot path.                *)

EnqueueUnchanged ==
    UNCHANGED <<status, analysisAttempts, analysisEnabled, matchEvents, paused, cache,
                workVars, tickVars, callVars>>

\* getJob and getState: absent -> add, terminal -> drop the ghost, live -> mark only.
\* An error of getJob ends the call; an error of getState counts as live.
EnqueueCheck(e) ==
    /\ epc[e] = "check"
    /\ LET st == jobState[epost[e]] IN
       \/ /\ epc' = [epc EXCEPT ![e] = CASE st = "absent" -> "add"
                                          [] st \in Terminal -> "ghost"
                                          [] OTHER -> "mark"]
          /\ UNCHANGED <<epost, faults>>
       \/ Fault("redisError") /\ EnqueueReturn(e)
       \/ /\ st # "absent" /\ Fault("redisError")
          /\ epc' = [epc EXCEPT ![e] = "mark"] /\ UNCHANGED epost
    /\ EnqueueUnchanged /\ UNCHANGED <<enqRow, jobVars>>

\* existing.remove(), errors swallowed.
EnqueueGhost(e) ==
    /\ epc[e] = "ghost"
    /\ epc' = [epc EXCEPT ![e] = "add"]
    /\ \/ RemoveJob(epost[e]) /\ UNCHANGED faults
       \/ Fault("redisError") /\ UNCHANGED jobVars
    /\ EnqueueUnchanged /\ UNCHANGED <<enqRow, epost>>

\* queue.add with the deterministic id: a no-op when a job has that id.
EnqueueAdd(e) ==
    /\ epc[e] = "add"
    /\ LET p == epost[e] IN
       \/ /\ jobState[p] = "absent"
          /\ FreshJob(p, "waiting")
          /\ epc' = [epc EXCEPT ![e] = "mark"]
          /\ UNCHANGED <<epost, faults>>
       \/ /\ jobState[p] # "absent"
          /\ epc' = [epc EXCEPT ![e] = "mark"]
          /\ UNCHANGED <<jobVars, epost, faults>>
       \/ Fault("redisError") /\ EnqueueReturn(e) /\ UNCHANGED jobVars
    /\ EnqueueUnchanged /\ UNCHANGED enqRow

\* The row is marked, and enqueuedAt set to now, whatever its status has become; a
\* deleted row throws.
EnqueueMark(e) ==
    /\ epc[e] = "mark"
    /\ EnqueueReturn(e)
    /\ LET p == epost[e] IN
       \/ /\ enqueueState' = [enqueueState EXCEPT ![p] = IF Exists(p) THEN "ENQUEUED" ELSE @]
          /\ oldRows' = oldRows \ {p}
          /\ UNCHANGED faults
       \/ Fault("dbError") /\ UNCHANGED enqRow
    /\ EnqueueUnchanged /\ UNCHANGED jobVars

enqueue(e) == EnqueueCheck(e) \/ EnqueueGhost(e) \/ EnqueueAdd(e) \/ EnqueueMark(e)

-----------------------------------------------------------------------------
(* The worker: BullMQ hands a waiting job to a free slot, processJobPost.  *)

WorkerUnchanged ==
    UNCHANGED <<oldRows, analysisEnabled, paused, tickVars, enqVars, callVars>>

Pick(w, p) ==
    /\ wpc[w] = "idle" /\ jobState[p] = "waiting" /\ ~paused
    /\ jobState' = [jobState EXCEPT ![p] = "active"]
    /\ jobOwner' = [jobOwner EXCEPT ![p] = w]
    /\ wpc' = [wpc EXCEPT ![w] = "claim"]
    /\ wpost' = [wpost EXCEPT ![w] = p]
    /\ wtry' = [wtry EXCEPT ![w] = jobMade[p]]
    /\ UNCHANGED <<wseen, jobMade, jobStalls, rowVars, matchEvents, cache, faults>>
    /\ WorkerUnchanged

\* MUTANT: the claim without its status guard.
ClaimUnguarded(w) ==
    /\ wpc[w] = "claim"
    /\ SetStatus({wpost[w]}, "PROCESSING") /\ Goto(w, "flag")
    /\ UNCHANGED <<enqueueState, analysisAttempts, matchEvents, jobVars, cache, faults>>
    /\ WorkerUnchanged

\* updateMany where id, status NEW: only one caller can win the row.
Claim(w) ==
    /\ wpc[w] = "claim"
    /\ IF status[wpost[w]] = "NEW"
       THEN SetStatus({wpost[w]}, "PROCESSING") /\ Goto(w, "flag")
       ELSE UNCHANGED status /\ Goto(w, "complete")
    /\ UNCHANGED <<enqueueState, analysisAttempts, matchEvents, jobVars, cache, faults>>
    /\ WorkerUnchanged

AfterFlag(v) == IF v = "on" THEN "gate" ELSE "rollback"

\* getBooleanForKey: a cache hit is synchronous, a miss reads the database ...
ReadFlag(w) ==
    /\ wpc[w] = "flag"
    /\ IF cache # "unset"
       THEN Goto(w, AfterFlag(cache))
       ELSE /\ wpc' = [wpc EXCEPT ![w] = "fill"]
            /\ wseen' = [wseen EXCEPT ![w] = analysisEnabled]
            /\ UNCHANGED <<wpost, wtry>>
    /\ UNCHANGED <<rowVars, matchEvents, jobVars, cache, faults>>
    /\ WorkerUnchanged

\* ... and then caches what it read, whatever was written in between.
FillCache(w) ==
    /\ wpc[w] = "fill"
    /\ cache' = wseen[w]
    /\ wpc' = [wpc EXCEPT ![w] = AfterFlag(wseen[w])]
    /\ wseen' = [wseen EXCEPT ![w] = "on"]
    /\ UNCHANGED <<wpost, wtry>>
    /\ UNCHANGED <<rowVars, matchEvents, jobVars, faults>>
    /\ WorkerUnchanged

\* Analysis is off: the row goes back as NEW/BACKLOG.  No status guard.
RollBack(w) ==
    /\ wpc[w] = "rollback"
    /\ IF Exists(wpost[w])
       THEN SetStatus({wpost[w]}, "NEW") /\ SetEnqueue({wpost[w]}, "BACKLOG") /\ Goto(w, "complete")
       ELSE UNCHANGED <<status, enqueueState>> /\ Goto(w, "fail")
    /\ UNCHANGED <<analysisAttempts, matchEvents, jobVars, cache, faults>>
    /\ WorkerUnchanged

\* Read the row, ask the gatekeeper: reject, go on, or throw.
Gate(w) ==
    /\ wpc[w] = "gate"
    /\ \/ Exists(wpost[w]) /\ (Goto(w, "decline") \/ Goto(w, "evaluate")) /\ UNCHANGED faults
       \/ Exists(wpost[w]) /\ Fault("badOutput") /\ Goto(w, "permanent")
       \/ Exists(wpost[w]) /\ Fault("aiError") /\ Goto(w, "transient")
       \/ ~Exists(wpost[w]) /\ Goto(w, "transient") /\ UNCHANGED faults
    /\ UNCHANGED <<rowVars, matchEvents, jobVars, cache>>
    /\ WorkerUnchanged

Evaluate(w) ==
    /\ wpc[w] = "evaluate"
    /\ \/ (Goto(w, "decline") \/ Goto(w, "accept")) /\ UNCHANGED faults
       \/ Fault("badOutput") /\ Goto(w, "permanent")
       \/ Fault("aiError") /\ Goto(w, "transient")
    /\ UNCHANGED <<rowVars, matchEvents, jobVars, cache>>
    /\ WorkerUnchanged

\* The verdict is written by id, without a status guard; a deleted row throws.
WriteVerdict(w) ==
    /\ wpc[w] \in {"decline", "accept"}
    /\ IF Exists(wpost[w])
       THEN /\ SetStatus({wpost[w]}, "PROCESSED")
            /\ SetEnqueue({wpost[w]}, "null")
            /\ Goto(w, IF wpc[w] = "accept" THEN "notify" ELSE "complete")
       ELSE UNCHANGED <<status, enqueueState>> /\ Goto(w, "transient")
    /\ UNCHANGED <<analysisAttempts, matchEvents, jobVars, cache, faults>>
    /\ WorkerUnchanged

\* createEvent for approve | maybe; its failure is swallowed.
Notify(w) ==
    /\ wpc[w] = "notify"
    /\ matchEvents' = [matchEvents EXCEPT ![wpost[w]] = @ + 1]
    /\ Goto(w, "complete")
    /\ UNCHANGED <<rowVars, jobVars, cache, faults>>
    /\ WorkerUnchanged

\* The catch block, then the rethrow.
CatchError(w) ==
    /\ wpc[w] \in {"transient", "permanent"}
    /\ LET p == wpost[w]
           terminal == wpc[w] = "permanent" \/ wtry[w] + 1 >= MaxAttempts
       IN IF Exists(p)
          THEN /\ SetStatus({p}, IF terminal THEN "FAILED" ELSE "NEW")
               /\ SetEnqueue({p}, IF terminal THEN "null" ELSE "PENDING")
               /\ analysisAttempts' = [analysisAttempts EXCEPT ![p] = @ + 1]
          ELSE UNCHANGED rowVars
    /\ Goto(w, "fail")
    /\ UNCHANGED <<matchEvents, jobVars, cache, faults>>
    /\ WorkerUnchanged

\* A database error in any statement of processJobPost.
WorkerDbError(w) ==
    /\ Fault("dbError")
    /\ \/ wpc[w] \in {"claim", "flag", "rollback", "transient", "permanent"} /\ Goto(w, "fail")
       \/ wpc[w] \in {"gate", "decline", "accept"} /\ Goto(w, "transient")
       \/ wpc[w] = "notify" /\ Goto(w, "complete")
    /\ UNCHANGED <<rowVars, matchEvents, jobVars, cache>>
    /\ WorkerUnchanged

\* BullMQ settles the job if the slot still holds its lock.  A thrown error is
\* retried while attempts are left, whatever its class.
Settle(w) ==
    /\ wpc[w] \in {"complete", "fail"}
    /\ wpc' = [wpc EXCEPT ![w] = "idle"]
    /\ wpost' = [wpost EXCEPT ![w] = NoPost]
    /\ wtry' = [wtry EXCEPT ![w] = 0]
    /\ LET p == wpost[w] IN
       IF jobState[p] = "active" /\ jobOwner[p] = w
       THEN /\ jobOwner' = [jobOwner EXCEPT ![p] = NoWorker]
            /\ IF wpc[w] = "complete"
               THEN jobState' = [jobState EXCEPT ![p] = "completed"] /\ UNCHANGED jobMade
               ELSE /\ jobMade' = [jobMade EXCEPT ![p] = @ + 1]
                    /\ jobState' = [jobState EXCEPT ![p] =
                           IF jobMade[p] + 1 < MaxAttempts THEN "delayed" ELSE "failed"]
            /\ UNCHANGED jobStalls
       ELSE UNCHANGED jobVars
    /\ UNCHANGED <<wseen, rowVars, matchEvents, cache, faults>>
    /\ WorkerUnchanged

WorkerStep(w) ==
    \/ Claim(w) \/ ReadFlag(w) \/ FillCache(w) \/ RollBack(w) \/ Gate(w) \/ Evaluate(w)
    \/ WriteVerdict(w) \/ Notify(w) \/ CatchError(w) \/ Settle(w)

-----------------------------------------------------------------------------
(* queueReconcileTick, every 30 s.  claimGuard keeps one tick at a time.    *)

TickUnchanged ==
    UNCHANGED <<analysisAttempts, oldRows, analysisEnabled, matchEvents, jobVars, workVars, callVars>>

TickStart ==
    /\ tpc = "idle"
    /\ tpc' = IF firstReconcileDone THEN "pauseFlag" ELSE "reset"
    /\ tids' = {}
    /\ TickUnchanged
    /\ UNCHANGED <<status, enqueueState, paused, cache, tseen, firstReconcileDone, enqVars, faults>>

\* resetStuckProcessing, the query: PROCESSING rows past the ten-minute floor.  At the
\* first tick no row of this run of the process is that old; an older row may or may
\* not be, depending on how long the restart took.
ResetSelect ==
    /\ tpc = "reset"
    /\ \/ \E S \in SUBSET {p \in oldRows : status[p] = "PROCESSING"} :
             /\ tids' = S
             /\ tpc' = IF S = {} THEN "pauseFlag" ELSE "resetActive"
             /\ firstReconcileDone' = (S = {})
             /\ UNCHANGED faults
       \/ /\ Fault("dbError")
          /\ tpc' = "idle" /\ UNCHANGED <<tids, firstReconcileDone>>
    /\ TickUnchanged /\ UNCHANGED <<status, enqueueState, paused, cache, tseen, enqVars>>

\* collectActiveJobPostIds; an error leaves every row alone and the sweep ends
\* as a success.
ResetActive ==
    /\ tpc = "resetActive"
    /\ \/ /\ tids' = {p \in tids : jobState[p] # "active"}
          /\ UNCHANGED faults
       \/ Fault("redisError") /\ tids' = {}
    /\ tpc' = IF tids' = {} THEN "pauseFlag" ELSE "resetWrite"
    /\ firstReconcileDone' = (tids' = {})
    /\ TickUnchanged /\ UNCHANGED <<status, enqueueState, paused, cache, tseen, enqVars>>

\* MUTANT: the final update without its status guard.
ResetWriteUnguarded ==
    /\ tpc = "resetWrite"
    /\ SetStatus(tids, "NEW")
    /\ firstReconcileDone' = TRUE /\ tpc' = "pauseFlag" /\ tids' = {} /\ UNCHANGED faults
    /\ TickUnchanged /\ UNCHANGED <<enqueueState, paused, cache, tseen, enqVars>>

ResetWrite ==
    /\ tpc = "resetWrite"
    /\ \/ /\ SetStatus({p \in tids : status[p] = "PROCESSING"}, "NEW")
          /\ firstReconcileDone' = TRUE /\ tpc' = "pauseFlag" /\ UNCHANGED faults
       \/ /\ Fault("dbError")
          /\ tpc' = "idle" /\ UNCHANGED <<status, firstReconcileDone>>
    /\ tids' = {}
    /\ TickUnchanged /\ UNCHANGED <<enqueueState, paused, cache, tseen, enqVars>>

\* getBooleanForKey again, with the same cache.
TickReadFlag ==
    /\ tpc = "pauseFlag"
    /\ tseen' = IF cache # "unset" THEN cache ELSE analysisEnabled
    /\ tpc' = IF cache # "unset" THEN "pauseApply" ELSE "pauseFill"
    /\ TickUnchanged
    /\ UNCHANGED <<status, enqueueState, paused, cache, tids, firstReconcileDone, enqVars, faults>>

TickFillCache ==
    /\ tpc = "pauseFill"
    /\ cache' = tseen
    /\ tpc' = "pauseApply"
    /\ TickUnchanged
    /\ UNCHANGED <<status, enqueueState, paused, tids, tseen, firstReconcileDone, enqVars, faults>>

\* reconcilePauseState(!analysisEnabled); errors are logged and the tick goes on.
ReconcilePauseState ==
    /\ tpc = "pauseApply"
    /\ \/ paused' = (tseen = "off") /\ UNCHANGED faults
       \/ Fault("redisError") /\ UNCHANGED paused
    /\ tpc' = "lost" /\ tseen' = "on"
    /\ TickUnchanged
    /\ UNCHANGED <<status, enqueueState, cache, tids, firstReconcileDone, enqVars>>

\* MUTANT: the sweep looks at the rows that are not in Redis yet.
LostSelectPending ==
    /\ tpc = "lost"
    /\ tids' = {p \in Posts : status[p] = "NEW" /\ enqueueState[p] = "PENDING"}
    /\ tpc' = IF tids' = {} THEN "pending" ELSE "lostCheck"
    /\ TickUnchanged
    /\ UNCHANGED <<status, enqueueState, paused, cache, tseen, firstReconcileDone, enqVars, faults>>

\* reconcileLostEnqueued: rows, then their jobs, then the guarded update.
LostSelect ==
    /\ tpc = "lost"
    /\ tids' = {p \in Posts : status[p] = "NEW" /\ enqueueState[p] = "ENQUEUED"}
    /\ tpc' = IF tids' = {} THEN "pending" ELSE "lostCheck"
    /\ TickUnchanged
    /\ UNCHANGED <<status, enqueueState, paused, cache, tseen, firstReconcileDone, enqVars, faults>>

LostCheck ==
    /\ tpc = "lostCheck"
    /\ \/ tids' = {p \in tids : jobState[p] = "absent"} /\ UNCHANGED faults
       \/ Fault("redisError") /\ tids' = {}
    /\ tpc' = IF tids' = {} THEN "pending" ELSE "lostWrite"
    /\ TickUnchanged
    /\ UNCHANGED <<status, enqueueState, paused, cache, tseen, firstReconcileDone, enqVars>>

LostWrite ==
    /\ tpc = "lostWrite"
    /\ SetEnqueue({p \in tids : status[p] = "NEW" /\ enqueueState[p] = "ENQUEUED"}, "PENDING")
    /\ tids' = {}
    /\ tpc' = "pending"
    /\ TickUnchanged
    /\ UNCHANGED <<status, paused, cache, tseen, firstReconcileDone, enqVars, faults>>

\* MUTANT: the snapshot takes the BACKLOG rows.
PendingSelectBacklog ==
    /\ tpc = "pending"
    /\ tids' = {p \in Posts : status[p] = "NEW" /\ enqueueState[p] = "BACKLOG"}
    /\ tpc' = "loop"
    /\ TickUnchanged
    /\ UNCHANGED <<status, enqueueState, paused, cache, tseen, firstReconcileDone, enqVars, faults>>

\* reconcileNewJobPosts: the snapshot, then enqueue() for each of its rows.
PendingSelect ==
    /\ tpc = "pending"
    /\ tids' = {p \in Posts : status[p] = "NEW" /\ enqueueState[p] = "PENDING"}
    /\ tpc' = "loop"
    /\ TickUnchanged
    /\ UNCHANGED <<status, enqueueState, paused, cache, tseen, firstReconcileDone, enqVars, faults>>

PendingEnqueue ==
    /\ tpc = "loop" /\ epc["reconcile"] = "idle"
    /\ \E p \in tids :
         /\ tids' = tids \ {p}
         /\ epc' = [epc EXCEPT !["reconcile"] = "check"]
         /\ epost' = [epost EXCEPT !["reconcile"] = p]
    /\ TickUnchanged
    /\ UNCHANGED <<status, enqueueState, paused, cache, tpc, tseen, firstReconcileDone, faults>>

TickEnd ==
    /\ tpc = "loop" /\ epc["reconcile"] = "idle" /\ tids = {}
    /\ tpc' = "idle"
    /\ TickUnchanged
    /\ UNCHANGED <<status, enqueueState, paused, cache, tids, tseen, firstReconcileDone, enqVars, faults>>

TickStep ==
    \/ ResetSelect \/ ResetActive \/ ResetWrite \/ TickReadFlag \/ TickFillCache
    \/ ReconcilePauseState \/ LostSelect \/ LostCheck \/ LostWrite
    \/ PendingSelect \/ PendingEnqueue \/ TickEnd

-----------------------------------------------------------------------------
(* The operator's calls.                                                   *)

CallUnchanged ==
    UNCHANGED <<matchEvents, oldRows, workVars, tickVars, enqVars>>

\* applySectionUpdate({analysisEnabled: false}): unlocked write, own cache dropped.
PauseAnalysis(o) ==
    /\ opc[o] = "idle" /\ Call("pause")
    /\ analysisEnabled' = "off"
    /\ cache' = "unset"
    /\ CallUnchanged /\ UNCHANGED <<rowVars, jobVars, paused, opc, oids, faults>>

\* enableAnalysis, first line: snapshotAt, taken before the transaction.
EnableSnapshot(o) ==
    /\ opc[o] = "idle" /\ Call("enable")
    /\ oids' = [oids EXCEPT ![o] = {p \in Posts : Exists(p)}]
    /\ opc' = [opc EXCEPT ![o] = "enable"]
    /\ CallUnchanged
    /\ UNCHANGED <<rowVars, analysisEnabled, jobVars, paused, cache, faults>>

\* The transaction under FOR UPDATE.  `recent` is the part of the snapshot the
\* strategy keeps: all of it for ALL, none for NEW_POSTS_ONLY, the posts inside
\* the window for RECENT.
EnableCommit(o, recent) ==
    /\ opc[o] = "enable"
    /\ analysisEnabled' = "on"
    /\ IF analysisEnabled = "on"
       THEN /\ opc' = [opc EXCEPT ![o] = "resume"]
            /\ oids' = [oids EXCEPT ![o] = {}]
            /\ UNCHANGED rowVars
       ELSE LET new  == {p \in oids[o] : status[p] = "NEW"}
                keep == new \cap recent
                drop == new \ recent
            IN /\ SetStatus(drop, "SKIPPED")
               /\ enqueueState' = [p \in Posts |-> IF p \in keep THEN "PENDING"
                                                   ELSE IF p \in drop THEN "null"
                                                   ELSE enqueueState[p]]
               /\ opc' = [opc EXCEPT ![o] = "forgetEnable"]
               /\ oids' = [oids EXCEPT ![o] = drop]
               /\ UNCHANGED analysisAttempts
    /\ CallUnchanged /\ UNCHANGED <<jobVars, paused, cache, calls, faults>>

\* invalidateCachePublic, then queue.resume() with its error swallowed.
EnableResume(o) ==
    /\ \/ opc[o] = "resume"
       \/ opc[o] = "forgetEnable" /\ oids[o] = {}
    /\ opc' = [opc EXCEPT ![o] = "idle"]
    /\ cache' = "unset"
    /\ \/ paused' = FALSE /\ UNCHANGED faults
       \/ Fault("redisError") /\ UNCHANGED paused
    /\ CallUnchanged /\ UNCHANGED <<rowVars, analysisEnabled, jobVars, oids, calls>>

\* Bulk calls: the guarded updateMany / deleteMany, then forgetJob for EVERY id.
BulkSkip(o, ids) ==
    /\ opc[o] = "idle" /\ Call("skip")
    /\ SetStatus({p \in ids : status[p] = "NEW"}, "SKIPPED")
    /\ SetEnqueue({p \in ids : status[p] = "NEW"}, "null")
    /\ opc' = [opc EXCEPT ![o] = "forget"] /\ oids' = [oids EXCEPT ![o] = ids]
    /\ CallUnchanged /\ UNCHANGED <<analysisAttempts, analysisEnabled, jobVars, paused, cache, faults>>

\* MUTANT: retry for every status.
BulkAnalyzeAny(o, ids) ==
    /\ opc[o] = "idle" /\ Call("analyze")
    /\ SetStatus(ids, "NEW")
    /\ SetEnqueue(ids, "PENDING")
    /\ opc' = [opc EXCEPT ![o] = "forget"] /\ oids' = [oids EXCEPT ![o] = ids]
    /\ CallUnchanged /\ UNCHANGED <<analysisAttempts, analysisEnabled, jobVars, paused, cache, faults>>

BulkAnalyze(o, ids) ==
    /\ opc[o] = "idle" /\ Call("analyze")
    /\ SetStatus({p \in ids : status[p] = "FAILED"}, "NEW")
    /\ SetEnqueue({p \in ids : status[p] = "FAILED"}, "PENDING")
    /\ opc' = [opc EXCEPT ![o] = "forget"] /\ oids' = [oids EXCEPT ![o] = ids]
    /\ CallUnchanged /\ UNCHANGED <<analysisAttempts, analysisEnabled, jobVars, paused, cache, faults>>

BulkRemove(o, ids) ==
    /\ opc[o] = "idle" /\ Call("remove")
    /\ SetStatus({p \in ids : Exists(p)}, "DELETED")
    /\ SetEnqueue({p \in ids : Exists(p)}, "null")
    /\ opc' = [opc EXCEPT ![o] = "forget"] /\ oids' = [oids EXCEPT ![o] = ids]
    /\ CallUnchanged /\ UNCHANGED <<analysisAttempts, analysisEnabled, jobVars, paused, cache, faults>>

\* forgetJob(id) for one of the ids; a refused or failed removal is swallowed.
ForgetJob(o) ==
    /\ opc[o] \in {"forget", "forgetEnable"}
    /\ \E p \in oids[o] :
         /\ oids' = [oids EXCEPT ![o] = @ \ {p}]
         /\ \/ RemoveJob(p) /\ UNCHANGED faults
            \/ Fault("redisError") /\ UNCHANGED jobVars
    /\ CallUnchanged /\ UNCHANGED <<rowVars, analysisEnabled, paused, cache, opc, calls>>

CallEnd(o) ==
    /\ opc[o] = "forget" /\ oids[o] = {}
    /\ opc' = [opc EXCEPT ![o] = "idle"]
    /\ CallUnchanged
    /\ UNCHANGED <<rowVars, analysisEnabled, jobVars, paused, cache, oids, calls, faults>>

CallStep(o) ==
    \/ \E recent \in SUBSET Posts : EnableCommit(o, recent)
    \/ EnableResume(o) \/ ForgetJob(o) \/ CallEnd(o)

CallStart(o) ==
    \/ PauseAnalysis(o) \/ EnableSnapshot(o)
    \/ \E ids \in SUBSET {p \in Posts : Exists(p)} \ {{}} :
         BulkSkip(o, ids) \/ BulkAnalyze(o, ids) \/ BulkRemove(o, ids)

-----------------------------------------------------------------------------
(* BullMQ, the clock, and the faults.                                      *)

EnvUnchanged ==
    UNCHANGED <<rowVars, oldRows, analysisEnabled, matchEvents, callVars>>

\* Backoff is over.
Promote(p) ==
    /\ jobState[p] = "delayed"
    /\ jobState' = [jobState EXCEPT ![p] = "waiting"]
    /\ EnvUnchanged
    /\ UNCHANGED <<jobMade, jobStalls, jobOwner, paused, cache, workVars, tickVars, enqVars, faults>>

\* The stalled check: an active job without a live lock runs again, once.
Stalled(p) ==
    /\ jobState[p] = "active" /\ jobOwner[p] = NoWorker
    /\ jobState' = [jobState EXCEPT ![p] = IF jobStalls[p] = 0 THEN "waiting" ELSE "failed"]
    /\ jobStalls' = [jobStalls EXCEPT ![p] = 1]
    /\ EnvUnchanged
    /\ UNCHANGED <<jobMade, jobOwner, paused, cache, workVars, tickVars, enqVars, faults>>

\* removeOnComplete / removeOnFail retention.
Expire(p) ==
    /\ jobState[p] \in Terminal
    /\ FreshJob(p, "absent")
    /\ EnvUnchanged
    /\ UNCHANGED <<paused, cache, workVars, tickVars, enqVars, faults>>

\* The 60 s TTL of the settings cache.
CacheExpire ==
    /\ cache # "unset"
    /\ cache' = "unset"
    /\ EnvUnchanged
    /\ UNCHANGED <<jobVars, paused, workVars, tickVars, enqVars, faults>>

\* A slot loses its lock (Redis unreachable past lockDuration) but keeps running.
LockLoss(p) ==
    /\ Locked(p) /\ Fault("lockLoss")
    /\ jobOwner' = [jobOwner EXCEPT ![p] = NoWorker]
    /\ EnvUnchanged
    /\ UNCHANGED <<jobState, jobMade, jobStalls, paused, cache, workVars, tickVars, enqVars>>

RedisFlush ==
    /\ Fault("flush")
    /\ jobState' = [p \in Posts |-> "absent"]
    /\ jobMade' = [p \in Posts |-> 0]
    /\ jobStalls' = [p \in Posts |-> 0]
    /\ jobOwner' = [p \in Posts |-> NoWorker]
    /\ paused' = FALSE
    /\ EnvUnchanged /\ UNCHANGED <<cache, workVars, tickVars, enqVars>>

\* The process dies and is started again: nothing in memory survives, the locks
\* of its jobs run out.  A call in flight is cut where it is.
Crash ==
    /\ Fault("crash")
    /\ wpc' = [w \in Workers |-> "idle"] /\ wpost' = [w \in Workers |-> NoPost]
    /\ wtry' = [w \in Workers |-> 0] /\ wseen' = [w \in Workers |-> "on"]
    /\ jobOwner' = [p \in Posts |-> NoWorker]
    /\ cache' = "unset"
    /\ tpc' = "idle" /\ tids' = {} /\ tseen' = "on" /\ firstReconcileDone' = FALSE
    /\ oldRows' = {p \in Posts : Exists(p)}
    /\ epc' = [e \in Enqueuers |-> "idle"] /\ epost' = [e \in Enqueuers |-> NoPost]
    /\ opc' = [o \in Operators |-> "idle"] /\ oids' = [o \in Operators |-> {}]
    /\ UNCHANGED <<rowVars, analysisEnabled, matchEvents, jobState, jobMade, jobStalls, paused, calls>>

-----------------------------------------------------------------------------
Next ==
    \/ \E p \in Posts : commitLink(p) \/ Promote(p) \/ Stalled(p) \/ Expire(p) \/ LockLoss(p)
    \/ \E e \in Enqueuers : enqueue(e)
    \/ \E w \in Workers : \/ \E p \in Posts : Pick(w, p)
                          \/ WorkerStep(w) \/ WorkerDbError(w)
    \/ TickStart \/ TickStep
    \/ \E o \in Operators : CallStart(o) \/ CallStep(o)
    \/ CacheExpire \/ RedisFlush \/ Crash

Spec == Init /\ [][Next]_vars

\* What the runtime owes: cron keeps firing, awaits return, BullMQ serves free
\* slots, promotes delayed jobs and finds stalled ones, the cache's TTL passes.
\* Nothing is owed by operators, by faults or by job retention.
Fairness ==
    /\ \A e \in Enqueuers : WF_vars(enqueue(e))
    /\ \A w \in Workers : WF_vars(WorkerStep(w))
    /\ \A p \in Posts : /\ SF_vars(\E w \in Workers : Pick(w, p))
                        /\ WF_vars(Promote(p)) /\ WF_vars(Stalled(p))
    /\ WF_vars(TickStart) /\ WF_vars(TickStep) /\ WF_vars(CacheExpire)
    /\ \A o \in Operators : WF_vars(CallStep(o))

FairSpec == Spec /\ Fairness

-----------------------------------------------------------------------------
(* Properties.                                                             *)

TypeOK ==
    /\ status \in [Posts -> Statuses]
    /\ enqueueState \in [Posts -> EnqStates]
    /\ analysisAttempts \in [Posts -> Nat]
    /\ analysisEnabled \in Flag
    /\ matchEvents \in [Posts -> Nat]
    /\ jobState \in [Posts -> JobStates]
    /\ jobMade \in [Posts -> Nat]
    /\ jobStalls \in [Posts -> {0, 1}]
    /\ jobOwner \in [Posts -> Workers \cup {NoWorker}]
    /\ paused \in BOOLEAN
    /\ cache \in Flag \cup {"unset"}
    /\ wpc \in [Workers -> WorkerPcs]
    /\ wpost \in [Workers -> Posts \cup {NoPost}]
    /\ \A w \in Workers : wpc[w] # "idle" => wpost[w] \in Posts
    /\ wtry \in [Workers -> Nat]
    /\ wseen \in [Workers -> Flag]
    /\ tpc \in TickPcs
    /\ tids \in SUBSET Posts
    /\ tseen \in Flag
    /\ firstReconcileDone \in BOOLEAN
    /\ oldRows \in SUBSET Posts
    /\ epc \in [Enqueuers -> EnqPcs]
    /\ epost \in [Enqueuers -> Posts \cup {NoPost}]
    /\ \A e \in Enqueuers : epc[e] # "idle" => epost[e] \in Posts
    /\ opc \in [Operators -> OpPcs]
    /\ oids \in [Operators -> SUBSET Posts]
    /\ calls \in Nat
    /\ faults \in Nat

\* AI budget: two slots never analyse the same post at the same time, whatever the
\* interleaving of enqueue, retry, recovery and the operator's calls.
OneAnalystPerPost ==
    \A w, v \in Workers :
        (w # v /\ wpc[w] \in Holding /\ wpc[v] \in Holding) => wpost[w] # wpost[v]

\* A verdict is never lost or redone: once processJobPost has written PROCESSED,
\* only deleting the row changes its status.
VerdictIsFinal ==
    [][\A p \in Posts : status[p] = "PROCESSED" => status'[p] \in {"PROCESSED", "DELETED"}]_vars

\* With NoBootReset: what an operator skipped stays skipped, no worker, retry or tick
\* brings the post back (bulkSkip: "Either order is safe").  The boot-time sweep does:
\* it resets a row under the slot that has just claimed it.
DismissalIsFinal ==
    [][\A p \in Posts : status[p] = "SKIPPED" => status'[p] \in {"SKIPPED", "DELETED"}]_vars

\* A post is announced at most once, although a job may run several times.
AnnouncedAtMostOnce == \A p \in Posts : matchEvents[p] <= 1

\* Re-enqueueing does not reset BullMQ's attempts counter of a live job ("would
\* race BullMQ's attempts counter and double-charge AI"): a post fails at most
\* MaxAttempts analyses, under ChargesOnce.
AttemptsWithinBudget == \A p \in Posts : analysisAttempts[p] <= MaxAttempts

Decided(p) == status[p] \in {"PROCESSED", "FAILED", "SKIPPED", "DELETED"}

\* No event is ever lost: a post handed to the queue is decided in the end, across
\* failed pushes, Redis flushes and AI errors.
PendingPostDecided ==
    \A p \in Posts : (status[p] = "NEW" /\ enqueueState[p] = "PENDING") ~> Decided(p)
-----------------------------------------------------------------------------
(* Why the safety properties hold.  Two mechanisms keep a second slot away  *)
(* from a post; each is enough on its own, under its own hypothesis.        *)

\* BullMQ never takes a job away from a slot that is alive.
LocksHold == {"lockLoss", "flush"} \cap Faults = {}

\* Nothing gives a post a fresh job while its row may still be analysed.  An operator's
\* retry and a pause do; so does a bulk skip that comes too late for the row, because
\* forgetJob runs for EVERY id and takes the delayed retry job along; so do a flush, a
\* crash, a lost lock, and database errors that use up a job's attempts unanalysed.
ChargesOnce == Calls \subseteq {"remove"} /\ Faults \subseteq {"redisError", "aiError", "badOutput"}

\* With LocksHold: a busy slot owns its job's lock, so no other slot has that post,
\* and what it is about to write over is not a decision.
LockInv ==
    /\ \A w \in Workers : wpc[w] # "idle" =>
           jobState[wpost[w]] = "active" /\ jobOwner[wpost[w]] = w
    /\ \A w \in Workers : wpc[w] \in Holding =>
           status[wpost[w]] \notin {"PROCESSED", "FAILED"} /\ matchEvents[wpost[w]] = 0
    /\ \A w \in Workers : wpc[w] = "notify" =>
           status[wpost[w]] \in {"PROCESSED", "DELETED"} /\ matchEvents[wpost[w]] = 0
    /\ \A p \in Posts : matchEvents[p] # 0 =>
           status[p] \in {"PROCESSED", "DELETED"} /\ matchEvents[p] = 1

\* The boot-time reset is over and no restart brings it back.
NoBootReset == BootTickDone /\ "crash" \notin Faults

\* With NoBootReset: the row itself is the lock.  Whoever moved it to PROCESSING is
\* the only one past the claim, even when Redis hands the job out twice.
RowInv ==
    /\ firstReconcileDone /\ tpc \notin {"reset", "resetActive", "resetWrite"}
    /\ \A w \in Workers : wpc[w] \in Holding =>
           status[wpost[w]] \in {"PROCESSING", "DELETED"} /\ matchEvents[wpost[w]] = 0
    /\ \A w \in Workers : wpc[w] = "notify" =>
           status[wpost[w]] \in {"PROCESSED", "DELETED"} /\ matchEvents[wpost[w]] = 0
    /\ \A w, v \in Workers :
           (w # v /\ wpc[w] \in Holding \cup {"notify"} /\ wpc[v] \in Holding \cup {"notify"})
              => wpost[w] # wpost[v]
    /\ \A p \in Posts : matchEvents[p] # 0 =>
           status[p] \in {"PROCESSED", "DELETED"} /\ matchEvents[p] = 1

-----------------------------------------------------------------------------
(* The rows as an operator sees them: PostLifecycle.                        *)

Busy(p, pcs) == \E w \in Workers : wpost[w] = p /\ wpc[w] \in pcs
Work == [p \in Posts |-> IF Busy(p, Holding) THEN "analysing"
                         ELSE IF Busy(p, {"notify"}) THEN "announcing" ELSE "none"]

Life == INSTANCE PostLifecycle WITH work <- Work, announced <- matchEvents

\* All of it together, the interleavings of slots, jobs, ticks and calls, is no more
\* than the plain life cycle of each row.
ImplementsLifecycle == Life!Spec

-----------------------------------------------------------------------------
(* What comments of the code say and the code does not do: each is the     *)
(* property of one run that TLC must refute.                               *)

\* JobPostQueueService: "Boot-time recovery (PROCESSING -> NEW, then enqueue every
\* NEW) is now owned by VibeIngestScheduler.queueReconcileTick": an analysis cut
\* short by a restart is taken up again.
InterruptedPostRecovered ==
    \A p \in Posts : status[p] = "PROCESSING" ~> Decided(p)

\* enableAnalysis, "Mid-call ingest": the lock makes a row land as PENDING once the
\* flag is on, so BACKLOG rows exist only while analysis is off.
BacklogMeansPaused ==
    \A p \in Posts : (status[p] = "NEW" /\ enqueueState[p] = "BACKLOG") => analysisEnabled = "off"
=============================================================================

----------------------------- MODULE VibeIngest -----------------------------
(***************************************************************************)
(* The webhook inbox: captureJobPost stores each delivery as a              *)
(* JobPostIngestEvent, and inboxDrainTick turns RECEIVED events into        *)
(* JobPost rows.  Postings come more than once, under the same or under     *)
(* different idempotency keys; ticks overlap once the guard is stale.       *)
(*                                                                          *)
(* A database error inside commitLink makes the event FAILED, and nothing   *)
(* reads FAILED events again; the fault "dbError" is that.                  *)
(***************************************************************************)
EXTENDS Naturals, FiniteSets

CONSTANTS
    Keys,           \* idempotencyKeys; each names at most one event row
    Jobs,           \* job.id of a payload, the providerJobId
    NoJob,          \* a payload that does not map, and a null jobPostId
    NoKey,          \* what an idle request or tick works on
    Requests,       \* BOUND: the HTTP deliveries; a sender's retry is one more
    Drains,         \* inboxDrainTicks that may run at the same time
    Free,           \* drainingSince = null
    Faults,         \* which faults may happen
    MaxFaults,      \* BOUND: how many of them
    MaxRemovals     \* BOUND: how many rows operators delete

ASSUME IngestAssumption ==
    /\ NoJob \notin Jobs
    /\ NoKey \notin Keys
    /\ Free \notin Drains /\ IsFiniteSet(Drains)
    /\ Faults \subseteq {"crash", "dbError"}
    /\ MaxFaults \in Nat
    /\ MaxRemovals \in Nat

VARIABLES
    \* Postgres
    event,              \* JobPostIngestEvent.status, "none" before the insert
    payload,            \* the job the stored payload maps to
    jobPostId,          \* the event's link, set to null when the row is deleted
    posts,              \* the providerJobIds that have a JobPost row
    created, removed,   \* how often a row was inserted and deleted per job
    \* what the callers saw
    accepted,           \* answers {duplicate: false} per key
    pushed,             \* hot-path pushes to the queue per job
    \* the process
    rpc, rkey, rjob,    \* per request
    drainingSince,      \* the tick that last claimed the guard, or Free
    fresh,              \* the ticks started within the last STALE_GUARD_MS
    dpc, drows, devent, dseen,          \* per tick
    removals, faults,   \* budgets left
    spent               \* the kinds of faults that have happened

inboxVars == <<event, payload, jobPostId, accepted>>
postVars  == <<posts, created, removed, pushed, removals>>
reqVars   == <<rpc, rkey, rjob>>
guardVars == <<drainingSince, fresh>>
drainVars == <<dpc, drows, devent, dseen>>
faultVars == <<faults, spent>>
vars == <<inboxVars, postVars, reqVars, guardVars, drainVars, faultVars>>

DrainPcs == {"idle", "select", "loop", "skip", "read", "commit", "push", "failed"}

Fault(f)    == f \in Faults /\ faults > 0 /\ faults' = faults - 1 /\ spent' = spent \cup {f}
Goto(d, pc) == dpc' = [dpc EXCEPT ![d] = pc] /\ UNCHANGED <<drows, devent, dseen>>

\* The id findUnique(providerJobId) returns: a row that is inserted anew has a new one.
RowOf(j) == IF j \in posts THEN created[j] ELSE 0

\* processOne returns or throws; drainReceived goes on with its next row.
OneDone(d) ==
    /\ dpc' = [dpc EXCEPT ![d] = "loop"]
    /\ devent' = [devent EXCEPT ![d] = NoKey]
    /\ dseen' = [dseen EXCEPT ![d] = 0]
    /\ UNCHANGED drows

\* captureJobPost answers.
Answer(r) ==
    /\ rpc' = [rpc EXCEPT ![r] = "done"]
    /\ rkey' = [rkey EXCEPT ![r] = NoKey]
    /\ rjob' = [rjob EXCEPT ![r] = NoJob]

Init ==
    /\ event = [k \in Keys |-> "none"]
    /\ payload = [k \in Keys |-> NoJob]
    /\ jobPostId = [k \in Keys |-> NoJob]
    /\ posts = {}
    /\ created = [j \in Jobs |-> 0] /\ removed = [j \in Jobs |-> 0]
    /\ accepted = [k \in Keys |-> 0]
    /\ pushed = [j \in Jobs |-> 0]
    /\ rpc = [r \in Requests |-> "idle"]
    /\ rkey = [r \in Requests |-> NoKey] /\ rjob = [r \in Requests |-> NoJob]
    /\ drainingSince = Free /\ fresh = {}
    /\ dpc = [d \in Drains |-> "idle"]
    /\ drows = [d \in Drains |-> {}]
    /\ devent = [d \in Drains |-> NoKey] /\ dseen = [d \in Drains |-> 0]
    /\ removals = MaxRemovals /\ faults = MaxFaults /\ spent = {}

-----------------------------------------------------------------------------
(* captureJobPost.  A key that is found ends the call as a duplicate.      *)
CaptureFind(r, k, j) ==
    /\ rpc[r] = "idle" /\ event[k] = "none"
    /\ rpc' = [rpc EXCEPT ![r] = "create"]
    /\ rkey' = [rkey EXCEPT ![r] = k] /\ rjob' = [rjob EXCEPT ![r] = j]
    /\ UNCHANGED <<inboxVars, postVars, guardVars, drainVars, faultVars>>

\* MUTANT: the insert overwrites the row of a concurrent delivery.
CaptureCreateUpsert(r) ==
    /\ rpc[r] = "create"
    /\ Answer(r)
    /\ event' = [event EXCEPT ![rkey[r]] = "RECEIVED"]
    /\ payload' = [payload EXCEPT ![rkey[r]] = rjob[r]]
    /\ accepted' = [accepted EXCEPT ![rkey[r]] = @ + 1]
    /\ UNCHANGED <<jobPostId, postVars, guardVars, drainVars, faultVars>>

\* The insert; on the unique key's violation the winner is read back instead.
CaptureCreate(r) ==
    /\ rpc[r] = "create"
    /\ Answer(r)
    /\ \/ /\ event[rkey[r]] = "none"
          /\ event' = [event EXCEPT ![rkey[r]] = "RECEIVED"]
          /\ payload' = [payload EXCEPT ![rkey[r]] = rjob[r]]
          /\ accepted' = [accepted EXCEPT ![rkey[r]] = @ + 1]
          /\ UNCHANGED faultVars
       \/ event[rkey[r]] # "none" /\ UNCHANGED <<event, payload, accepted, faultVars>>
       \/ Fault("dbError") /\ UNCHANGED <<event, payload, accepted>>
    /\ UNCHANGED <<jobPostId, postVars, guardVars, drainVars>>

-----------------------------------------------------------------------------
(* inboxDrainTick and drainReceived.                                        *)

\* claimGuard: the guard is free, or whoever holds it started too long ago.
TickStart(d) ==
    /\ dpc[d] = "idle"
    /\ drainingSince = Free \/ drainingSince \notin fresh
    /\ drainingSince' = d
    /\ fresh' = fresh \cup {d}
    /\ Goto(d, "select")
    /\ UNCHANGED <<inboxVars, postVars, reqVars, faultVars>>

\* The finally block clears the guard, whoever holds it by now.
TickEnds(d) ==
    /\ dpc' = [dpc EXCEPT ![d] = "idle"]
    /\ drainingSince' = Free
    /\ fresh' = fresh \ {d}

DrainSelect(d) ==
    /\ dpc[d] = "select"
    /\ \/ /\ drows' = [drows EXCEPT ![d] = {k \in Keys : event[k] = "RECEIVED"}]
          /\ dpc' = [dpc EXCEPT ![d] = "loop"]
          /\ UNCHANGED <<guardVars, faultVars>>
       \/ Fault("dbError") /\ TickEnds(d) /\ UNCHANGED drows
    /\ UNCHANGED <<inboxVars, postVars, reqVars, devent, dseen>>

\* MUTANT: the mapper's null is not looked at.
DrainNextUnmapped(d, k) ==
    /\ dpc[d] = "loop" /\ k \in drows[d]
    /\ drows' = [drows EXCEPT ![d] = @ \ {k}]
    /\ devent' = [devent EXCEPT ![d] = k]
    /\ dpc' = [dpc EXCEPT ![d] = "read"]
    /\ UNCHANGED <<inboxVars, postVars, reqVars, guardVars, dseen, faultVars>>

\* The next row of the snapshot; mapVibeJobPayload decides where processOne goes.
DrainNext(d, k) ==
    /\ dpc[d] = "loop" /\ k \in drows[d]
    /\ drows' = [drows EXCEPT ![d] = @ \ {k}]
    /\ devent' = [devent EXCEPT ![d] = k]
    /\ dpc' = [dpc EXCEPT ![d] = IF payload[k] = NoJob THEN "skip" ELSE "read"]
    /\ UNCHANGED <<inboxVars, postVars, reqVars, guardVars, dseen, faultVars>>

TickEnd(d) ==
    /\ dpc[d] = "loop" /\ drows[d] = {}
    /\ TickEnds(d)
    /\ UNCHANGED <<inboxVars, postVars, reqVars, drows, devent, dseen, faultVars>>

\* markSkipped / markFailed: an update by id, whatever the event has become.
Mark(d, pc, st) ==
    /\ dpc[d] = pc
    /\ OneDone(d)
    /\ \/ event' = [event EXCEPT ![devent[d]] = st] /\ UNCHANGED faultVars
       \/ Fault("dbError") /\ UNCHANGED event
    /\ UNCHANGED <<payload, jobPostId, accepted, postVars, reqVars, guardVars>>
markSkipped(d) == Mark(d, "skip", "SKIPPED")
markFailed(d)  == Mark(d, "failed", "FAILED")

\* commitLink, first half: look the posting up.
LinkRead(d) ==
    /\ dpc[d] = "read"
    /\ \/ /\ dseen' = [dseen EXCEPT ![d] = RowOf(payload[devent[d]])]
          /\ dpc' = [dpc EXCEPT ![d] = "commit"]
          /\ UNCHANGED <<drows, devent, faultVars>>
       \/ Fault("dbError") /\ Goto(d, "failed")
    /\ UNCHANGED <<inboxVars, postVars, reqVars, guardVars>>

\* The transaction's writes: insert unless found, link, mark.
WriteLink(d, k, j) ==
    /\ event' = [event EXCEPT ![k] = "PROCESSED"]
    /\ jobPostId' = [jobPostId EXCEPT ![k] = j]
    /\ posts' = posts \cup {j}
    /\ created' = [created EXCEPT ![j] = IF dseen[d] = 0 THEN @ + 1 ELSE @]

\* MUTANT: a posting that was there already counts as just created.
LinkCommitRepush(d) ==
    /\ dpc[d] = "commit" /\ dseen[d] = RowOf(payload[devent[d]])
    /\ WriteLink(d, devent[d], payload[devent[d]])
    /\ Goto(d, "push")
    /\ UNCHANGED <<payload, accepted, removed, pushed, removals, reqVars, guardVars, faultVars>>

\* MUTANT: the insert without the unique key on providerJobId.
LinkCommitNoUnique(d) ==
    /\ dpc[d] = "commit"
    /\ WriteLink(d, devent[d], payload[devent[d]])
    /\ IF dseen[d] = 0 THEN Goto(d, "push") ELSE OneDone(d)
    /\ UNCHANGED <<payload, accepted, removed, pushed, removals, reqVars, guardVars, faultVars>>

\* MUTANT: the event is marked outside the transaction, which then fails.
LinkCommitEager(d) ==
    /\ dpc[d] = "commit"
    /\ event' = [event EXCEPT ![devent[d]] = "PROCESSED"]
    /\ Goto(d, "failed")
    /\ UNCHANGED <<payload, jobPostId, accepted, postVars, reqVars, guardVars, faultVars>>

\* commitLink, second half, up to the commit.  The insert fails when another
\* transaction has put the row there, the link when an operator has deleted the row;
\* then nothing is written.
LinkCommit(d) ==
    LET k == devent[d]
        j == payload[k]
        ok == dseen[d] = RowOf(j)
    IN /\ dpc[d] = "commit"
       /\ \/ /\ ok
             /\ WriteLink(d, k, j)
             /\ IF dseen[d] = 0 THEN Goto(d, "push") ELSE OneDone(d)
             /\ UNCHANGED faultVars
          \/ ~ok /\ Goto(d, "failed") /\ UNCHANGED <<event, jobPostId, posts, created, faultVars>>
          \/ Fault("dbError") /\ Goto(d, "failed") /\ UNCHANGED <<event, jobPostId, posts, created>>
       /\ UNCHANGED <<payload, accepted, removed, pushed, removals, reqVars, guardVars>>

\* The hot path after the commit: pushed, or left to the reconcile tick because the
\* row is BACKLOG or Redis is down.
Push(d) ==
    /\ dpc[d] = "push"
    /\ \/ pushed' = [pushed EXCEPT ![payload[devent[d]]] = @ + 1]
       \/ UNCHANGED pushed
    /\ OneDone(d)
    /\ UNCHANGED <<inboxVars, posts, created, removed, removals, reqVars, guardVars, faultVars>>

DrainStep(d) ==
    \/ DrainSelect(d) \/ (\E k \in Keys : DrainNext(d, k)) \/ TickEnd(d)
    \/ markSkipped(d) \/ markFailed(d) \/ LinkRead(d) \/ LinkCommit(d) \/ Push(d)

-----------------------------------------------------------------------------
(* The clock, operators, faults.                                            *)

\* A running tick is now older than STALE_GUARD_MS.
TickAges(d) ==
    /\ d \in fresh
    /\ fresh' = fresh \ {d}
    /\ UNCHANGED <<inboxVars, postVars, reqVars, drainingSince, drainVars, faultVars>>

\* MUTANT: the relation does not clear the link.
RemoveKeepsLink(j) ==
    /\ j \in posts /\ removals > 0
    /\ posts' = posts \ {j}
    /\ removed' = [removed EXCEPT ![j] = @ + 1]
    /\ removals' = removals - 1
    /\ UNCHANGED <<inboxVars, created, pushed, reqVars, guardVars, drainVars, faultVars>>

\* A row is deleted; the events linked to it lose their link.
Remove(j) ==
    /\ j \in posts /\ removals > 0
    /\ posts' = posts \ {j}
    /\ removed' = [removed EXCEPT ![j] = @ + 1]
    /\ removals' = removals - 1
    /\ jobPostId' = [k \in Keys |-> IF jobPostId[k] = j THEN NoJob ELSE jobPostId[k]]
    /\ UNCHANGED <<event, payload, accepted, created, pushed, reqVars, guardVars, drainVars, faultVars>>

Crash ==
    /\ Fault("crash")
    /\ rpc' = [r \in Requests |-> IF rpc[r] = "create" THEN "idle" ELSE rpc[r]]
    /\ rkey' = [r \in Requests |-> NoKey] /\ rjob' = [r \in Requests |-> NoJob]
    /\ dpc' = [d \in Drains |-> "idle"] /\ drows' = [d \in Drains |-> {}]
    /\ devent' = [d \in Drains |-> NoKey] /\ dseen' = [d \in Drains |-> 0]
    /\ drainingSince' = Free /\ fresh' = {}
    /\ UNCHANGED <<inboxVars, postVars>>

Next ==
    \/ \E r \in Requests : \/ \E k \in Keys, j \in Jobs \cup {NoJob} : CaptureFind(r, k, j)
                           \/ CaptureCreate(r)
    \/ \E d \in Drains : TickStart(d) \/ DrainStep(d) \/ TickAges(d)
    \/ \E j \in Jobs : Remove(j)
    \/ Crash

Spec == Init /\ [][Next]_vars

\* Cron keeps firing and awaits return.  Nothing is owed by the senders.
Fairness ==
    /\ WF_vars(\E d \in Drains : TickStart(d))
    /\ \A d \in Drains : WF_vars(DrainStep(d))

FairSpec == Spec /\ Fairness

-----------------------------------------------------------------------------
(* Properties.                                                              *)

TypeOK ==
    /\ event \in [Keys -> {"none", "RECEIVED", "PROCESSED", "SKIPPED", "FAILED"}]
    /\ payload \in [Keys -> Jobs \cup {NoJob}]
    /\ jobPostId \in [Keys -> Jobs \cup {NoJob}]
    /\ posts \in SUBSET Jobs
    /\ created \in [Jobs -> Nat] /\ removed \in [Jobs -> Nat]
    /\ accepted \in [Keys -> Nat] /\ pushed \in [Jobs -> Nat]
    /\ rpc \in [Requests -> {"idle", "create", "done"}]
    /\ rkey \in [Requests -> Keys \cup {NoKey}] /\ rjob \in [Requests -> Jobs \cup {NoJob}]
    /\ drainingSince \in Drains \cup {Free} /\ fresh \in SUBSET Drains
    /\ dpc \in [Drains -> DrainPcs]
    /\ drows \in [Drains -> SUBSET Keys] /\ devent \in [Drains -> Keys \cup {NoKey}]
    /\ dseen \in [Drains -> Nat]
    /\ \A r \in Requests : rpc[r] = "create" => rkey[r] \in Keys
    /\ \A d \in Drains : dpc[d] = "skip" => devent[d] \in Keys
    /\ \A d \in Drains : dpc[d] \in {"read", "commit", "push", "failed"} =>
           devent[d] \in Keys /\ payload[devent[d]] \in Jobs
    /\ removals \in Nat /\ faults \in Nat /\ spent \in SUBSET Faults

\* Of all deliveries under one key, exactly one may be told that it is not a
\* duplicate, however they race (captureJobPost: "the unique index on
\* idempotencyKey serialises us").
AcceptedOnce == \A k \in Keys : accepted[k] <= 1

\* "New JobPosts are enqueued once": every push belongs to an insert of its own, and
\* ticks that work on the same event or posting do not push twice.
PushedOncePerRow ==
    \A j \in Jobs : pushed[j] <= created[j]

\* "One providerJobId -> one JobPost": inserts and deletions alternate, and the row
\* is there exactly between the two.
RowsAlternate ==
    \A j \in Jobs : created[j] = removed[j] + (IF j \in posts THEN 1 ELSE 0)

\* A link leads to the row of the event's own posting, never to another or to a
\* deleted one; an event that is done for good has had its row.
LinkSound ==
    \A k \in Keys :
        /\ jobPostId[k] # NoJob => jobPostId[k] = payload[k] /\ payload[k] \in posts
        /\ event[k] = "PROCESSED" => payload[k] \in Jobs /\ created[payload[k]] > 0

\* A stored event that maps to a posting gets its row, across crashes, overlapping
\* ticks and deletions; only a database error may leave it FAILED without one.
ReceivedGetsRow ==
    \A k \in Keys, j \in Jobs :
        (event[k] = "RECEIVED" /\ payload[k] = j)
            ~> created[j] > 0 \/ (event[k] = "FAILED" /\ "dbError" \in spent)

-----------------------------------------------------------------------------
\* "A duplicate delivery (same job.id) is a no-op on JobPost.  The ingest event is
\* still linked to the existing JobPost and marked PROCESSED": an event whose row
\* exists is not left FAILED.
DuplicateIsLinked ==
    \A k \in Keys : event[k] = "FAILED" => payload[k] \notin posts
=============================================================================

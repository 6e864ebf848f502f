------------------------ MODULE NotificationDelivery ------------------------
(***************************************************************************)
(* From a NotificationEvent to a message in a Discord channel: createEvent  *)
(* stores the event and queues a job, a worker slot records a delivery row  *)
(* and sends, BullMQ retries, and recoverOrphans re-dispatches events that  *)
(* have no delivery row.  Discord itself has no idempotency key: `posted`   *)
(* counts the messages a reader of the channel sees.                        *)
(***************************************************************************)
EXTENDS Naturals

CONSTANTS
    Events,         \* the event ids
    Slots,          \* the slots of the BullMQ Worker (concurrency: 2)
    NoSlot,         \* owner of a job that no live slot holds
    NoEvent,        \* what an idle slot works on
    MaxAttempts,    \* `attempts` of queue.add (3)
    Faults,         \* which faults may happen
    MaxFaults,      \* BOUND: how many of them
    MaxEdits        \* BOUND: how often users switch alerts or delete a call

ASSUME NotificationAssumption ==
    /\ NoSlot \notin Slots
    /\ NoEvent \notin Events
    /\ MaxAttempts \in Nat \ {0}
    /\ Faults \subseteq {"crash", "lockLoss", "flush", "redisError", "dbError", "sendError", "lostAnswer"}
    /\ MaxFaults \in Nat
    /\ MaxEdits \in Nat

VARIABLES
    \* Postgres
    stored,             \* the events whose row exists
    matches,            \* those of type JOB_POST_MATCH; the others are call and client events
    old,                \* those older than ORPHAN_AGE_MS
    delivery,           \* NotificationDelivery.status, "none" without a row
    gone,               \* call and client events whose subject was deleted
    alerts,             \* the alert settings let a match through
    \* Redis
    job, made, stalls, owner,
    \* Discord
    posted,             \* messages per event
    \* the process
    hot,                \* createEvent calls before their dispatch
    sweeping, orphans,  \* recoverOrphans and what it has still to dispatch
    spc, sevent, sseen, \* per slot; sseen is what findFirst returned
    edits, faults,      \* budgets left
    spent               \* the kinds of faults that have happened

rowVars   == <<stored, matches, old, delivery>>
userVars  == <<gone, alerts, edits>>
jobVars   == <<job, made, stalls, owner>>
sweepVars == <<hot, sweeping, orphans>>
slotVars  == <<spc, sevent, sseen>>
faultVars == <<faults, spent>>
vars == <<rowVars, userVars, jobVars, posted, sweepVars, slotVars, faultVars>>

SlotPcs   == {"idle", "load", "find", "mark", "send", "confirm", "catch", "lost", "complete", "fail"}
RedisLosses == {"lockLoss", "flush"}
Deliveries == {"none", "PENDING", "FAILED", "SENT"}
Flag      == {"on", "off"}
JobStates == {"absent", "waiting", "delayed", "active", "failed"}

Fault(f)    == f \in Faults /\ faults > 0 /\ faults' = faults - 1 /\ spent' = spent \cup {f}
Goto(s, pc) == spc' = [spc EXCEPT ![s] = pc] /\ UNCHANGED <<sevent, sseen>>
Set(e, st)  == delivery' = [delivery EXCEPT ![e] = st]

FreshJob(e, st) ==
    /\ job' = [job EXCEPT ![e] = st]
    /\ made' = [made EXCEPT ![e] = 0]
    /\ stalls' = [stalls EXCEPT ![e] = 0]
    /\ owner' = [owner EXCEPT ![e] = NoSlot]

Init ==
    /\ stored = {} /\ matches = {} /\ old = {}
    /\ delivery = [e \in Events |-> "none"]
    /\ gone = {} /\ alerts \in Flag
    /\ job = [e \in Events |-> "absent"]
    /\ made = [e \in Events |-> 0] /\ stalls = [e \in Events |-> 0]
    /\ owner = [e \in Events |-> NoSlot]
    /\ posted = [e \in Events |-> 0]
    /\ hot = {} /\ sweeping = "off" /\ orphans = {}
    /\ spc = [s \in Slots |-> "idle"]
    /\ sevent = [s \in Slots |-> NoEvent] /\ sseen = [s \in Slots |-> "none"]
    /\ edits = MaxEdits /\ faults = MaxFaults /\ spent = {}

-----------------------------------------------------------------------------
(* createEvent, dispatch and recoverOrphans.                                *)

\* MUTANT: createEvent does not wait for its insert.
CreateUnawaited(e) ==
    /\ e \notin stored
    /\ hot' = hot \cup {e}
    /\ UNCHANGED <<rowVars, userVars, jobVars, posted, sweeping, orphans, slotVars, faultVars>>

Create(e) ==
    /\ e \notin stored
    /\ stored' = stored \cup {e} /\ hot' = hot \cup {e}
    /\ matches' \in {matches, matches \cup {e}}
    /\ UNCHANGED <<old, delivery, userVars, jobVars, posted, sweeping, orphans, slotVars, faultVars>>

\* dispatch: the rule of the event's type, then queue.add under the event's own id, a
\* no-op while a job has that id.  A failed one is logged.
dispatch(e) ==
    \/ /\ e \notin matches \/ alerts = "on"
       /\ job[e] = "absent" /\ FreshJob(e, "waiting")
       /\ UNCHANGED faultVars
    \/ /\ (e \in matches /\ alerts = "off") \/ job[e] # "absent"
       /\ UNCHANGED <<jobVars, faultVars>>
    \/ Fault("redisError") /\ UNCHANGED jobVars

HotDispatch(e) ==
    /\ e \in hot
    /\ hot' = hot \ {e}
    /\ dispatch(e)
    /\ UNCHANGED <<rowVars, userVars, posted, sweeping, orphans, slotVars>>

\* MUTANT: the query forgets the events of the last minutes' outages.
SweepStartNone ==
    /\ sweeping = "off"
    /\ sweeping' = "on" /\ orphans' = {}
    /\ UNCHANGED <<rowVars, userVars, jobVars, posted, hot, slotVars, faultVars>>

\* recoverOrphans: the query ...
SweepStart ==
    /\ sweeping = "off"
    /\ sweeping' = "on"
    /\ orphans' = {e \in old : delivery[e] = "none"}
    /\ UNCHANGED <<rowVars, userVars, jobVars, posted, hot, slotVars, faultVars>>

\* ... its dispatches ...
SweepDispatch(e) ==
    /\ sweeping = "on" /\ e \in orphans
    /\ orphans' = orphans \ {e}
    /\ dispatch(e)
    /\ UNCHANGED <<rowVars, userVars, posted, hot, sweeping, slotVars>>

\* ... and the finally block.
SweepEnd ==
    /\ sweeping = "on" /\ orphans = {}
    /\ sweeping' = "off"
    /\ UNCHANGED <<rowVars, userVars, jobVars, posted, hot, orphans, slotVars, faultVars>>

SweepStep == SweepEnd \/ \E e \in Events : SweepDispatch(e)

-----------------------------------------------------------------------------
(* NotificationProcessorService.                                            *)

SlotUnchanged == UNCHANGED <<stored, matches, old, userVars, sweepVars>>

Pick(s, e) ==
    /\ spc[s] = "idle" /\ job[e] = "waiting"
    /\ job' = [job EXCEPT ![e] = "active"]
    /\ owner' = [owner EXCEPT ![e] = s]
    /\ spc' = [spc EXCEPT ![s] = "load"]
    /\ sevent' = [sevent EXCEPT ![s] = e]
    /\ SlotUnchanged /\ UNCHANGED <<sseen, delivery, posted, made, stalls, faultVars>>

\* process and deliverDiscord: load the event, build the embed.  Without one (the call
\* is gone) the job completes and leaves no delivery row.
Load(s) ==
    /\ spc[s] = "load"
    /\ \/ Goto(s, IF sevent[s] \in gone THEN "complete" ELSE "find") /\ UNCHANGED faultVars
       \/ Fault("dbError") /\ Goto(s, "fail")
    /\ SlotUnchanged /\ UNCHANGED <<delivery, posted, jobVars>>

\* MUTANT: a delivery that was SENT is sent again.
FindAlways(s) ==
    /\ spc[s] = "find"
    /\ spc' = [spc EXCEPT ![s] = "mark"]
    /\ sseen' = [sseen EXCEPT ![s] = delivery[sevent[s]]]
    /\ SlotUnchanged /\ UNCHANGED <<sevent, faultVars, delivery, posted, jobVars>>

\* recordAndSend: a prior SENT ends the job ...
Find(s) ==
    /\ spc[s] = "find"
    /\ LET st == delivery[sevent[s]] IN
       \/ st = "SENT" /\ Goto(s, "complete") /\ UNCHANGED faultVars
       \/ /\ st # "SENT"
          /\ spc' = [spc EXCEPT ![s] = "mark"]
          /\ sseen' = [sseen EXCEPT ![s] = st]
          /\ UNCHANGED <<sevent, faultVars>>
       \/ Fault("dbError") /\ Goto(s, "fail")
    /\ SlotUnchanged /\ UNCHANGED <<delivery, posted, jobVars>>

\* ... else PENDING, by update or by insert, whose answer may be lost; P2002 on the insert
\* ends the job ...
MarkPending(s) ==
    /\ spc[s] = "mark"
    /\ sseen' = [sseen EXCEPT ![s] = "none"]
    /\ \/ /\ sseen[s] # "none" \/ delivery[sevent[s]] = "none"
          /\ Set(sevent[s], "PENDING")
          /\ \/ spc' = [spc EXCEPT ![s] = "send"] /\ UNCHANGED faultVars
             \/ Fault("lostAnswer") /\ spc' = [spc EXCEPT ![s] = "fail"]
       \/ /\ sseen[s] = "none" /\ delivery[sevent[s]] # "none"
          /\ spc' = [spc EXCEPT ![s] = "complete"] /\ UNCHANGED <<delivery, faultVars>>
       \/ Fault("dbError") /\ spc' = [spc EXCEPT ![s] = "fail"] /\ UNCHANGED delivery
    /\ SlotUnchanged /\ UNCHANGED <<sevent, posted, jobVars>>

\* MUTANT: the status is written before the message is sent.
SendUnawaited(s) ==
    /\ spc[s] = "send"
    /\ Set(sevent[s], "SENT") /\ Goto(s, "confirm")
    /\ SlotUnchanged /\ UNCHANGED <<posted, jobVars, faultVars>>

\* ... the message, whose answer may be an error or may be lost ...
Send(s) ==
    /\ spc[s] = "send"
    /\ \/ posted' = [posted EXCEPT ![sevent[s]] = @ + 1] /\ Goto(s, "confirm") /\ UNCHANGED faultVars
       \/ Fault("sendError") /\ Goto(s, "catch") /\ UNCHANGED posted
       \/ /\ Fault("lostAnswer") /\ Goto(s, "catch")
          /\ posted' = [posted EXCEPT ![sevent[s]] = @ + 1]
    /\ SlotUnchanged /\ UNCHANGED <<delivery, jobVars>>

\* ... then SENT.  An error of that update counts as an error of the sender, even when the
\* update was committed and only its answer was lost.
Confirm(s) ==
    /\ spc[s] = "confirm"
    /\ \/ Set(sevent[s], "SENT") /\ Goto(s, "complete") /\ UNCHANGED faultVars
       \/ Fault("dbError") /\ Goto(s, "catch") /\ UNCHANGED delivery
       \/ Fault("lostAnswer") /\ Set(sevent[s], "SENT") /\ Goto(s, "lost")
    /\ SlotUnchanged /\ UNCHANGED <<posted, jobVars>>

\* The catch block; "lost" is the one whose delivery says SENT.
CatchError(s) ==
    /\ spc[s] \in {"catch", "lost"}
    /\ Goto(s, "fail")
    /\ \/ Set(sevent[s], "FAILED") /\ UNCHANGED faultVars
       \/ Fault("dbError") /\ UNCHANGED delivery
    /\ SlotUnchanged /\ UNCHANGED <<posted, jobVars>>

\* BullMQ settles the job if the slot still holds its lock: removeOnComplete drops a
\* completed one, removeOnFail keeps a failed one and with it the id.
Settle(s) ==
    /\ spc[s] \in {"complete", "fail"}
    /\ spc' = [spc EXCEPT ![s] = "idle"]
    /\ sevent' = [sevent EXCEPT ![s] = NoEvent]
    /\ LET e == sevent[s] IN
       \/ /\ owner[e] = s /\ spc[s] = "complete" /\ FreshJob(e, "absent")
       \/ /\ owner[e] = s /\ spc[s] = "fail"
          /\ owner' = [owner EXCEPT ![e] = NoSlot]
          /\ made' = [made EXCEPT ![e] = @ + 1]
          /\ job' = [job EXCEPT ![e] = IF made[e] + 1 < MaxAttempts THEN "delayed" ELSE "failed"]
          /\ UNCHANGED stalls
       \/ owner[e] # s /\ UNCHANGED jobVars
    /\ SlotUnchanged /\ UNCHANGED <<sseen, delivery, posted, faultVars>>

SlotStep(s) ==
    \/ Load(s) \/ Find(s) \/ MarkPending(s) \/ Send(s) \/ Confirm(s) \/ CatchError(s) \/ Settle(s)

-----------------------------------------------------------------------------
(* BullMQ, the clock, users, faults.                                        *)

Promote(e) ==
    /\ job[e] = "delayed" /\ job' = [job EXCEPT ![e] = "waiting"]
    /\ UNCHANGED <<rowVars, userVars, made, stalls, owner, posted, sweepVars, slotVars, faultVars>>

Stalled(e) ==
    /\ job[e] = "active" /\ owner[e] = NoSlot
    /\ job' = [job EXCEPT ![e] = IF stalls[e] = 0 THEN "waiting" ELSE "failed"]
    /\ stalls' = [stalls EXCEPT ![e] = 1]
    /\ UNCHANGED <<rowVars, userVars, made, owner, posted, sweepVars, slotVars, faultVars>>

Age(e) ==
    /\ e \in stored \ old /\ old' = old \cup {e}
    /\ UNCHANGED <<stored, matches, delivery, userVars, jobVars, posted, sweepVars, slotVars, faultVars>>

\* An administrator switches alerts (or moves the threshold), a user deletes a call.
Edit ==
    /\ edits > 0 /\ edits' = edits - 1
    /\ \/ alerts' \in Flag \ {alerts} /\ UNCHANGED gone
       \/ (\E e \in stored \ (matches \cup gone) : gone' = gone \cup {e}) /\ UNCHANGED alerts
    /\ UNCHANGED <<rowVars, jobVars, posted, sweepVars, slotVars, faultVars>>

LockLoss(e) ==
    /\ job[e] = "active" /\ owner[e] # NoSlot /\ Fault("lockLoss")
    /\ owner' = [owner EXCEPT ![e] = NoSlot]
    /\ UNCHANGED <<rowVars, userVars, job, made, stalls, posted, sweepVars, slotVars>>

RedisFlush ==
    /\ Fault("flush")
    /\ job' = [e \in Events |-> "absent"]
    /\ made' = [e \in Events |-> 0] /\ stalls' = [e \in Events |-> 0]
    /\ owner' = [e \in Events |-> NoSlot]
    /\ UNCHANGED <<rowVars, userVars, posted, sweepVars, slotVars>>

Crash ==
    /\ Fault("crash")
    /\ owner' = [e \in Events |-> NoSlot]
    /\ hot' = {} /\ sweeping' = "off" /\ orphans' = {}
    /\ spc' = [s \in Slots |-> "idle"]
    /\ sevent' = [s \in Slots |-> NoEvent] /\ sseen' = [s \in Slots |-> "none"]
    /\ UNCHANGED <<rowVars, userVars, job, made, stalls, posted>>

Next ==
    \/ \E e \in Events : \/ Create(e) \/ HotDispatch(e) \/ Promote(e) \/ Stalled(e)
                         \/ Age(e) \/ LockLoss(e)
    \/ SweepStart \/ SweepStep
    \/ \E s \in Slots : SlotStep(s) \/ \E e \in Events : Pick(s, e)
    \/ Edit \/ RedisFlush \/ Crash

Spec == Init /\ [][Next]_vars

\* The interval keeps firing, awaits return, events grow old, BullMQ serves its jobs.
Fairness ==
    /\ \A e \in Events : /\ WF_vars(HotDispatch(e)) /\ WF_vars(Age(e))
                         /\ WF_vars(Promote(e)) /\ WF_vars(Stalled(e))
                         /\ SF_vars(\E s \in Slots : Pick(s, e))
    /\ WF_vars(SweepStart) /\ WF_vars(SweepStep)
    /\ \A s \in Slots : WF_vars(SlotStep(s))

FairSpec == Spec /\ Fairness

-----------------------------------------------------------------------------
(* Properties.                                                              *)

TypeOK ==
    /\ stored \in SUBSET Events /\ matches \in SUBSET stored /\ old \in SUBSET stored
    /\ delivery \in [Events -> Deliveries]
    /\ gone \in SUBSET (stored \ matches) /\ alerts \in Flag
    /\ job \in [Events -> JobStates]
    /\ made \in [Events -> Nat] /\ stalls \in [Events -> {0, 1}]
    /\ owner \in [Events -> Slots \cup {NoSlot}]
    /\ posted \in [Events -> Nat]
    /\ hot \in SUBSET stored /\ sweeping \in Flag /\ orphans \in SUBSET stored
    /\ spc \in [Slots -> SlotPcs]
    /\ sevent \in [Slots -> Events \cup {NoEvent}]
    /\ \A s \in Slots : spc[s] # "idle" => sevent[s] \in Events
    /\ sseen \in [Slots -> Deliveries]
    /\ edits \in Nat /\ faults \in Nat /\ spent \in SUBSET Faults

\* A slot has written SENT and takes it for an error.
Unheard(e) == \E s \in Slots : spc[s] = "lost" /\ sevent[s] = e

\* A row that says SENT is never a lie: the message is in the channel.
SentMeansPosted == \A e \in Events : delivery[e] = "SENT" => posted[e] > 0

\* Every repetition of a message costs a fault of its own: orphan sweeps that race the
\* worker, retries and the reuse of job ids repeat nothing by themselves.  (A lost lock
\* or job may cost more than one: a second slot, and then a sweep that is still
\* dispatching orphans it read before, both find the delivery unsent again.)
RepeatCostsAFault ==
    spent \cap RedisLosses = {} => \A e \in Events : posted[e] + faults <= 1 + MaxFaults

\* "A prior SENT short-circuits": until Redis loses a lock or a job, nothing takes a
\* delivery out of SENT, but for the very attempt that wrote it and never heard so: its
\* catch block writes FAILED over it.
SentIsFinal ==
    [][\A e \in Events : (delivery[e] = "SENT" /\ ~Unheard(e) /\ spent \cap RedisLosses = {})
                             => delivery'[e] = "SENT"]_vars

\* What has become of an event is visible in the end: it was sent, or its job is kept
\* among the failed ones, or settings or a deletion made it unwanted.  Only when Redis
\* lost its job or its lock may a delivery stay unfinished without a job, because the
\* orphan query asks for events without a delivery row.
Settled(e) ==
    \/ delivery[e] = "SENT" \/ job[e] = "failed"
    \/ e \in matches /\ alerts = "off"
    \/ e \in gone
    \/ spent \cap RedisLosses # {} /\ delivery[e] # "none"
EventSettled == \A e \in Events : e \in stored ~> Settled(e)

-----------------------------------------------------------------------------
(* Why RepeatCostsAFault and SentIsFinal hold, until Redis loses something. *)

\* The message of e is out and its delivery does not count as failed.
Out(e) ==
    \/ delivery[e] = "SENT" /\ ~Unheard(e)
    \/ \E s \in Slots : spc[s] = "confirm" /\ sevent[s] = e

\* A busy slot holds the lock of its event's job, ...
HoldsLocks == \A s \in Slots : spc[s] # "idle" => job[sevent[s]] = "active" /\ owner[sevent[s]] = s

\* ... so what it has read of the delivery is still true when it writes; ...
ReadsHold ==
    \A s \in Slots : /\ spc[s] = "mark" => delivery[sevent[s]] # "SENT"
                     /\ spc[s] \in {"send", "confirm", "catch"} => delivery[sevent[s]] = "PENDING"
                     /\ spc[s] = "lost" => delivery[sevent[s]] = "SENT"

\* ... and every message that is out was paid for with a fault, but for one.
PaidFor == \A e \in Events : posted[e] + faults <= MaxFaults + (IF Out(e) THEN 1 ELSE 0)

LockInv == HoldsLocks /\ ReadsHold /\ PaidFor

DeliveryInv == spent \cap RedisLosses = {} => LockInv

-----------------------------------------------------------------------------
\* recordAndSend: "idempotent: a prior SENT short-circuits before the sender runs again
\* (no double send on a BullMQ retry)".
PostedAtMostOnce == \A e \in Events : posted[e] <= 1
=============================================================================

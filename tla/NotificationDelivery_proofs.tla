-------------------- MODULE NotificationDelivery_proofs --------------------
(***************************************************************************)
(* Proofs about NotificationDelivery, for any sets of events and slots, any *)
(* number of attempts and any budget of faults.                             *)
(***************************************************************************)
EXTENDS NotificationDelivery, TLAPS

\* What the proofs use of the constants.
LEMMA Bounds == MaxFaults \in Nat /\ MaxEdits \in Nat /\ NoSlot \notin Slots /\ NoEvent \notin Events
  BY NotificationAssumption

\* Every step of the service, the worker, BullMQ and the users keeps rows, jobs and
\* slots well typed; a busy slot always knows its event.
LEMMA TypeStep == TypeOK /\ [Next]_vars => TypeOK'
<1> SUFFICES ASSUME TypeOK, [Next]_vars PROVE TypeOK'
  OBVIOUS
<1> USE Bounds DEF TypeOK, SlotPcs, JobStates, Deliveries, Flag, rowVars, userVars, jobVars, sweepVars, slotVars, faultVars,
            Fault, FreshJob, Goto, Set, SlotUnchanged
<1>1. ASSUME NEW e \in Events, Create(e) PROVE TypeOK'
  BY <1>1 DEF Create
<1>2. ASSUME NEW e \in Events, HotDispatch(e) PROVE TypeOK'
  BY <1>2 DEF HotDispatch, dispatch
<1>3. CASE SweepStart
  BY <1>3 DEF SweepStart
<1>4. ASSUME NEW e \in Events, SweepDispatch(e) PROVE TypeOK'
  BY <1>4 DEF SweepDispatch, dispatch
<1>5. CASE SweepEnd
  BY <1>5 DEF SweepEnd
<1>6. ASSUME NEW s \in Slots, NEW e \in Events, Pick(s, e) PROVE TypeOK'
  BY <1>6 DEF Pick
<1>7. ASSUME NEW s \in Slots, SlotStep(s) PROVE TypeOK'
  <2>1. CASE Load(s)
    BY <2>1 DEF Load
  <2>2. CASE Find(s)
    BY <2>2 DEF Find
  <2>3. CASE MarkPending(s)
    BY <2>3 DEF MarkPending
  <2>4. CASE Send(s)
    BY <2>4 DEF Send
  <2>5. CASE Confirm(s)
    BY <2>5 DEF Confirm
  <2>6. CASE CatchError(s)
    BY <2>6 DEF CatchError
  <2>7. CASE Settle(s)
    BY <2>7 DEF Settle
  <2> QED
    BY <1>7, <2>1, <2>2, <2>3, <2>4, <2>5, <2>6, <2>7 DEF SlotStep
<1>8. ASSUME NEW e \in Events, Promote(e) \/ Stalled(e) \/ Age(e) \/ LockLoss(e) PROVE TypeOK'
  BY <1>8 DEF Promote, Stalled, Age, LockLoss
<1>9. CASE Edit
  BY <1>9 DEF Edit
<1>10. CASE RedisFlush
  BY <1>10 DEF RedisFlush
<1>11. CASE Crash
  BY <1>11 DEF Crash
<1>12. CASE UNCHANGED vars
  BY <1>12 DEF vars
<1> QED
  BY <1>1, <1>2, <1>3, <1>4, <1>5, <1>6, <1>7, <1>8, <1>9, <1>10, <1>11, <1>12 DEF Next, SweepStep

\* The state at boot is well typed.
LEMMA TypeInit == Init => TypeOK
  BY Bounds DEF Init, TypeOK, SlotPcs, JobStates, Deliveries, Flag

\* Type correctness of the notification service.
THEOREM TypeCorrect == Spec => []TypeOK
  BY TypeInit, TypeStep, PTL DEF Spec
-----------------------------------------------------------------------------
(* A row that says SENT is true.                                            *)

\* Strengthening of SentMeansPosted: a slot that is about to write SENT has posted.
Confirmed == \A s \in Slots : spc[s] = "confirm" => posted[sevent[s]] > 0

\* SENT is written only by a worker whose message was confirmed.
LEMMA SentStep == TypeOK /\ SentMeansPosted /\ Confirmed /\ [Next]_vars => SentMeansPosted' /\ Confirmed'
<1> SUFFICES ASSUME TypeOK, SentMeansPosted, Confirmed, [Next]_vars
             PROVE SentMeansPosted' /\ Confirmed'
  OBVIOUS
<1> USE DEF TypeOK, SentMeansPosted, Confirmed, SlotPcs, Deliveries, rowVars, userVars, jobVars, sweepVars,
            slotVars, faultVars, Fault, Goto, Set, SlotUnchanged
<1>1. ASSUME NEW s \in Slots, SlotStep(s) PROVE SentMeansPosted' /\ Confirmed'
  <2>1. CASE Load(s) \/ Find(s) \/ MarkPending(s)
    BY <2>1 DEF Load, Find, MarkPending
  <2>2. CASE Send(s)
    BY <2>2 DEF Send
  <2>3. CASE Confirm(s) \/ CatchError(s)
    BY <2>3 DEF Confirm, CatchError
  <2>4. CASE Settle(s)
    BY <2>4 DEF Settle
  <2> QED
    BY <1>1, <2>1, <2>2, <2>3, <2>4 DEF SlotStep
<1>2. ASSUME NEW s \in Slots, NEW e \in Events, Pick(s, e) PROVE SentMeansPosted' /\ Confirmed'
  BY <1>2 DEF Pick
<1>3. CASE Crash
  BY <1>3 DEF Crash
<1>4. CASE UNCHANGED <<delivery, posted, slotVars>>
  BY <1>4
<1> QED
  BY <1>1, <1>2, <1>3, <1>4
     DEF Next, SweepStep, vars, Create, HotDispatch, Promote, Stalled, Age, LockLoss, SweepStart, SweepDispatch,
         SweepEnd, Edit, RedisFlush

\* SentMeansPosted: no reader of the delivery row is ever told of a message that is not
\* in the channel, whatever fails and in whatever order.
THEOREM SentIsTrue == Spec => []SentMeansPosted
<1>1. Init => SentMeansPosted /\ Confirmed
  BY DEF Init, SentMeansPosted, Confirmed
<1> QED
  BY <1>1, TypeCorrect, SentStep, PTL DEF Spec

-----------------------------------------------------------------------------
(* What the lock of BullMQ is good for.                                     *)

\* Faults are never forgotten, and a loss in Redis is one for good.
LEMMA SpentGrows == [Next]_vars => spent \subseteq spent'
  BY DEF Next, vars, faultVars, rowVars, Fault, Create, HotDispatch, dispatch, Promote, Stalled, Age, LockLoss,
         SweepStart, SweepStep, SweepDispatch, SweepEnd, Edit, RedisFlush, Crash, Pick, SlotStep, Load, Find,
         MarkPending, Send, Confirm, CatchError, Settle

\* No two slots work on one event.
LEMMA OneSlot == HoldsLocks => \A s, t \in Slots : spc[s] # "idle" /\ spc[t] # "idle" /\ s # t => sevent[s] # sevent[t]
  BY DEF HoldsLocks

\* A step of a slot keeps the lock, the truth of what it has read, and the account.
LEMMA SlotKeeps == ASSUME TypeOK, LockInv, NEW s \in Slots, SlotStep(s) PROVE LockInv'
<1> USE Bounds, OneSlot DEF TypeOK, LockInv, HoldsLocks, ReadsHold, PaidFor, Out, Unheard, SlotPcs, Deliveries, rowVars, userVars, jobVars,
                   sweepVars, faultVars, Fault, Goto, Set, SlotUnchanged
<1>1. CASE Load(s) \/ Find(s)
  BY <1>1 DEF Load, Find
<1>2. CASE MarkPending(s)
  BY <1>2 DEF MarkPending
<1>3. CASE Send(s)
  BY <1>3 DEF Send
<1>4. CASE Confirm(s)
  BY <1>4 DEF Confirm
<1>5. CASE CatchError(s)
  BY <1>5 DEF CatchError
<1>6. CASE Settle(s)
  BY <1>6 DEF Settle, FreshJob
<1> QED
  BY <1>1, <1>2, <1>3, <1>4, <1>5, <1>6 DEF SlotStep

\* BullMQ hands out a job only when no slot holds it.
LEMMA PickKeeps == ASSUME TypeOK, LockInv, NEW s \in Slots, NEW e \in Events, Pick(s, e) PROVE LockInv'
  BY Bounds DEF TypeOK, LockInv, HoldsLocks, ReadsHold, PaidFor, Out, Unheard, SlotPcs, Deliveries, Pick, SlotUnchanged, rowVars, userVars,
         sweepVars, faultVars

\* A dispatch touches no job that exists.
LEMMA DispatchKeeps ==
  ASSUME TypeOK, LockInv, NEW e \in Events, dispatch(e), UNCHANGED <<delivery, posted, slotVars>> PROVE LockInv'
  BY Bounds DEF TypeOK, LockInv, HoldsLocks, ReadsHold, PaidFor, Out, Unheard, dispatch, FreshJob, Fault, jobVars, slotVars, faultVars

\* Repetitions stay below the faults, and SENT is left only by a worker that had read before.
LEMMA DeliveryStep == TypeOK /\ DeliveryInv /\ [Next]_vars => DeliveryInv'
<1> SUFFICES ASSUME TypeOK, DeliveryInv, [Next]_vars, spent' \cap RedisLosses = {} PROVE LockInv'
  BY DEF DeliveryInv, RedisLosses
<1>1. LockInv
  BY SpentGrows DEF DeliveryInv
<1>2. ASSUME NEW s \in Slots, SlotStep(s) PROVE LockInv'
  BY <1>1, <1>2, SlotKeeps
<1>3. ASSUME NEW s \in Slots, NEW e \in Events, Pick(s, e) PROVE LockInv'
  BY <1>1, <1>3, PickKeeps
<1>4. ASSUME NEW e \in Events, HotDispatch(e) \/ SweepDispatch(e) PROVE LockInv'
  BY <1>1, <1>4, DispatchKeeps DEF HotDispatch, SweepDispatch, rowVars
<1>5. ASSUME NEW e \in Events, Promote(e) \/ Stalled(e) PROVE LockInv'
  BY <1>1, <1>5, Bounds DEF Promote, Stalled, TypeOK, LockInv, HoldsLocks, ReadsHold, PaidFor, Out, Unheard, rowVars, slotVars, faultVars
<1>6. CASE Crash
  BY <1>1, <1>6, Bounds DEF Crash, Fault, TypeOK, LockInv, HoldsLocks, ReadsHold, PaidFor, Out, Unheard, rowVars
<1>7. CASE UNCHANGED <<delivery, jobVars, posted, slotVars, faultVars>>
  BY <1>1, <1>7 DEF jobVars, slotVars, faultVars, LockInv, HoldsLocks, ReadsHold, PaidFor, Out, Unheard
<1>8. ~RedisFlush /\ \A e \in Events : ~LockLoss(e)
  BY DEF RedisFlush, LockLoss, Fault, RedisLosses
<1> QED
  BY <1>2, <1>3, <1>4, <1>5, <1>6, <1>7, <1>8
     DEF Next, SweepStep, vars, rowVars, Create, Age, SweepStart, SweepEnd, Edit

\* DeliveryInv, the reason for the two theorems below.
LEMMA DeliveryCorrect == Spec => []DeliveryInv
<1>1. Init => DeliveryInv
  BY Bounds DEF Init, DeliveryInv, LockInv, HoldsLocks, ReadsHold, PaidFor, Out, Unheard
<1> QED
  BY <1>1, TypeCorrect, DeliveryStep, PTL DEF Spec

\* RepeatCostsAFault: whatever number of sweeps, retries and slots, a second message for
\* an event needs a fault of its own, as long as Redis loses no lock and no job.
THEOREM RepeatsArePaid == Spec => []RepeatCostsAFault
<1>1. TypeOK /\ DeliveryInv => RepeatCostsAFault
  <2> SUFFICES ASSUME TypeOK, PaidFor, NEW e \in Events PROVE posted[e] + faults <= 1 + MaxFaults
    BY DEF DeliveryInv, LockInv, RepeatCostsAFault
  <2>1. posted[e] \in Nat /\ faults \in Nat /\ MaxFaults \in Nat
    BY Bounds DEF TypeOK
  <2>2. posted[e] + faults <= MaxFaults + (IF Out(e) THEN 1 ELSE 0)
    BY DEF PaidFor
  <2> QED
    BY <2>1, <2>2
<1> QED
  BY <1>1, TypeCorrect, DeliveryCorrect, PTL

\* SentIsFinal: no step takes a delivery out of SENT while Redis has lost nothing, so the
\* check of recordAndSend is as good at its write as at its read.
THEOREM SentStays == Spec => SentIsFinal
<1> DEFINE Kept == \A e \in Events : (delivery[e] = "SENT" /\ ~Unheard(e) /\ spent \cap RedisLosses = {}) => delivery'[e] = "SENT"
<1>1. TypeOK /\ DeliveryInv /\ [Next]_vars => [Kept]_vars
  <2> SUFFICES ASSUME TypeOK, DeliveryInv, Next, NEW e \in Events, delivery[e] = "SENT", ~Unheard(e), spent \cap RedisLosses = {}
               PROVE delivery'[e] = "SENT"
    OBVIOUS
  <2>1. ASSUME NEW s \in Slots, SlotStep(s) PROVE delivery'[e] = "SENT"
    BY <2>1 DEF DeliveryInv, LockInv, ReadsHold, SlotStep, Load, Find, MarkPending, Send, Confirm, CatchError, Settle, Set,
                TypeOK, Unheard
  <2>2. CASE UNCHANGED delivery
    BY <2>2
  <2> QED
    BY <2>1, <2>2 DEF Next, SweepStep, rowVars, Create, HotDispatch, Promote, Stalled, Age, LockLoss, SweepStart,
                      SweepDispatch, SweepEnd, Pick, Edit, RedisFlush, Crash
<1> QED
  BY <1>1, TypeCorrect, DeliveryCorrect, PTL DEF Spec, SentIsFinal, Kept
=============================================================================

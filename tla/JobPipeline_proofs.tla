------------------------ MODULE JobPipeline_proofs ------------------------
(***************************************************************************)
(* Proofs about JobPipeline, for any number of posts, slots, concurrent    *)
(* operator calls and faults.                                              *)
(***************************************************************************)
EXTENDS JobPipeline, TLAPS

\* Every database and Redis operation keeps the two stores and the process's own
\* state well typed; a busy slot or enqueuer always knows its post.
LEMMA TypeStep == TypeOK /\ [Next]_vars => TypeOK'
<1> SUFFICES ASSUME TypeOK, [Next]_vars PROVE TypeOK'
  OBVIOUS
<1> USE ConstantsAssumption
        DEF TypeOK, Statuses, EnqStates, JobStates, Flag, Enqueuers, WorkerPcs, TickPcs,
            EnqPcs, OpPcs, rowVars, jobVars, workVars, tickVars, enqVars, callVars, enqRow
<1>1. ASSUME NEW p \in Posts, commitLink(p) PROVE TypeOK'
  BY <1>1 DEF commitLink
<1>2. ASSUME NEW e \in Enqueuers, enqueue(e) PROVE TypeOK'
  <2> USE DEF EnqueueUnchanged, EnqueueReturn, Fault, FreshJob
  <2>1. CASE EnqueueCheck(e)
    BY <2>1 DEF EnqueueCheck
  <2>2. CASE EnqueueGhost(e)
    BY <2>2 DEF EnqueueGhost, RemoveJob
  <2>3. CASE EnqueueAdd(e)
    BY <2>3 DEF EnqueueAdd
  <2>4. CASE EnqueueMark(e)
    BY <2>4 DEF EnqueueMark
  <2> QED
    BY <1>2, <2>1, <2>2, <2>3, <2>4 DEF enqueue
<1>3. ASSUME NEW w \in Workers, NEW p \in Posts, Pick(w, p) PROVE TypeOK'
  BY <1>3 DEF Pick, WorkerUnchanged
<1>4. ASSUME NEW w \in Workers, WorkerStep(w) PROVE TypeOK'
  <2> USE DEF WorkerUnchanged, Goto, SetStatus, SetEnqueue, Fault
  <2>1. CASE Claim(w)
    BY <2>1 DEF Claim
  <2>2. CASE ReadFlag(w)
    BY <2>2 DEF ReadFlag, AfterFlag
  <2>3. CASE FillCache(w)
    BY <2>3 DEF FillCache, AfterFlag
  <2>4. CASE RollBack(w)
    BY <2>4 DEF RollBack
  <2>5. CASE Gate(w)
    BY <2>5 DEF Gate
  <2>6. CASE Evaluate(w)
    BY <2>6 DEF Evaluate
  <2>7. CASE WriteVerdict(w)
    BY <2>7 DEF WriteVerdict
  <2>8. CASE Notify(w)
    BY <2>8 DEF Notify
  <2>9. CASE CatchError(w)
    BY <2>9 DEF CatchError
  <2>10. CASE Settle(w)
    <3>1. wpost[w] \in Posts
      BY <2>10 DEF Settle
    <3>2. jobState' \in [Posts -> JobStates] /\ jobMade' \in [Posts -> Nat]
      BY <2>10, <3>1 DEF Settle
    <3>3. jobOwner' \in [Posts -> Workers \cup {NoWorker}] /\ jobStalls' = jobStalls
      BY <2>10, <3>1 DEF Settle
    <3> QED
      BY <2>10, <3>2, <3>3 DEF Settle
  <2> QED
    BY <1>4, <2>1, <2>2, <2>3, <2>4, <2>5, <2>6, <2>7, <2>8, <2>9, <2>10 DEF WorkerStep
<1>5. ASSUME NEW w \in Workers, WorkerDbError(w) PROVE TypeOK'
  BY <1>5 DEF WorkerDbError, WorkerUnchanged, Goto, Fault
<1>6. CASE TickStart
  BY <1>6 DEF TickStart, TickUnchanged
<1>7. CASE TickStep
  <2> USE DEF TickUnchanged, Fault, SetStatus, SetEnqueue
  <2>1. CASE ResetSelect
    <3>1. firstReconcileDone' \in BOOLEAN
      BY <2>1 DEF ResetSelect
    <3> QED
      BY <2>1, <3>1 DEF ResetSelect
  <2>2. CASE ResetActive
    BY <2>2 DEF ResetActive
  <2>3. CASE ResetWrite
    <3>1. firstReconcileDone' \in BOOLEAN
      BY <2>3 DEF ResetWrite
    <3> QED
      BY <2>3, <3>1 DEF ResetWrite
  <2>4. CASE TickReadFlag
    BY <2>4 DEF TickReadFlag
  <2>5. CASE TickFillCache
    BY <2>5 DEF TickFillCache
  <2>6. CASE ReconcilePauseState
    <3>1. paused' \in BOOLEAN
      BY <2>6 DEF ReconcilePauseState
    <3> QED
      BY <2>6, <3>1 DEF ReconcilePauseState
  <2>7. CASE LostSelect
    BY <2>7 DEF LostSelect
  <2>8. CASE LostCheck
    BY <2>8 DEF LostCheck
  <2>9. CASE LostWrite
    BY <2>9 DEF LostWrite
  <2>10. CASE PendingSelect
    BY <2>10 DEF PendingSelect
  <2>11. CASE PendingEnqueue
    BY <2>11 DEF PendingEnqueue
  <2>12. CASE TickEnd
    BY <2>12 DEF TickEnd
  <2> QED
    BY <1>7, <2>1, <2>2, <2>3, <2>4, <2>5, <2>6, <2>7, <2>8, <2>9, <2>10, <2>11, <2>12
    DEF TickStep
<1>8. ASSUME NEW o \in Operators, CallStart(o) PROVE TypeOK'
  <2> USE DEF CallUnchanged, Call, SetStatus, SetEnqueue
  <2>1. CASE PauseAnalysis(o)
    BY <2>1 DEF PauseAnalysis
  <2>2. CASE EnableSnapshot(o)
    BY <2>2 DEF EnableSnapshot
  <2>3. ASSUME NEW ids \in SUBSET Posts, BulkSkip(o, ids) PROVE TypeOK'
    BY <2>3 DEF BulkSkip
  <2>4. ASSUME NEW ids \in SUBSET Posts, BulkAnalyze(o, ids) PROVE TypeOK'
    BY <2>4 DEF BulkAnalyze
  <2>5. ASSUME NEW ids \in SUBSET Posts, BulkRemove(o, ids) PROVE TypeOK'
    BY <2>5 DEF BulkRemove
  <2> QED
    BY <1>8, <2>1, <2>2, <2>3, <2>4, <2>5 DEF CallStart
<1>9. ASSUME NEW o \in Operators, CallStep(o) PROVE TypeOK'
  <2> USE DEF CallUnchanged, Fault, SetStatus, FreshJob
  <2>1. ASSUME NEW recent \in SUBSET Posts, EnableCommit(o, recent) PROVE TypeOK'
    BY <2>1 DEF EnableCommit
  <2>2. CASE EnableResume(o)
    <3>1. paused' \in BOOLEAN
      BY <2>2 DEF EnableResume
    <3> QED
      BY <2>2, <3>1 DEF EnableResume
  <2>3. CASE ForgetJob(o)
    BY <2>3 DEF ForgetJob, RemoveJob
  <2>4. CASE CallEnd(o)
    BY <2>4 DEF CallEnd
  <2> QED
    BY <1>9, <2>1, <2>2, <2>3, <2>4 DEF CallStep
<1>10. ASSUME NEW p \in Posts, Promote(p) \/ Stalled(p) \/ Expire(p) \/ LockLoss(p) PROVE TypeOK'
  BY <1>10 DEF Promote, Stalled, Expire, LockLoss, EnvUnchanged, FreshJob, Fault
<1>11. CASE CacheExpire \/ RedisFlush \/ Crash
  <2> USE DEF EnvUnchanged, Fault
  <2>1. CASE CacheExpire
    BY <2>1 DEF CacheExpire
  <2>2. CASE RedisFlush
    <3>1. paused' \in BOOLEAN
      BY <2>2 DEF RedisFlush
    <3> QED
      BY <2>2, <3>1 DEF RedisFlush
  <2>3. CASE Crash
    <3>1. firstReconcileDone' \in BOOLEAN
      BY <2>3 DEF Crash
    <3> QED
      BY <2>3, <3>1 DEF Crash
  <2> QED
    BY <1>11, <2>1, <2>2, <2>3
<1>12. CASE UNCHANGED vars
  BY <1>12 DEF vars
<1> QED
  BY <1>1, <1>2, <1>3, <1>4, <1>5, <1>6, <1>7, <1>8, <1>9, <1>10, <1>11, <1>12 DEF Next

\* The state at boot is well typed.
LEMMA TypeInit == Init => TypeOK
  BY ConstantsAssumption
  DEF Init, TypeOK, Statuses, EnqStates, JobStates, Flag, Enqueuers, WorkerPcs, TickPcs,
      EnqPcs, OpPcs

\* Type correctness of the pipeline.
THEOREM TypeCorrect == Spec => []TypeOK
  BY TypeInit, TypeStep, PTL DEF Spec

\* While no live slot loses its job (LocksHold), every operation keeps LockInv: only the
\* owner of an active job writes its row, and forgetJob cannot take that job away.
LEMMA LockStep ==
    ASSUME LocksHold, TypeOK, TypeOK', LockInv, [Next]_vars
    PROVE  LockInv'
<1> USE ConstantsAssumption DEF TypeOK, LockInv, LocksHold, Holding, rowVars, jobVars, workVars, tickVars, enqVars, callVars, enqRow
<1>1. ASSUME NEW p \in Posts, commitLink(p) PROVE LockInv'
  BY <1>1 DEF commitLink
<1>2. ASSUME NEW e \in Enqueuers, enqueue(e) PROVE LockInv'
  <2> USE DEF EnqueueUnchanged, EnqueueReturn, FreshJob, Terminal
  <2>1. CASE EnqueueCheck(e)
    BY <2>1 DEF EnqueueCheck
  <2>2. CASE EnqueueGhost(e)
    BY <2>2 DEF EnqueueGhost, RemoveJob, Locked
  <2>3. CASE EnqueueAdd(e)
    BY <2>3 DEF EnqueueAdd
  <2>4. CASE EnqueueMark(e)
    BY <2>4 DEF EnqueueMark
  <2> QED
    BY <1>2, <2>1, <2>2, <2>3, <2>4 DEF enqueue
<1>3. ASSUME NEW w \in Workers, NEW p \in Posts, Pick(w, p) PROVE LockInv'
  BY <1>3 DEF Pick, WorkerUnchanged
<1>4. ASSUME NEW w \in Workers, WorkerStep(w) PROVE LockInv'
  <2> USE DEF WorkerUnchanged, Goto, SetStatus, SetEnqueue, Exists, AfterFlag
  <2>1. CASE Claim(w)
    BY <2>1 DEF Claim
  <2>2. CASE ReadFlag(w)
    BY <2>2 DEF ReadFlag
  <2>3. CASE FillCache(w)
    BY <2>3 DEF FillCache
  <2>4. CASE RollBack(w)
    BY <2>4 DEF RollBack
  <2>5. CASE Gate(w)
    BY <2>5 DEF Gate
  <2>6. CASE Evaluate(w)
    BY <2>6 DEF Evaluate
  <2>7. CASE WriteVerdict(w)
    BY <2>7 DEF WriteVerdict
  <2>8. CASE Notify(w)
    BY <2>8 DEF Notify
  <2>9. CASE CatchError(w)
    BY <2>9 DEF CatchError
  <2>10. CASE Settle(w)
    BY <2>10 DEF Settle
  <2> QED
    BY <1>4, <2>1, <2>2, <2>3, <2>4, <2>5, <2>6, <2>7, <2>8, <2>9, <2>10 DEF WorkerStep
<1>5. ASSUME NEW w \in Workers, WorkerDbError(w) PROVE LockInv'
  BY <1>5 DEF WorkerDbError, WorkerUnchanged, Goto
<1>6. CASE TickStart
  BY <1>6 DEF TickStart, TickUnchanged
<1>7. CASE TickStep
  <2> USE DEF TickUnchanged, SetStatus, SetEnqueue
  <2>1. CASE ResetSelect
    BY <2>1 DEF ResetSelect
  <2>2. CASE ResetActive
    BY <2>2 DEF ResetActive
  <2>3. CASE ResetWrite
    BY <2>3 DEF ResetWrite
  <2>4. CASE TickReadFlag
    BY <2>4 DEF TickReadFlag
  <2>5. CASE TickFillCache
    BY <2>5 DEF TickFillCache
  <2>6. CASE ReconcilePauseState
    BY <2>6 DEF ReconcilePauseState
  <2>7. CASE LostSelect
    BY <2>7 DEF LostSelect
  <2>8. CASE LostCheck
    BY <2>8 DEF LostCheck
  <2>9. CASE LostWrite
    BY <2>9 DEF LostWrite
  <2>10. CASE PendingSelect
    BY <2>10 DEF PendingSelect
  <2>11. CASE PendingEnqueue
    BY <2>11 DEF PendingEnqueue
  <2>12. CASE TickEnd
    BY <2>12 DEF TickEnd
  <2> QED
    BY <1>7, <2>1, <2>2, <2>3, <2>4, <2>5, <2>6, <2>7, <2>8, <2>9, <2>10, <2>11, <2>12 DEF TickStep
<1>8. ASSUME NEW o \in Operators, CallStart(o) PROVE LockInv'
  <2> USE DEF CallUnchanged, SetStatus, SetEnqueue, Exists
  <2>1. CASE PauseAnalysis(o)
    BY <2>1 DEF PauseAnalysis
  <2>2. CASE EnableSnapshot(o)
    BY <2>2 DEF EnableSnapshot
  <2>3. ASSUME NEW ids \in SUBSET Posts, BulkSkip(o, ids) PROVE LockInv'
    BY <2>3 DEF BulkSkip
  <2>4. ASSUME NEW ids \in SUBSET Posts, BulkAnalyze(o, ids) PROVE LockInv'
    BY <2>4 DEF BulkAnalyze
  <2>5. ASSUME NEW ids \in SUBSET Posts, BulkRemove(o, ids) PROVE LockInv'
    BY <2>5 DEF BulkRemove
  <2> QED
    BY <1>8, <2>1, <2>2, <2>3, <2>4, <2>5 DEF CallStart, Exists
<1>9. ASSUME NEW o \in Operators, CallStep(o) PROVE LockInv'
  <2> USE DEF CallUnchanged, SetStatus, FreshJob
  <2>1. ASSUME NEW recent \in SUBSET Posts, EnableCommit(o, recent) PROVE LockInv'
    BY <2>1 DEF EnableCommit
  <2>2. CASE EnableResume(o)
    BY <2>2 DEF EnableResume
  <2>3. CASE ForgetJob(o)
    BY <2>3 DEF ForgetJob, RemoveJob, Locked
  <2>4. CASE CallEnd(o)
    BY <2>4 DEF CallEnd
  <2> QED
    BY <1>9, <2>1, <2>2, <2>3, <2>4 DEF CallStep
<1>10. ASSUME NEW p \in Posts, Promote(p) \/ Stalled(p) \/ Expire(p) \/ LockLoss(p) PROVE LockInv'
  <2> USE DEF EnvUnchanged, FreshJob, Terminal, Fault
  <2>1. CASE Promote(p)
    BY <2>1 DEF Promote
  <2>2. CASE Stalled(p)
    BY <2>2 DEF Stalled
  <2>3. CASE Expire(p)
    BY <2>3 DEF Expire
  <2>4. CASE LockLoss(p)
    BY <2>4 DEF LockLoss
  <2> QED
    BY <1>10, <2>1, <2>2, <2>3, <2>4
<1>11. CASE CacheExpire \/ RedisFlush \/ Crash
  <2> USE DEF EnvUnchanged, Fault
  <2>1. CASE CacheExpire
    BY <2>1 DEF CacheExpire
  <2>2. CASE RedisFlush
    BY <2>2 DEF RedisFlush
  <2>3. CASE Crash
    BY <2>3 DEF Crash
  <2> QED
    BY <1>11, <2>1, <2>2, <2>3
<1>12. CASE UNCHANGED vars
  BY <1>12 DEF vars
<1> QED
  BY <1>1, <1>2, <1>3, <1>4, <1>5, <1>6, <1>7, <1>8, <1>9, <1>10, <1>11, <1>12 DEF Next

\* A slot that wins the claim, or is past it, goes on to another statement: RowInv needs
\* to hear only of its own row, because no other slot past the claim has that row.
LEMMA SlotMoves ==
    ASSUME TypeOK, RowInv, NEW w \in Workers,
           wpc[w] \in Holding \/ (wpc[w] = "claim" /\ status[wpost[w]] = "NEW"),
           NEW pc \in WorkerPcs, wpc' = [wpc EXCEPT ![w] = pc],
           UNCHANGED <<wpost, matchEvents, tpc, firstReconcileDone>>,
           \A q \in Posts : q # wpost[w] => status'[q] = status[q],
           pc \in Holding => status'[wpost[w]] \in {"PROCESSING", "DELETED"},
           pc = "notify" => status'[wpost[w]] \in {"PROCESSED", "DELETED"}
    PROVE  RowInv'
<1>1. wpost[w] \in Posts /\ matchEvents[wpost[w]] = 0 /\ wpc[w] # "notify" /\ wpc[w] # "idle"
  BY DEF TypeOK, RowInv, Holding
<1>2. \A v \in Workers : v # w => wpc'[v] = wpc[v]
  BY DEF TypeOK
<1>3. wpc'[w] = pc
  BY DEF TypeOK
<1>4. \A v \in Workers : (v # w /\ wpc[v] \in Holding \cup {"notify"}) =>
         wpost[v] \in Posts /\ wpost[v] # wpost[w]
  BY DEF TypeOK, RowInv, Holding
<1>5. (firstReconcileDone /\ tpc \notin {"reset", "resetActive", "resetWrite"})'
  BY DEF RowInv
<1>6. (\A v \in Workers : wpc[v] \in Holding =>
           status[wpost[v]] \in {"PROCESSING", "DELETED"} /\ matchEvents[wpost[v]] = 0)'
  BY <1>1, <1>2, <1>3, <1>4 DEF RowInv
<1>7. (\A v \in Workers : wpc[v] = "notify" =>
           status[wpost[v]] \in {"PROCESSED", "DELETED"} /\ matchEvents[wpost[v]] = 0)'
  BY <1>1, <1>2, <1>3, <1>4 DEF RowInv
<1>8. (\A u, v \in Workers :
           (u # v /\ wpc[u] \in Holding \cup {"notify"} /\ wpc[v] \in Holding \cup {"notify"})
              => wpost[u] # wpost[v])'
  BY <1>1, <1>2, <1>3, <1>4 DEF RowInv
<1>9. (\A p \in Posts : matchEvents[p] # 0 =>
           status[p] \in {"PROCESSED", "DELETED"} /\ matchEvents[p] = 1)'
  BY <1>1 DEF RowInv
<1> QED
  BY <1>5, <1>6, <1>7, <1>8, <1>9 DEF RowInv

\* Without the boot-time reset (NoBootReset), every operation keeps RowInv, whatever
\* Redis does: only the claim's guarded update moves a row into PROCESSING.
LEMMA RowStep ==
    ASSUME NoBootReset, TypeOK, TypeOK', RowInv, [Next]_vars
    PROVE  RowInv'
<1> USE ConstantsAssumption DEF TypeOK, RowInv, NoBootReset, Holding, rowVars, jobVars, workVars, tickVars, enqVars, callVars, enqRow
<1>1. ASSUME NEW p \in Posts, commitLink(p) PROVE RowInv'
  BY <1>1 DEF commitLink
<1>2. ASSUME NEW e \in Enqueuers, enqueue(e) PROVE RowInv'
  <2> USE DEF EnqueueUnchanged, EnqueueReturn, FreshJob, Terminal
  <2>1. CASE EnqueueCheck(e)
    BY <2>1 DEF EnqueueCheck
  <2>2. CASE EnqueueGhost(e)
    BY <2>2 DEF EnqueueGhost, RemoveJob, Locked
  <2>3. CASE EnqueueAdd(e)
    BY <2>3 DEF EnqueueAdd
  <2>4. CASE EnqueueMark(e)
    BY <2>4 DEF EnqueueMark
  <2> QED
    BY <1>2, <2>1, <2>2, <2>3, <2>4 DEF enqueue
<1>3. ASSUME NEW w \in Workers, NEW p \in Posts, Pick(w, p) PROVE RowInv'
  BY <1>3 DEF Pick, WorkerUnchanged
<1>4. ASSUME NEW w \in Workers, WorkerStep(w) PROVE RowInv'
  <2> USE DEF WorkerUnchanged, Goto, SetStatus, SetEnqueue, Exists, AfterFlag
  <2>1. CASE Claim(w)
    <3>1. CASE status[wpost[w]] = "NEW"
      <4>1. wpc[w] = "claim" /\ wpc' = [wpc EXCEPT ![w] = "flag"]
        BY <2>1, <3>1 DEF Claim
      <4>2. \A q \in Posts : status'[q] = IF q = wpost[w] THEN "PROCESSING" ELSE status[q]
        BY <2>1, <3>1 DEF Claim
      <4>3. UNCHANGED <<wpost, matchEvents, tpc, firstReconcileDone>> /\ wpost[w] \in Posts
        BY <2>1, <3>1 DEF Claim
      <4> HIDE DEF RowInv, TypeOK
      <4> QED
        BY <3>1, <4>1, <4>2, <4>3, SlotMoves DEF WorkerPcs
    <3>2. CASE status[wpost[w]] # "NEW"
      BY <2>1, <3>2 DEF Claim
    <3> QED
      BY <3>1, <3>2
  <2>2. CASE ReadFlag(w)
    BY <2>2, SlotMoves DEF ReadFlag, WorkerPcs
  <2>3. CASE FillCache(w)
    BY <2>3, SlotMoves DEF FillCache, WorkerPcs
  <2>4. CASE RollBack(w)
    <3>1. /\ wpc[w] = "rollback"
          /\ \E pc \in {"complete", "fail"} : wpc' = [wpc EXCEPT ![w] = pc]
      BY <2>4 DEF RollBack
    <3>2. \A q \in Posts : q # wpost[w] => status'[q] = status[q]
      BY <2>4 DEF RollBack
    <3>3. UNCHANGED <<wpost, matchEvents, tpc, firstReconcileDone>>
      BY <2>4 DEF RollBack
    <3> HIDE DEF RowInv, TypeOK
    <3> QED
      BY <3>1, <3>2, <3>3, SlotMoves DEF WorkerPcs
  <2>5. CASE Gate(w)
    BY <2>5, SlotMoves DEF Gate, WorkerPcs
  <2>6. CASE Evaluate(w)
    BY <2>6, SlotMoves DEF Evaluate, WorkerPcs
  <2>7. CASE WriteVerdict(w)
    BY <2>7, SlotMoves DEF WriteVerdict, WorkerPcs
  <2>8. CASE Notify(w)
    BY <2>8 DEF Notify
  <2>9. CASE CatchError(w)
    <3>1. wpc[w] \in Holding /\ wpc' = [wpc EXCEPT ![w] = "fail"]
      BY <2>9 DEF CatchError
    <3>2. \A q \in Posts : q # wpost[w] => status'[q] = status[q]
      BY <2>9 DEF CatchError
    <3>3. UNCHANGED <<wpost, matchEvents, tpc, firstReconcileDone>>
      BY <2>9 DEF CatchError
    <3> HIDE DEF RowInv, TypeOK
    <3> QED
      BY <3>1, <3>2, <3>3, SlotMoves DEF WorkerPcs
  <2>10. CASE Settle(w)
    BY <2>10 DEF Settle
  <2> QED
    BY <1>4, <2>1, <2>2, <2>3, <2>4, <2>5, <2>6, <2>7, <2>8, <2>9, <2>10 DEF WorkerStep
<1>5. ASSUME NEW w \in Workers, WorkerDbError(w) PROVE RowInv'
  BY <1>5 DEF WorkerDbError, WorkerUnchanged, Goto
<1>6. CASE TickStart
  BY <1>6 DEF TickStart, TickUnchanged
<1>7. CASE TickStep
  <2> USE DEF TickUnchanged, SetStatus, SetEnqueue
  <2>1. CASE ResetSelect
    BY <2>1 DEF ResetSelect
  <2>2. CASE ResetActive
    BY <2>2 DEF ResetActive
  <2>3. CASE ResetWrite
    BY <2>3 DEF ResetWrite
  <2>4. CASE TickReadFlag
    BY <2>4 DEF TickReadFlag
  <2>5. CASE TickFillCache
    BY <2>5 DEF TickFillCache
  <2>6. CASE ReconcilePauseState
    BY <2>6 DEF ReconcilePauseState
  <2>7. CASE LostSelect
    BY <2>7 DEF LostSelect
  <2>8. CASE LostCheck
    BY <2>8 DEF LostCheck
  <2>9. CASE LostWrite
    BY <2>9 DEF LostWrite
  <2>10. CASE PendingSelect
    BY <2>10 DEF PendingSelect
  <2>11. CASE PendingEnqueue
    BY <2>11 DEF PendingEnqueue
  <2>12. CASE TickEnd
    BY <2>12 DEF TickEnd
  <2> QED
    BY <1>7, <2>1, <2>2, <2>3, <2>4, <2>5, <2>6, <2>7, <2>8, <2>9, <2>10, <2>11, <2>12 DEF TickStep
<1>8. ASSUME NEW o \in Operators, CallStart(o) PROVE RowInv'
  <2> USE DEF CallUnchanged, SetStatus, SetEnqueue, Exists
  <2>1. CASE PauseAnalysis(o)
    BY <2>1 DEF PauseAnalysis
  <2>2. CASE EnableSnapshot(o)
    BY <2>2 DEF EnableSnapshot
  <2>3. ASSUME NEW ids \in SUBSET Posts, BulkSkip(o, ids) PROVE RowInv'
    BY <2>3 DEF BulkSkip
  <2>4. ASSUME NEW ids \in SUBSET Posts, BulkAnalyze(o, ids) PROVE RowInv'
    BY <2>4 DEF BulkAnalyze
  <2>5. ASSUME NEW ids \in SUBSET Posts, BulkRemove(o, ids) PROVE RowInv'
    BY <2>5 DEF BulkRemove
  <2> QED
    BY <1>8, <2>1, <2>2, <2>3, <2>4, <2>5 DEF CallStart, Exists
<1>9. ASSUME NEW o \in Operators, CallStep(o) PROVE RowInv'
  <2> USE DEF CallUnchanged, SetStatus, FreshJob
  <2>1. ASSUME NEW recent \in SUBSET Posts, EnableCommit(o, recent) PROVE RowInv'
    BY <2>1 DEF EnableCommit
  <2>2. CASE EnableResume(o)
    BY <2>2 DEF EnableResume
  <2>3. CASE ForgetJob(o)
    BY <2>3 DEF ForgetJob, RemoveJob, Locked
  <2>4. CASE CallEnd(o)
    BY <2>4 DEF CallEnd
  <2> QED
    BY <1>9, <2>1, <2>2, <2>3, <2>4 DEF CallStep
<1>10. ASSUME NEW p \in Posts, Promote(p) \/ Stalled(p) \/ Expire(p) \/ LockLoss(p) PROVE RowInv'
  <2> USE DEF EnvUnchanged, FreshJob, Terminal, Fault
  <2>1. CASE Promote(p)
    BY <2>1 DEF Promote
  <2>2. CASE Stalled(p)
    BY <2>2 DEF Stalled
  <2>3. CASE Expire(p)
    BY <2>3 DEF Expire
  <2>4. CASE LockLoss(p)
    BY <2>4 DEF LockLoss
  <2> QED
    BY <1>10, <2>1, <2>2, <2>3, <2>4
<1>11. CASE CacheExpire \/ RedisFlush \/ Crash
  <2> USE DEF EnvUnchanged, Fault
  <2>1. CASE CacheExpire
    BY <2>1 DEF CacheExpire
  <2>2. CASE RedisFlush
    BY <2>2 DEF RedisFlush
  <2>3. CASE Crash
    BY <2>3 DEF Crash
  <2> QED
    BY <1>11, <2>1, <2>2, <2>3
<1>12. CASE UNCHANGED vars
  BY <1>12 DEF vars
<1> QED
  BY <1>1, <1>2, <1>3, <1>4, <1>5, <1>6, <1>7, <1>8, <1>9, <1>10, <1>11, <1>12 DEF Next

\* While locks hold, LockInv holds in every reachable state.
THEOREM LockInvariant == ASSUME LocksHold PROVE Spec => [](TypeOK /\ LockInv)
<1>1. Init => TypeOK /\ LockInv
  <2>1. Init => LockInv
    BY DEF Init, LockInv, Holding
  <2> QED
    BY <2>1, TypeInit
<1>2. TypeOK /\ LockInv /\ [Next]_vars => (TypeOK /\ LockInv)'
  BY TypeStep, LockStep
<1> QED
  BY <1>1, <1>2, PTL DEF Spec

\* Without the boot-time reset, RowInv holds in every reachable state.
THEOREM RowInvariant == ASSUME NoBootReset PROVE Spec => [](TypeOK /\ RowInv)
<1>1. Init => TypeOK /\ RowInv
  <2>1. Init => RowInv
    BY DEF Init, RowInv, NoBootReset, Holding
  <2> QED
    BY <2>1, TypeInit
<1>2. TypeOK /\ RowInv /\ [Next]_vars => (TypeOK /\ RowInv)'
  BY TypeStep, RowStep
<1> QED
  BY <1>1, <1>2, PTL DEF Spec

\* Either mechanism alone keeps two slots from analysing one post at the same time.
THEOREM NoDoubleAnalysis ==
    ASSUME LocksHold \/ NoBootReset PROVE Spec => []OneAnalystPerPost
<1>1. TypeOK /\ LockInv => OneAnalystPerPost
  BY ConstantsAssumption DEF LockInv, OneAnalystPerPost, Holding, TypeOK
<1>2. TypeOK /\ RowInv => OneAnalystPerPost
  BY DEF RowInv, OneAnalystPerPost
<1>3. CASE LocksHold
  BY <1>1, <1>3, LockInvariant, PTL
<1>4. CASE NoBootReset
  BY <1>2, <1>4, RowInvariant, PTL
<1> QED
  BY <1>3, <1>4

\* Either mechanism alone keeps a post from being announced twice.
THEOREM NoDoubleAnnouncement ==
    ASSUME LocksHold \/ NoBootReset PROVE Spec => []AnnouncedAtMostOnce
<1>1. TypeOK /\ LockInv => AnnouncedAtMostOnce
  <2> SUFFICES ASSUME TypeOK, LockInv, NEW p \in Posts PROVE matchEvents[p] <= 1
    BY DEF AnnouncedAtMostOnce
  <2>1. matchEvents[p] \in Nat
    BY DEF TypeOK
  <2>2. matchEvents[p] = 0 \/ matchEvents[p] = 1
    BY DEF LockInv
  <2> QED
    BY <2>1, <2>2
<1>2. TypeOK /\ RowInv => AnnouncedAtMostOnce
  <2> SUFFICES ASSUME TypeOK, RowInv, NEW p \in Posts PROVE matchEvents[p] <= 1
    BY DEF AnnouncedAtMostOnce
  <2>1. matchEvents[p] \in Nat
    BY DEF TypeOK
  <2>2. matchEvents[p] = 0 \/ matchEvents[p] = 1
    BY DEF RowInv
  <2> QED
    BY <2>1, <2>2
<1>3. CASE LocksHold
  BY <1>1, <1>3, LockInvariant, PTL
<1>4. CASE NoBootReset
  BY <1>2, <1>4, RowInvariant, PTL
<1> QED
  BY <1>3, <1>4

\* A decision s survives a step.
Stays(s) == \A p \in Posts : status[p] = s => status'[p] \in {s, "DELETED"}

\* If no slot is about to write over a row in state s, no operation but a removal
\* changes such a row: every other write is guarded by the status it expects.
LEMMA DecisionStays ==
    ASSUME NEW s \in {"PROCESSED", "SKIPPED"},
           \A w \in Workers : wpc[w] \in Holding => status[wpost[w]] # s,
           TypeOK, [Next]_vars
    PROVE  Stays(s)
<1> USE DEF TypeOK, Stays, SetStatus, Holding
<1>1. ASSUME NEW p \in Posts, commitLink(p) PROVE Stays(s)
  BY <1>1 DEF commitLink
<1>2. ASSUME NEW w \in Workers, WorkerStep(w) PROVE Stays(s)
  <2> USE DEF rowVars
  <2>1. CASE Claim(w)
    BY <2>1 DEF Claim
  <2>2. CASE RollBack(w)
    BY <2>2 DEF RollBack
  <2>3. CASE WriteVerdict(w)
    BY <2>3 DEF WriteVerdict
  <2>4. CASE CatchError(w)
    BY <2>4 DEF CatchError
  <2>5. CASE ReadFlag(w) \/ FillCache(w) \/ Gate(w) \/ Evaluate(w) \/ Notify(w) \/ Settle(w)
    BY <2>5 DEF ReadFlag, FillCache, Gate, Evaluate, Notify, Settle
  <2> QED
    BY <1>2, <2>1, <2>2, <2>3, <2>4, <2>5 DEF WorkerStep
<1>3. CASE TickStep
  <2>1. CASE ResetWrite
    BY <2>1 DEF ResetWrite
  <2>2. CASE ResetSelect \/ ResetActive \/ TickReadFlag \/ TickFillCache \/ ReconcilePauseState
             \/ LostSelect \/ LostCheck \/ LostWrite \/ PendingSelect \/ PendingEnqueue \/ TickEnd
    BY <2>2 DEF ResetSelect, ResetActive, TickReadFlag, TickFillCache, ReconcilePauseState,
                LostSelect, LostCheck, LostWrite, PendingSelect, PendingEnqueue, TickEnd
  <2> QED
    BY <1>3, <2>1, <2>2 DEF TickStep
<1>4. ASSUME NEW o \in Operators, CallStart(o) \/ CallStep(o) PROVE Stays(s)
  <2> USE DEF rowVars
  <2>1. ASSUME NEW ids \in SUBSET Posts,
               BulkSkip(o, ids) \/ BulkAnalyze(o, ids) \/ BulkRemove(o, ids)
        PROVE  Stays(s)
    BY <2>1 DEF BulkSkip, BulkAnalyze, BulkRemove
  <2>2. ASSUME NEW recent \in SUBSET Posts, EnableCommit(o, recent) PROVE Stays(s)
    BY <2>2 DEF EnableCommit
  <2>3. CASE PauseAnalysis(o) \/ EnableSnapshot(o) \/ EnableResume(o) \/ ForgetJob(o) \/ CallEnd(o)
    BY <2>3 DEF PauseAnalysis, EnableSnapshot, EnableResume, ForgetJob, CallEnd
  <2> QED
    BY <1>4, <2>1, <2>2, <2>3 DEF CallStart, CallStep
<1>5. ASSUME NEW w \in Workers, NEW p \in Posts, Pick(w, p) PROVE Stays(s)
  BY <1>5 DEF Pick, rowVars
<1>6. ASSUME NEW w \in Workers, WorkerDbError(w) PROVE Stays(s)
  BY <1>6 DEF WorkerDbError, rowVars
<1>7. ASSUME NEW e \in Enqueuers, enqueue(e) PROVE Stays(s)
  BY <1>7 DEF enqueue, EnqueueCheck, EnqueueGhost, EnqueueAdd, EnqueueMark, EnqueueUnchanged
<1>8. ASSUME NEW p \in Posts, Promote(p) \/ Stalled(p) \/ Expire(p) \/ LockLoss(p) PROVE Stays(s)
  BY <1>8 DEF Promote, Stalled, Expire, LockLoss, EnvUnchanged, rowVars
<1>9. CASE TickStart \/ CacheExpire \/ RedisFlush \/ Crash \/ UNCHANGED vars
  BY <1>9 DEF TickStart, CacheExpire, RedisFlush, Crash, EnvUnchanged, vars, rowVars
<1> QED
  BY <1>1, <1>2, <1>3, <1>4, <1>5, <1>6, <1>7, <1>8, <1>9 DEF Next

\* Either mechanism alone makes a verdict final.
THEOREM VerdictKept == ASSUME LocksHold \/ NoBootReset PROVE Spec => VerdictIsFinal
<1>1. TypeOK /\ LockInv /\ [Next]_vars => Stays("PROCESSED")
  BY DecisionStays DEF LockInv
<1>2. TypeOK /\ RowInv /\ [Next]_vars => Stays("PROCESSED")
  BY DecisionStays DEF RowInv
<1>3. Stays("PROCESSED") =>
        \A p \in Posts : status[p] = "PROCESSED" => status'[p] \in {"PROCESSED", "DELETED"}
  BY DEF Stays
<1>4. CASE LocksHold
  BY <1>1, <1>3, <1>4, LockInvariant, PTL DEF Spec, VerdictIsFinal
<1>5. CASE NoBootReset
  BY <1>2, <1>3, <1>5, RowInvariant, PTL DEF Spec, VerdictIsFinal
<1> QED
  BY <1>4, <1>5

\* A dismissal is final as long as the boot-time reset is out of the way; with it, the
\* run SkipRace shows a skipped post being analysed after all.
THEOREM DismissalKept == ASSUME NoBootReset PROVE Spec => DismissalIsFinal
<1>1. TypeOK /\ RowInv /\ [Next]_vars => Stays("SKIPPED")
  BY DecisionStays DEF RowInv
<1>2. Stays("SKIPPED") =>
        \A p \in Posts : status[p] = "SKIPPED" => status'[p] \in {"SKIPPED", "DELETED"}
  BY DEF Stays
<1> QED
  BY <1>1, <1>2, RowInvariant, PTL DEF Spec, DismissalIsFinal

-----------------------------------------------------------------------------
(* The AI budget of a post.                                                *)

\* Statuses that nothing but a removal changes any more.
Over == {"PROCESSED", "FAILED", "SKIPPED", "DELETED"}

\* The flag keeps its value, also where it is remembered.
FlagStill ==
    /\ cache # "unset" => cache = analysisEnabled
    /\ tpc \in {"pauseFill", "pauseApply"} => tseen = analysisEnabled
    /\ analysisEnabled = "off" => paused /\ \A w \in Workers : wpc[w] = "idle"
    /\ \A w \in Workers : wpc[w] # "rollback" /\ (wpc[w] = "fill" => wseen[w] = analysisEnabled)

\* Without a crash the boot-time reset finds nothing.
NothingReset == oldRows = {} /\ tpc \notin {"resetActive", "resetWrite"}

\* Jobs are forgotten only for rows that are gone.
OnlyRemovals ==
    \A o \in Operators : /\ opc[o] \in {"idle", "forget"}
                         /\ opc[o] = "forget" => \A p \in oids[o] : status[p] = "DELETED"

\* A job that enqueue() takes for a leftover belongs to a row that is over.
LeftoversAreOver ==
    /\ \A p \in tids : status[p] # "ABSENT"
    /\ \A e \in Enqueuers : epc[e] # "idle" =>
          /\ status[epost[e]] # "ABSENT"
          /\ epc[e] = "ghost" => status[epost[e]] \in Over

\* While a row may still be analysed, its job has counted every analysis that the
\* row was charged for.
JobCounts(p) ==
    /\ jobState[p] = "active" => /\ jobOwner[p] \in Workers
                                 /\ wpc[jobOwner[p]] # "idle" /\ wpost[jobOwner[p]] = p
    /\ jobState[p] \in {"waiting", "delayed", "active"} => jobMade[p] < MaxAttempts
    /\ jobState[p] \in {"waiting", "delayed"} /\ status[p] = "NEW" => analysisAttempts[p] <= jobMade[p]
    /\ jobState[p] = "absent" /\ status[p] = "NEW" => analysisAttempts[p] = 0
    /\ jobState[p] \in Terminal => status[p] \in Over
    /\ status[p] = "ABSENT" => analysisAttempts[p] = 0 /\ jobState[p] = "absent"
    /\ status[p] = "PROCESSING" => jobState[p] = "active" /\ wpc[jobOwner[p]] \in Holding
    /\ analysisAttempts[p] <= MaxAttempts

\* So does the slot that has the job.
SlotCounts(w) ==
    wpc[w] # "idle" =>
        /\ jobState[wpost[w]] = "active" /\ jobOwner[wpost[w]] = w /\ wtry[w] = jobMade[wpost[w]]
        /\ wpc[w] = "claim" /\ status[wpost[w]] = "NEW" =>
               analysisAttempts[wpost[w]] <= jobMade[wpost[w]]
        /\ wpc[w] \in Holding =>
               \/ status[wpost[w]] = "DELETED"
               \/ status[wpost[w]] = "PROCESSING" /\ analysisAttempts[wpost[w]] <= jobMade[wpost[w]]
        /\ wpc[w] \in {"notify", "complete"} => status[wpost[w]] \in Over
        /\ wpc[w] = "fail" =>
               \/ status[wpost[w]] \in Over
               \/ /\ status[wpost[w]] = "NEW" /\ analysisAttempts[wpost[w]] <= jobMade[wpost[w]] + 1
                  /\ jobMade[wpost[w]] + 1 < MaxAttempts

BudgetInv ==
    /\ FlagStill /\ NothingReset /\ OnlyRemovals /\ LeftoversAreOver
    /\ \A p \in Posts : JobCounts(p)
    /\ \A w \in Workers : SlotCounts(w)

\* Nothing has been charged at boot.
LEMMA BudgetInit == Init => BudgetInv
<1> SUFFICES ASSUME Init PROVE BudgetInv
  OBVIOUS
<1>1. FlagStill
  BY DEF Init, FlagStill
<1>2. NothingReset /\ OnlyRemovals /\ LeftoversAreOver
  BY DEF Init, NothingReset, OnlyRemovals, LeftoversAreOver
<1>3. ASSUME NEW p \in Posts PROVE JobCounts(p)
  BY ConstantsAssumption DEF Init, JobCounts, Terminal
<1>4. ASSUME NEW w \in Workers PROVE SlotCounts(w)
  BY DEF Init, SlotCounts
<1> QED
  BY <1>1, <1>2, <1>3, <1>4 DEF BudgetInv

\* Every statement of processJobPost keeps BudgetInv: a charge of the row is followed by
\* the count of the job, and only the slot that owns the job writes the row.
LEMMA BudgetSlots ==
    ASSUME ChargesOnce, TypeOK, TypeOK', BudgetInv, NEW w \in Workers, WorkerStep(w) \/ WorkerDbError(w)
    PROVE  BudgetInv'
<1> USE ConstantsAssumption DEF TypeOK, rowVars, jobVars, workVars, tickVars, enqVars, callVars, enqRow, WorkerUnchanged
<1>0. WorkerStep(w)
  BY DEF WorkerDbError, Fault, ChargesOnce
<1>1. wpc[w] # "idle" => wpost[w] \in Posts
  OBVIOUS
<1>2. \A v \in Workers : v # w /\ wpc[v] # "idle" /\ wpc[w] # "idle" => wpost[v] # wpost[w]
  BY DEF BudgetInv, SlotCounts
<1> USE DEF Goto, SetStatus, SetEnqueue, Exists, AfterFlag
<1>3. FlagStill'
  <2> USE DEF BudgetInv, FlagStill, Flag
  <2>1. CASE ReadFlag(w)
    BY <2>1 DEF ReadFlag
  <2>2. CASE FillCache(w)
    BY <2>2 DEF FillCache
  <2> QED
    BY <1>0, <2>1, <2>2 DEF WorkerStep, Claim, RollBack, Gate, Evaluate, WriteVerdict, Notify, CatchError, Settle
<1>4. NothingReset' /\ OnlyRemovals'
  BY <1>0 DEF WorkerStep, Claim, ReadFlag, FillCache, RollBack, Gate, Evaluate, WriteVerdict, Notify, CatchError, Settle, BudgetInv, NothingReset, OnlyRemovals
<1>5. LeftoversAreOver'
  BY <1>0 DEF WorkerStep, Claim, ReadFlag, FillCache, RollBack, Gate, Evaluate, WriteVerdict, Notify, CatchError, Settle, BudgetInv, LeftoversAreOver, SlotCounts, FlagStill, Over, Holding
<1>6. (\A p \in Posts : JobCounts(p))' /\ (\A v \in Workers : SlotCounts(v))'
  <2> USE DEF BudgetInv, FlagStill, JobCounts, SlotCounts, Over, Holding, Terminal, Statuses, WorkerPcs
  <2>1. CASE Claim(w)
    BY <1>1, <1>2, <2>1 DEF Claim
  <2>2. CASE ReadFlag(w)
    BY <1>1, <1>2, <2>2 DEF ReadFlag
  <2>3. CASE FillCache(w)
    BY <1>1, <1>2, <2>3 DEF FillCache
  <2>4. CASE RollBack(w)
    BY <2>4 DEF RollBack
  <2>5. CASE Gate(w)
    BY <1>1, <1>2, <2>5 DEF Gate
  <2>6. CASE Evaluate(w)
    BY <1>1, <1>2, <2>6 DEF Evaluate
  <2>7. CASE WriteVerdict(w)
    BY <1>1, <1>2, <2>7 DEF WriteVerdict
  <2>8. CASE Notify(w)
    BY <1>1, <1>2, <2>8 DEF Notify
  <2>9. CASE CatchError(w)
    BY <1>1, <1>2, <2>9 DEF CatchError
  <2>10. CASE Settle(w)
    BY <1>1, <1>2, <2>10 DEF Settle
  <2> QED
    BY <1>0, <2>1, <2>2, <2>3, <2>4, <2>5, <2>6, <2>7, <2>8, <2>9, <2>10 DEF WorkerStep
<1> QED
  BY <1>3, <1>4, <1>5, <1>6 DEF BudgetInv

\* Ingest, enqueue() and the hand-over of a job keep BudgetInv: enqueue() adds a job only
\* for a row that was never analysed or is over.
LEMMA BudgetQueue ==
    ASSUME ChargesOnce, TypeOK, TypeOK', BudgetInv,
           \/ \E p \in Posts : commitLink(p)
           \/ \E e \in Enqueuers : enqueue(e)
           \/ \E w \in Workers, p \in Posts : Pick(w, p)
    PROVE  BudgetInv'
<1> USE ConstantsAssumption DEF TypeOK, rowVars, jobVars, workVars, tickVars, enqVars, callVars, enqRow, Exists
<1>1. ASSUME NEW p \in Posts, commitLink(p) PROVE BudgetInv'
  <2> USE <1>1 DEF commitLink
  <2>1. FlagStill' /\ NothingReset' /\ OnlyRemovals'
    BY DEF BudgetInv, FlagStill, NothingReset, OnlyRemovals
  <2>2. LeftoversAreOver'
    BY DEF BudgetInv, LeftoversAreOver, Over, Enqueuers
  <2>3. (\A q \in Posts : JobCounts(q))' /\ (\A v \in Workers : SlotCounts(v))'
    BY DEF BudgetInv, JobCounts, SlotCounts, Over, Holding, Terminal
  <2> QED
    BY <2>1, <2>2, <2>3 DEF BudgetInv
<1>2. ASSUME NEW e \in Enqueuers, enqueue(e) PROVE BudgetInv'
  <2> USE <1>2 DEF EnqueueUnchanged, EnqueueReturn
  <2>1. FlagStill' /\ NothingReset' /\ OnlyRemovals'
    BY DEF enqueue, EnqueueCheck, EnqueueGhost, EnqueueAdd, EnqueueMark, BudgetInv, FlagStill, NothingReset, OnlyRemovals
  <2>2. LeftoversAreOver'
    BY DEF enqueue, EnqueueCheck, EnqueueGhost, EnqueueAdd, EnqueueMark, BudgetInv, LeftoversAreOver, JobCounts, Over, Terminal, Enqueuers
  <2>3. (\A q \in Posts : JobCounts(q))' /\ (\A v \in Workers : SlotCounts(v))'
    <3> USE DEF BudgetInv, LeftoversAreOver, JobCounts, SlotCounts, Over, Holding, Terminal, FreshJob
    <3>1. CASE EnqueueCheck(e)
      BY <3>1 DEF EnqueueCheck
    <3>2. CASE EnqueueGhost(e)
      <4>1. epost[e] \in Posts /\ status[epost[e]] \in Over
        BY <3>2 DEF EnqueueGhost
      <4>2. CASE UNCHANGED jobVars
        BY <3>2, <4>2 DEF EnqueueGhost
      <4>3. CASE ~Locked(epost[e]) /\ FreshJob(epost[e], "absent")
        <5>1. jobState[epost[e]] # "active"
          BY <4>1, <4>3 DEF Locked
        <5> QED
          BY <3>2, <4>1, <4>3, <5>1 DEF EnqueueGhost
      <4> QED
        BY <3>2, <4>2, <4>3 DEF EnqueueGhost, RemoveJob
    <3>3. CASE EnqueueAdd(e)
      <4>1. epost[e] \in Posts /\ status[epost[e]] # "ABSENT"
        BY <3>3 DEF EnqueueAdd
      <4>2. CASE UNCHANGED jobVars
        BY <3>3, <4>2 DEF EnqueueAdd
      <4>3. CASE jobState[epost[e]] = "absent" /\ FreshJob(epost[e], "waiting")
        <5>1. status[epost[e]] # "PROCESSING"
          BY <4>1, <4>3
        <5>2. ASSUME NEW q \in Posts PROVE JobCounts(q)'
          BY <3>3, <4>1, <4>3, <5>1 DEF EnqueueAdd
        <5>3. (\A v \in Workers : SlotCounts(v))'
          BY <3>3, <4>1, <4>3 DEF EnqueueAdd
        <5> HIDE DEF JobCounts, SlotCounts
        <5> QED
          BY <5>2, <5>3
      <4> QED
        BY <3>3, <4>2, <4>3 DEF EnqueueAdd
    <3>4. CASE EnqueueMark(e)
      BY <3>4 DEF EnqueueMark
    <3> QED
      BY <3>1, <3>2, <3>3, <3>4 DEF enqueue
  <2> QED
    BY <2>1, <2>2, <2>3 DEF BudgetInv
<1>3. ASSUME NEW w \in Workers, NEW p \in Posts, Pick(w, p) PROVE BudgetInv'
  <2> USE <1>3 DEF Pick, WorkerUnchanged
  <2>1. FlagStill' /\ NothingReset' /\ OnlyRemovals'
    BY DEF BudgetInv, FlagStill, NothingReset, OnlyRemovals
  <2>2. LeftoversAreOver'
    BY DEF BudgetInv, LeftoversAreOver
  <2>3. (\A q \in Posts : JobCounts(q))' /\ (\A v \in Workers : SlotCounts(v))'
    BY DEF BudgetInv, JobCounts, SlotCounts, Over, Holding, Terminal
  <2> QED
    BY <2>1, <2>2, <2>3 DEF BudgetInv
<1> QED
  BY <1>1, <1>2, <1>3

\* The tick keeps BudgetInv: its sweeps move no row to another status here.
LEMMA BudgetTick ==
    ASSUME ChargesOnce, TypeOK, TypeOK', BudgetInv, TickStart \/ TickStep
    PROVE  BudgetInv'
<1> USE ConstantsAssumption DEF TypeOK, rowVars, jobVars, workVars, tickVars, enqVars, callVars, TickUnchanged
<1>1. ~ResetActive /\ ~ResetWrite
  BY DEF ResetActive, ResetWrite, BudgetInv, NothingReset
<1>2. UNCHANGED status
  BY <1>1 DEF TickStart, TickStep, ResetSelect, TickReadFlag, TickFillCache, ReconcilePauseState, LostSelect, LostCheck, LostWrite, PendingSelect, PendingEnqueue, TickEnd
<1>3. FlagStill'
  BY <1>1 DEF TickStart, TickStep, ResetSelect, TickReadFlag, TickFillCache, ReconcilePauseState, LostSelect, LostCheck, LostWrite, PendingSelect, PendingEnqueue, TickEnd, BudgetInv, FlagStill
<1>4. NothingReset' /\ OnlyRemovals'
  BY <1>1 DEF TickStart, TickStep, ResetSelect, TickReadFlag, TickFillCache, ReconcilePauseState, LostSelect, LostCheck, LostWrite, PendingSelect, PendingEnqueue, TickEnd, BudgetInv, NothingReset, OnlyRemovals
<1>5. LeftoversAreOver'
  BY <1>1 DEF TickStart, TickStep, ResetSelect, TickReadFlag, TickFillCache, ReconcilePauseState, LostSelect, LostCheck, LostWrite, PendingSelect, PendingEnqueue, TickEnd, BudgetInv, LeftoversAreOver, Enqueuers
<1>6. (\A p \in Posts : JobCounts(p))' /\ (\A w \in Workers : SlotCounts(w))'
  <2>1. UNCHANGED <<analysisAttempts, jobVars, workVars>>
    BY <1>1 DEF TickStart, TickStep, ResetSelect, TickReadFlag, TickFillCache, ReconcilePauseState, LostSelect, LostCheck, LostWrite, PendingSelect, PendingEnqueue, TickEnd
  <2> QED
    BY <1>2, <2>1 DEF BudgetInv, JobCounts, SlotCounts
<1> QED
  BY <1>3, <1>4, <1>5, <1>6 DEF BudgetInv

\* A removal forgets only the jobs of rows that are gone.
LEMMA BudgetCall ==
    ASSUME ChargesOnce, TypeOK, TypeOK', BudgetInv, NEW o \in Operators, CallStart(o) \/ CallStep(o)
    PROVE  BudgetInv'
<1> USE ConstantsAssumption DEF TypeOK, rowVars, jobVars, workVars, tickVars, enqVars, callVars, CallUnchanged
<1>1. ASSUME NEW ids \in SUBSET {p \in Posts : Exists(p)}, BulkRemove(o, ids) PROVE BudgetInv'
  <2> USE <1>1 DEF BulkRemove, SetStatus, SetEnqueue, Exists
  <2>1. FlagStill' /\ NothingReset' /\ OnlyRemovals'
    BY DEF BudgetInv, FlagStill, NothingReset, OnlyRemovals, OpPcs
  <2>2. LeftoversAreOver'
    BY DEF BudgetInv, LeftoversAreOver, Over
  <2>3. (\A q \in Posts : JobCounts(q))' /\ (\A v \in Workers : SlotCounts(v))'
    BY DEF BudgetInv, JobCounts, SlotCounts, Over, Holding, Terminal
  <2> QED
    BY <2>1, <2>2, <2>3 DEF BudgetInv
<1>2. CASE CallStart(o)
  BY <1>1, <1>2 DEF CallStart, PauseAnalysis, EnableSnapshot, BulkSkip, BulkAnalyze, Call, ChargesOnce
<1>3. opc[o] \in {"idle", "forget"}
  BY DEF BudgetInv, OnlyRemovals
<1>4. CASE CallEnd(o)
  <2> USE <1>4 DEF CallEnd
  <2>1. FlagStill' /\ NothingReset' /\ OnlyRemovals' /\ LeftoversAreOver'
    BY DEF BudgetInv, FlagStill, NothingReset, OnlyRemovals, LeftoversAreOver
  <2>2. (\A q \in Posts : JobCounts(q))' /\ (\A v \in Workers : SlotCounts(v))'
    BY DEF BudgetInv, JobCounts, SlotCounts
  <2> QED
    BY <2>1, <2>2 DEF BudgetInv
<1>5. CASE ForgetJob(o)
  <2> USE <1>5 DEF ForgetJob, RemoveJob, FreshJob
  <2>1. FlagStill' /\ NothingReset' /\ OnlyRemovals' /\ LeftoversAreOver'
    BY DEF BudgetInv, FlagStill, NothingReset, OnlyRemovals, LeftoversAreOver
  <2>2. (\A q \in Posts : JobCounts(q))' /\ (\A v \in Workers : SlotCounts(v))'
    BY <1>3 DEF BudgetInv, OnlyRemovals, JobCounts, SlotCounts, Holding, Terminal, Locked
  <2> QED
    BY <2>1, <2>2 DEF BudgetInv
<1> QED
  BY <1>2, <1>3, <1>4, <1>5 DEF CallStep, EnableCommit, EnableResume

\* BullMQ and the clock: a delayed job keeps its counter, and no job is without a slot.
LEMMA BudgetClock ==
    ASSUME ChargesOnce, TypeOK, TypeOK', BudgetInv,
           \/ \E p \in Posts : Promote(p) \/ Stalled(p) \/ Expire(p) \/ LockLoss(p)
           \/ CacheExpire \/ RedisFlush \/ Crash \/ UNCHANGED vars
    PROVE  BudgetInv'
<1> USE ConstantsAssumption DEF TypeOK, rowVars, jobVars, workVars, tickVars, enqVars, callVars, EnvUnchanged
<1>1. ~RedisFlush /\ ~Crash /\ \A p \in Posts : ~LockLoss(p)
  BY DEF RedisFlush, Crash, LockLoss, Fault, ChargesOnce
<1>2. \A p \in Posts : ~Stalled(p)
  BY DEF Stalled, BudgetInv, JobCounts
<1>3. ASSUME NEW p \in Posts, Promote(p) \/ Expire(p) PROVE BudgetInv'
  <2>1. FlagStill' /\ NothingReset' /\ OnlyRemovals' /\ LeftoversAreOver'
    BY <1>3 DEF Promote, Expire, BudgetInv, FlagStill, NothingReset, OnlyRemovals, LeftoversAreOver
  <2>2. (\A q \in Posts : JobCounts(q))' /\ (\A v \in Workers : SlotCounts(v))'
    BY <1>3 DEF Promote, Expire, FreshJob, BudgetInv, JobCounts, SlotCounts, Holding, Terminal, Over
  <2> QED
    BY <2>1, <2>2 DEF BudgetInv
<1>4. CASE CacheExpire \/ UNCHANGED vars
  <2>1. UNCHANGED <<rowVars, jobVars, workVars, tickVars, enqVars, callVars, paused, analysisEnabled, oldRows>> /\ cache' \in {"unset", cache}
    BY <1>4 DEF CacheExpire, vars
  <2>2. FlagStill' /\ NothingReset' /\ OnlyRemovals' /\ LeftoversAreOver'
    BY <2>1 DEF BudgetInv, FlagStill, NothingReset, OnlyRemovals, LeftoversAreOver
  <2>3. (\A q \in Posts : JobCounts(q))' /\ (\A v \in Workers : SlotCounts(v))'
    BY <2>1 DEF BudgetInv, JobCounts, SlotCounts
  <2> QED
    BY <2>2, <2>3 DEF BudgetInv
<1> QED
  BY <1>1, <1>2, <1>3, <1>4

\* AttemptsWithinBudget: however often rows are swept, jobs are added again, retried and
\* removed, the AI is paid at most MaxAttempts times for a post.
THEOREM BudgetKept == ASSUME ChargesOnce PROVE Spec => []AttemptsWithinBudget
<1>1. TypeOK /\ BudgetInv /\ [Next]_vars => TypeOK' /\ BudgetInv'
  BY TypeStep, BudgetSlots, BudgetQueue, BudgetTick, BudgetCall, BudgetClock DEF Next
<1>2. BudgetInv => AttemptsWithinBudget
  BY DEF BudgetInv, JobCounts, AttemptsWithinBudget
<1> QED
  BY TypeInit, BudgetInit, <1>1, <1>2, PTL DEF Spec

-----------------------------------------------------------------------------
(* JobPipeline implements PostLifecycle, for any number of posts, slots,    *)
(* operator calls, lost locks and flushes, once the boot-time reset is over. *)

\* What a slot at pc means for its post.
Kind(pc) == IF pc \in Holding THEN "analysing" ELSE IF pc = "notify" THEN "announcing" ELSE "none"
AtWork   == Holding \cup {"notify"}

\* A step in which no slot begins, ends or changes its kind of work leaves Work alone.
LEMMA WorkSame ==
    ASSUME \A v \in Workers : Kind(wpc'[v]) = Kind(wpc[v]),
           \A v \in Workers : Kind(wpc[v]) # "none" => wpost'[v] = wpost[v]
    PROVE  Work' = Work
<1>1. \A v \in Workers : /\ wpc'[v] \in Holding <=> wpc[v] \in Holding
                         /\ wpc'[v] = "notify" <=> wpc[v] = "notify"
  BY DEF Kind, Holding
<1>2. \A v \in Workers : wpc[v] \in AtWork => wpost'[v] = wpost[v]
  BY DEF Kind, AtWork
<1>3. ASSUME NEW p \in Posts
      PROVE  /\ Busy(p, Holding)' <=> Busy(p, Holding)
             /\ Busy(p, {"notify"})' <=> Busy(p, {"notify"})
  BY <1>1, <1>2 DEF Busy, AtWork
<1> QED
  BY <1>3 DEF Work

\* A slot that moves on, with no other slot at work on its post, changes the work on
\* that post and on no other.
LEMMA WorkMoves ==
    ASSUME TypeOK, NEW w \in Workers, wpost[w] \in Posts, NEW pc,
           wpc' = [wpc EXCEPT ![w] = pc], wpost' = wpost,
           \A v \in Workers : (v # w /\ wpc[v] \in AtWork) => wpost[v] # wpost[w]
    PROVE  /\ Work[wpost[w]] = Kind(wpc[w])
           /\ Work' = [Work EXCEPT ![wpost[w]] = Kind(pc)]
<1> DEFINE p == wpost[w]
<1>1. \A v \in Workers : wpc'[v] = IF v = w THEN pc ELSE wpc[v]
  BY DEF TypeOK
<1>2. /\ Busy(p, Holding) <=> wpc[w] \in Holding
      /\ Busy(p, {"notify"}) <=> wpc[w] = "notify"
  BY DEF Busy, AtWork
<1>3. /\ Busy(p, Holding)' <=> pc \in Holding
      /\ Busy(p, {"notify"})' <=> pc = "notify"
  BY <1>1 DEF Busy, AtWork
<1>4. ASSUME NEW q \in Posts, q # p
      PROVE  /\ Busy(q, Holding)' <=> Busy(q, Holding)
             /\ Busy(q, {"notify"})' <=> Busy(q, {"notify"})
  BY <1>1, <1>4 DEF Busy
<1>5. Work[p] = Kind(wpc[w])
  BY <1>2 DEF Work, Kind
<1>6. Work'[p] = Kind(pc)
  BY <1>3 DEF Work, Kind
<1>7. \A q \in Posts : q # p => Work'[q] = Work[q]
  BY <1>4 DEF Work
<1>8. Work' = [Work EXCEPT ![p] = Kind(pc)]
  BY <1>6, <1>7 DEF Work
<1> QED
  BY <1>5, <1>8

\* A step that touches neither rows' status nor announcements nor slots is a stutter.
LEMMA Stutter ==
    ASSUME UNCHANGED <<status, matchEvents, wpc, wpost>>
    PROVE  UNCHANGED Life!vars
<1>1. Work' = Work
  BY DEF Work, Busy
<1> QED
  BY <1>1 DEF Life!vars

\* Steps of a slot that is past the claim, or wins it: what they do to the row is the
\* begin, the end or the verdict of its post's life cycle.
LEMMA SlotRefines ==
    ASSUME NoBootReset, TypeOK, RowInv, NEW w \in Workers, WorkerStep(w) \/ WorkerDbError(w)
    PROVE  [Life!Next]_(Life!vars)
<1> DEFINE p == wpost[w]
           To(pc) == wpc' = [wpc EXCEPT ![w] = pc] /\ wpost' = wpost
           Write(st) == status' = [status EXCEPT ![p] = st]
<1>1. wpc[w] # "idle" => p \in Posts
  BY DEF TypeOK
<1>2. \A v \in Workers : (wpc[w] \in AtWork /\ v # w /\ wpc[v] \in AtWork) => wpost[v] # p
  BY DEF RowInv, AtWork
<1>3. wpc[w] \in Holding => status[p] \in {"PROCESSING", "DELETED"}
  BY DEF RowInv
<1>4. ASSUME wpc[w] \in AtWork, NEW pc, To(pc)
      PROVE  Work[p] = Kind(wpc[w]) /\ Work' = [Work EXCEPT ![p] = Kind(pc)] /\ p \in Posts
  <2>1. wpc[w] # "idle"
    BY <1>4 DEF AtWork, Holding
  <2> QED
    BY <1>1, <1>2, <1>4, <2>1, WorkMoves
\* The slot goes on, with its work of the same kind.
<1>5. ASSUME NEW pc, To(pc), wpc[w] # "idle", Kind(pc) = Kind(wpc[w]), UNCHANGED <<status, matchEvents>>
      PROVE  UNCHANGED Life!vars
  <2>1. \A v \in Workers : Kind(wpc'[v]) = Kind(wpc[v])
    BY <1>5 DEF TypeOK
  <2> QED
    BY <1>5, <2>1, WorkSame DEF Life!vars
\* The slot stops working without having written anything.
<1>6. ASSUME wpc[w] \in Holding, NEW pc, To(pc), Kind(pc) = "none", UNCHANGED <<status, matchEvents>>
      PROVE  Life!Next
  <2>1. Life!GiveUp(p) /\ p \in Posts
    BY <1>4, <1>6 DEF Life!GiveUp, Kind, AtWork
  <2> QED
    BY <2>1 DEF Life!Next
\* The slot gives the row back.
<1>7. ASSUME wpc[w] \in Holding, NEW pc, To(pc), Kind(pc) = "none", UNCHANGED matchEvents,
             status[p] # "DELETED", NEW st \in {"NEW", "FAILED"}, Write(st)
      PROVE  Life!Next
  <2>1. status[p] = "PROCESSING"
    BY <1>3, <1>7
  <2>2. Life!GiveUp(p) /\ p \in Posts
    BY <1>4, <1>7, <2>1 DEF Life!GiveUp, Kind, AtWork
  <2> QED
    BY <2>2 DEF Life!Next
\* The announcement is over, made or not.
<1>8. ASSUME wpc[w] = "notify", To("complete"), UNCHANGED status,
              matchEvents' \in {matchEvents, [matchEvents EXCEPT ![p] = @ + 1]}
       PROVE  Life!Next
  <2>1. wpc[w] \in AtWork /\ Kind(wpc[w]) = "announcing" /\ Kind("complete") = "none"
    BY <1>8 DEF AtWork, Kind, Holding
  <2>2. Work[p] = Kind(wpc[w]) /\ Work' = [Work EXCEPT ![p] = Kind("complete")] /\ p \in Posts
    BY <1>4, <1>8, <2>1
  <2>3. Life!Announce(p)
    BY <1>8, <2>1, <2>2 DEF Life!Announce
  <2> QED
    BY <2>2, <2>3 DEF Life!Next
<1>9. \A st : SetStatus({p}, st) /\ p \in Posts => Write(st)
  BY DEF SetStatus, TypeOK
<1> USE DEF Goto, WorkerUnchanged, rowVars
<1>10. CASE Claim(w)
  <2>1. CASE status[p] = "NEW"
    <3>1. To("flag") /\ UNCHANGED matchEvents /\ Write("PROCESSING") /\ p \in Posts
      BY <1>1, <1>9, <1>10, <2>1 DEF Claim
    <3>2. \A v \in Workers : wpc[v] \in AtWork => wpost[v] # p
      BY <2>1 DEF RowInv, AtWork
    <3>3. Work[p] = Kind(wpc[w]) /\ Work' = [Work EXCEPT ![p] = Kind("flag")]
      BY <3>1, <3>2, WorkMoves
    <3>4. Kind(wpc[w]) = "none" /\ Kind("flag") = "analysing"
      BY <1>10 DEF Claim, Kind, Holding
    <3>5. Life!Begin(p)
      BY <2>1, <3>1, <3>3, <3>4 DEF Life!Begin
    <3> QED
      BY <3>1, <3>5 DEF Life!Next
  <2>2. CASE status[p] # "NEW"
    <3>1. To("complete") /\ wpc[w] = "claim" /\ UNCHANGED <<status, matchEvents>>
      BY <1>10, <2>2 DEF Claim
    <3> QED
      BY <1>5, <3>1 DEF Kind, Holding
  <2> QED
    BY <2>1, <2>2
<1>11. CASE ReadFlag(w) \/ FillCache(w) \/ Gate(w) \/ Evaluate(w)
  <2>1. /\ wpc[w] \in Holding /\ UNCHANGED <<status, matchEvents>>
        /\ \E pc \in Holding : To(pc)
    BY <1>11 DEF ReadFlag, FillCache, Gate, Evaluate, AfterFlag, Holding
  <2> QED
    BY <1>5, <2>1 DEF Kind, Holding
<1>12. CASE RollBack(w)
  <2>1. wpc[w] \in Holding /\ UNCHANGED matchEvents /\ p \in Posts
    BY <1>1, <1>12 DEF RollBack, Holding
  <2>2. CASE Exists(p)
    <3>1. To("complete") /\ Write("NEW")
      BY <1>9, <1>12, <2>1, <2>2 DEF RollBack
    <3> QED
      BY <1>7, <2>1, <2>2, <3>1 DEF Kind, Holding, Exists
  <2>3. CASE ~Exists(p)
    <3>1. To("fail") /\ UNCHANGED status
      BY <1>12, <2>3 DEF RollBack
    <3> QED
      BY <1>6, <2>1, <3>1 DEF Kind, Holding
  <2> QED
    BY <2>2, <2>3
<1>13. CASE WriteVerdict(w)
  <2>1. wpc[w] \in Holding /\ UNCHANGED matchEvents /\ p \in Posts
    BY <1>1, <1>13 DEF WriteVerdict, Holding
  <2>2. CASE Exists(p)
    <3>1. PICK pc \in {"notify", "complete"} : To(pc)
      BY <1>13, <2>2 DEF WriteVerdict
    <3>2. Write("PROCESSED")
      BY <1>9, <1>13, <2>1, <2>2 DEF WriteVerdict
    <3>3. Kind(pc) \in {"announcing", "none"} /\ Kind(wpc[w]) = "analysing"
      BY <2>1 DEF Kind, Holding
    <3>4. status[p] = "PROCESSING"
      BY <1>3, <2>1, <2>2 DEF Exists
    <3>5. Work[p] = "analysing" /\ Work' = [Work EXCEPT ![p] = Kind(pc)]
      BY <1>4, <2>1, <3>1, <3>3 DEF AtWork
    <3>6. Life!Decide(p)
      BY <2>1, <3>2, <3>3, <3>4, <3>5 DEF Life!Decide
    <3> QED
      BY <2>1, <3>6 DEF Life!Next
  <2>3. CASE ~Exists(p)
    <3>1. To("transient") /\ UNCHANGED status
      BY <1>13, <2>3 DEF WriteVerdict
    <3> QED
      BY <1>5, <2>1, <3>1 DEF Kind, Holding
  <2> QED
    BY <2>2, <2>3
<1>14. CASE Notify(w)
  BY <1>14, <1>8 DEF Notify
<1>15. CASE CatchError(w)
  <2>1. wpc[w] \in Holding /\ UNCHANGED matchEvents /\ To("fail") /\ p \in Posts
    BY <1>1, <1>15 DEF CatchError, Holding
  <2>2. CASE Exists(p)
    <3>1. PICK st \in {"NEW", "FAILED"} : SetStatus({p}, st)
      BY <1>15, <2>2 DEF CatchError
    <3> QED
      BY <1>7, <1>9, <2>1, <2>2, <3>1 DEF Kind, Holding, Exists
  <2>3. CASE ~Exists(p)
    <3>1. UNCHANGED status
      BY <1>15, <2>3 DEF CatchError
    <3> QED
      BY <1>6, <2>1, <3>1 DEF Kind, Holding
  <2> QED
    BY <2>2, <2>3
<1>16. CASE Settle(w)
  <2>1. /\ wpc[w] \in {"complete", "fail"} /\ UNCHANGED <<status, matchEvents>>
        /\ wpc' = [wpc EXCEPT ![w] = "idle"] /\ wpost' = [wpost EXCEPT ![w] = NoPost]
    BY <1>16 DEF Settle
  <2>2. \A v \in Workers : Kind(wpc'[v]) = Kind(wpc[v])
    BY <2>1 DEF Kind, Holding, TypeOK
  <2>3. \A v \in Workers : Kind(wpc[v]) # "none" => wpost'[v] = wpost[v]
    BY <2>1 DEF Kind, Holding, TypeOK
  <2>4. Work' = Work
    BY <2>2, <2>3, WorkSame
  <2> QED
    BY <2>1, <2>4 DEF Life!vars
<1>17. CASE WorkerDbError(w)
  <2>1. UNCHANGED <<status, matchEvents>>
    BY <1>17 DEF WorkerDbError
  <2>2. CASE wpc[w] = "claim" /\ To("fail")
    BY <1>5, <2>1, <2>2 DEF Kind, Holding
  <2>3. CASE wpc[w] \in {"flag", "rollback", "transient", "permanent"} /\ To("fail")
    BY <1>6, <2>1, <2>3 DEF Kind, Holding
  <2>4. CASE wpc[w] \in {"gate", "decline", "accept"} /\ To("transient")
    BY <1>5, <2>1, <2>4 DEF Kind, Holding
  <2>5. CASE wpc[w] = "notify" /\ To("complete")
    BY <1>8, <2>1, <2>5
  <2> QED
    BY <1>17, <2>2, <2>3, <2>4, <2>5 DEF WorkerDbError
<1> QED
  BY <1>10, <1>11, <1>12, <1>13, <1>14, <1>15, <1>16, <1>17 DEF WorkerStep

\* Every step of the pipeline is a step of the life cycle, or changes nothing of it.
LEMMA StepRefines ==
    ASSUME NoBootReset, TypeOK, RowInv, [Next]_vars
    PROVE  [Life!Next]_(Life!vars)
<1>1. ASSUME NEW p \in Posts, commitLink(p) PROVE Life!Next
  <2>1. Work' = Work
    BY <1>1 DEF commitLink, workVars, Work, Busy
  <2>2. Life!Arrive(p)
    BY <1>1, <2>1 DEF commitLink, Life!Arrive
  <2> QED
    BY <2>2 DEF Life!Next
<1>2. ASSUME NEW w \in Workers, WorkerStep(w) \/ WorkerDbError(w) PROVE [Life!Next]_(Life!vars)
  BY <1>2, SlotRefines
<1>3. ASSUME NEW w \in Workers, NEW p \in Posts, Pick(w, p) PROVE UNCHANGED Life!vars
  <2>1. Kind("idle") = "none" /\ Kind("claim") = "none"
    BY DEF Kind, Holding
  <2>2. \A v \in Workers : Kind(wpc'[v]) = Kind(wpc[v]) /\ (Kind(wpc[v]) # "none" => wpost'[v] = wpost[v])
    BY <1>3, <2>1 DEF Pick, TypeOK
  <2>3. Work' = Work
    BY <2>2, WorkSame
  <2> QED
    BY <1>3, <2>3 DEF Pick, rowVars, Life!vars
<1>4. CASE TickStart \/ TickStep
  <2>1. ~ResetSelect /\ ~ResetActive /\ ~ResetWrite
    BY DEF RowInv, ResetSelect, ResetActive, ResetWrite
  <2>2. UNCHANGED <<status, matchEvents, wpc, wpost>>
    BY <1>4, <2>1 DEF TickStart, TickStep, TickUnchanged, workVars, TickReadFlag, TickFillCache,
        ReconcilePauseState, LostSelect, LostCheck, LostWrite, PendingSelect, PendingEnqueue, TickEnd
  <2> QED
    BY <2>2, Stutter
<1>5. ASSUME NEW o \in Operators, CallStart(o) \/ CallStep(o) PROVE [Life!Next]_(Life!vars)
  <2> USE DEF CallUnchanged, workVars, rowVars
  <2>1. Work' = Work /\ UNCHANGED matchEvents
    <3>1. UNCHANGED <<matchEvents, wpc, wpost>>
      BY <1>5 DEF CallStart, CallStep, PauseAnalysis, EnableSnapshot, BulkSkip, BulkAnalyze,
                  BulkRemove, EnableCommit, EnableResume, ForgetJob, CallEnd
    <3> QED
      BY <3>1 DEF Work, Busy
  <2>2. ASSUME NEW ids \in SUBSET Posts, BulkSkip(o, ids) PROVE Life!Next
    <3> DEFINE S == {p \in ids : status[p] = "NEW"}
    <3>1. Life!Dismiss(S)
      BY <2>1, <2>2 DEF BulkSkip, SetStatus, Life!Dismiss, Life!Move
    <3>2. S \in SUBSET Posts
      OBVIOUS
    <3> QED
      BY <3>1, <3>2 DEF Life!Next
  <2>3. ASSUME NEW ids \in SUBSET Posts, BulkAnalyze(o, ids) PROVE Life!Next
    <3> DEFINE S == {p \in ids : status[p] = "FAILED"}
    <3>1. Life!Retry(S)
      BY <2>1, <2>3 DEF BulkAnalyze, SetStatus, Life!Retry, Life!Move
    <3>2. S \in SUBSET Posts
      OBVIOUS
    <3> QED
      BY <3>1, <3>2 DEF Life!Next
  <2>4. ASSUME NEW ids \in SUBSET Posts, BulkRemove(o, ids) PROVE Life!Next
    <3> DEFINE S == {p \in ids : Exists(p)}
    <3>1. Life!Delete(S)
      BY <2>1, <2>4 DEF BulkRemove, SetStatus, Exists, TypeOK, Statuses, Life!Delete, Life!Move
    <3>2. S \in SUBSET Posts
      OBVIOUS
    <3> QED
      BY <3>1, <3>2 DEF Life!Next
  <2>5. ASSUME NEW recent \in SUBSET Posts, EnableCommit(o, recent) PROVE [Life!Next]_(Life!vars)
    <3>1. CASE analysisEnabled = "on"
      BY <2>1, <2>5, <3>1 DEF EnableCommit, Life!vars
    <3>2. CASE analysisEnabled # "on"
      <4> DEFINE S == {p \in oids[o] : status[p] = "NEW"} \ recent
      <4>1. Life!Dismiss(S)
        BY <2>1, <2>5, <3>2 DEF EnableCommit, SetStatus, Life!Dismiss, Life!Move
      <4>2. S \in SUBSET Posts
        BY DEF TypeOK
      <4> QED
        BY <4>1, <4>2 DEF Life!Next
    <3> QED
      BY <3>1, <3>2
  <2>6. CASE PauseAnalysis(o) \/ EnableSnapshot(o) \/ EnableResume(o) \/ ForgetJob(o) \/ CallEnd(o)
    <3>1. UNCHANGED status
      BY <2>6 DEF PauseAnalysis, EnableSnapshot, EnableResume, ForgetJob, CallEnd
    <3> QED
      BY <2>1, <3>1 DEF Life!vars
  <2> QED
    BY <1>5, <2>2, <2>3, <2>4, <2>5, <2>6 DEF CallStart, CallStep
<1>6. ASSUME NEW e \in Enqueuers, enqueue(e) PROVE UNCHANGED Life!vars
  <2>1. UNCHANGED <<status, matchEvents, wpc, wpost>>
    BY <1>6 DEF enqueue, EnqueueCheck, EnqueueGhost, EnqueueAdd, EnqueueMark, EnqueueUnchanged, workVars
  <2> QED
    BY <2>1, Stutter
<1>7. ASSUME NEW p \in Posts, Promote(p) \/ Stalled(p) \/ Expire(p) \/ LockLoss(p)
      PROVE  UNCHANGED Life!vars
  <2>1. UNCHANGED <<status, matchEvents, wpc, wpost>>
    BY <1>7 DEF Promote, Stalled, Expire, LockLoss, EnvUnchanged, rowVars, workVars
  <2> QED
    BY <2>1, Stutter
<1>8. CASE CacheExpire \/ RedisFlush \/ UNCHANGED vars
  <2>1. UNCHANGED <<status, matchEvents, wpc, wpost>>
    BY <1>8 DEF CacheExpire, RedisFlush, EnvUnchanged, vars, rowVars, workVars
  <2> QED
    BY <2>1, Stutter
<1>9. ~Crash
  BY DEF Crash, Fault, NoBootReset
<1> QED
  BY <1>1, <1>2, <1>3, <1>4, <1>5, <1>6, <1>7, <1>8, <1>9 DEF Next

\* The boot state maps to the boot state of the life cycle.
LEMMA InitRefines == Init => Life!Init
  BY DEF Init, Life!Init, Work, Busy, Holding

\* Without the boot-time reset the pipeline implements the life cycle of its rows,
\* whatever jobs Redis loses or hands out twice.
THEOREM Implementation == ASSUME NoBootReset PROVE Spec => ImplementsLifecycle
<1>1. TypeOK /\ RowInv /\ [Next]_vars => [Life!Next]_(Life!vars)
  BY StepRefines
<1> QED
  BY <1>1, InitRefines, RowInvariant, PTL DEF Spec, ImplementsLifecycle, Life!Spec
=============================================================================

------------------------------- MODULE MCLive -------------------------------
(*****************************************************************************)
(* What must happen in the end: the job pipeline and the components below,   *)
(* each behaviour about one of them, under the fairness that cron and        *)
(* BullMQ give.                                                              *)
(*****************************************************************************)
EXTENDS JobPipeline, Integers, FiniteSets, TLC

VARIABLE part   \* the component that this behaviour is about
\* The variables of that component, whichever it is; those it does not need are "-".
VARIABLES slot1, slot2, slot3, slot4, slot5, slot6, slot7, slot8, slot9

Phone == INSTANCE PhoneMaintenance WITH
    Phones <- {"p1"}, Requests <- {"r1", "r2"}, Users <- {"u1"},
    Horizon <- 6, MaxCalls <- 2, MaxFaults <- 1, now <- slot1,
    phone <- slot2, task <- slot3, sweep <- slot4, req <- slot5,
    calls <- slot6, faults <- slot7, edited <- slot8, said <- slot9

\* The base again, with other calls and faults.
Flushed == INSTANCE JobPipeline WITH
    Calls <- {"skip", "remove"}, MaxCalls <- 1,
    Faults <- {"flush", "redisError"}, MaxFaults <- 1

varsPhone == <<slot1, slot2, slot3, slot4, slot5, slot6, slot7, slot8, slot9>>
slots == <<slot1, slot2, slot3, slot4, slot5, slot6, slot7, slot8, slot9>>
allVars == <<part, vars, slots>>

PartsInit ==
    \/ /\ part = "pipeline" /\ Init
       /\ slot1 = "-" /\ slot2 = "-" /\ slot3 = "-" /\ slot4 = "-" /\ slot5 = "-"
       /\ slot6 = "-" /\ slot7 = "-" /\ slot8 = "-" /\ slot9 = "-"
    \/ /\ part = "flushed" /\ Flushed!Init
       /\ slot1 = "-" /\ slot2 = "-" /\ slot3 = "-" /\ slot4 = "-" /\ slot5 = "-"
       /\ slot6 = "-" /\ slot7 = "-" /\ slot8 = "-" /\ slot9 = "-"
    \/ /\ part = "phone" /\ Init /\ analysisEnabled = "on" /\ Phone!Init

PartsNext ==
    \/ /\ part = "pipeline" /\ Next
       /\ UNCHANGED <<part, slot1, slot2, slot3, slot4, slot5, slot6, slot7,
                       slot8, slot9>>
    \/ /\ part = "flushed" /\ Flushed!Next
       /\ UNCHANGED <<part, slot1, slot2, slot3, slot4, slot5, slot6, slot7,
                       slot8, slot9>>
    \/ /\ part = "phone" /\ Phone!Next
       /\ UNCHANGED <<part, vars>>

PartsSpec == PartsInit /\ [][PartsNext]_allVars

PartsFairness ==
    /\ \A e \in Enqueuers : WF_vars((part = "pipeline" /\ enqueue(e)) \/ (part = "flushed" /\ Flushed!enqueue(e)))
    /\ \A w \in Workers : WF_vars((part = "pipeline" /\ WorkerStep(w)) \/ (part = "flushed" /\ Flushed!WorkerStep(w)))
    /\ \A p \in Posts :
         /\ SF_vars((part = "pipeline" /\ \E w \in Workers : Pick(w, p))
                  \/ (part = "flushed" /\ \E w \in Workers : Flushed!Pick(w, p)))
         /\ WF_vars((part = "pipeline" /\ Promote(p)) \/ (part = "flushed" /\ Flushed!Promote(p)))
         /\ WF_vars((part = "pipeline" /\ Stalled(p)) \/ (part = "flushed" /\ Flushed!Stalled(p)))
    /\ WF_vars((part = "pipeline" /\ TickStart) \/ (part = "flushed" /\ Flushed!TickStart))
    /\ WF_vars((part = "pipeline" /\ TickStep) \/ (part = "flushed" /\ Flushed!TickStep))
    /\ WF_vars((part = "pipeline" /\ CacheExpire) \/ (part = "flushed" /\ Flushed!CacheExpire))
    /\ \A o \in Operators : WF_vars((part = "pipeline" /\ CallStep(o)) \/ (part = "flushed" /\ Flushed!CallStep(o)))
    /\ WF_varsPhone(part = "phone" /\ Phone!SweepStart)
    /\ WF_varsPhone(part = "phone" /\ Phone!SweepFlip)
    /\ WF_varsPhone(part = "phone" /\ Phone!SweepCreates)

PartsFairSpec == PartsSpec /\ PartsFairness

\* The properties of PhoneMaintenance, stated and explained there.
DueGetsTask == []<>(part = "phone" => Phone!NothingWaits)

=============================================================================

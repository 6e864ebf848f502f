---------------------------- MODULE CallReminder ----------------------------
(***************************************************************************)
(* Client calls and their reminders: CallReminderService (a tick every     *)
(* five minutes, with a catch-up window and a unique stamp per reminder)   *)
(* against ClientCallsService (create, update, remove), whose update reads *)
(* the call, decides, and writes later.  The unit of time is five minutes. *)
(***************************************************************************)
EXTENDS Integers, FiniteSets

CONSTANTS Calls,        \* ids of client calls
          Operators,    \* concurrent update requests
          Slots,        \* times an operator may ask for
          Requests,     \* what a request says of the status, or "same"
          Horizon,      \* bound of the clock
          MaxEdits,     \* bound of the updates
          MaxMissed,    \* bound of the ticks that are missed or fail
          MaxFaults     \* bound of the faults after the stamp is written

VARIABLES clock, up,
          call,     \* the ClientCall rows; version counts its schedules
          stamps,   \* the CallReminderSent rows
          tick,     \* the tick at work: the window, its now, the rows it read
          sent,     \* CALL_REMINDER events for the present schedule of a call
          notices,  \* CALL_RESCHEDULED and CALL_CANCELLED events
          op,       \* updates between their read and their transaction
          edits, missed, faults,
          hurt      \* history: reminders that a race or a fault has cost

vars == <<clock, up, call, stamps, tick, sent, notices, op, edits, missed,
          faults, hurt>>
callVars  == <<call, notices, op, edits>>
faultVars == <<missed, faults>>

Windows == {"min60", "min10"}
Offset == [w \in Windows |-> IF w = "min60" THEN 12 ELSE 2]
Catchup == 2        \* CATCHUP_WINDOW_MS
Period == 1         \* CRON_INTERVAL_MS
MinNotice == 6      \* assertScheduledInFuture

Status == {"none", "scheduled", "cancelled", "completed", "deleted"}
Exists(c) == call[c].st \notin {"none", "deleted"}
NoCall == [st |-> "none", at |-> 0, anchor |-> 0, version |-> 0]
Row(c) == [id |-> c, at |-> call[c].at, anchor |-> call[c].anchor,
           version |-> call[c].version]
NoRow == [id |-> "-", at |-> 0, anchor |-> 0, version |-> 0]
IdleTick == [pc |-> "idle", w |-> "min60", now |-> 0, batch |-> {}, cur |-> NoRow]
IdleOp == [pc |-> "idle", id |-> "-", at |-> 0, st |-> "same",
           changed |-> "no", cancels |-> "no", since |-> 0]

Init ==
    /\ clock = 0 /\ up = "on"
    /\ call = [c \in Calls |-> NoCall]
    /\ stamps = {}
    /\ tick = IdleTick
    /\ sent = [c \in Calls |-> [w \in Windows |-> 0]]
    /\ notices = {}
    /\ op = [o \in Operators |-> IdleOp]
    /\ edits = 0 /\ missed = 0 /\ faults = 0
    /\ hurt = {}

-----------------------------------------------------------------------------
(* Requests of operators.                                                  *)

Create(c, at) ==
    /\ up = "on" /\ call[c].st = "none"
    /\ at >= clock + MinNotice
    /\ call' = [call EXCEPT ![c] = [st |-> "scheduled", at |-> at,
                                    anchor |-> clock, version |-> 0]]
    /\ UNCHANGED <<clock, up, stamps, tick, sent, notices, op, edits, hurt, faultVars>>

\* update() up to the transaction: what changes is decided on this read.
UpdateRead(o, c, at, st) ==
    /\ up = "on" /\ op[o].pc = "idle" /\ edits < MaxEdits
    /\ Exists(c)
    /\ LET changed == at # 0 /\ at # call[c].at IN
         /\ changed /\ st \notin {"cancelled", "completed"} => at >= clock + MinNotice
         /\ op' = [op EXCEPT ![o] = [pc |-> "tx", id |-> c, at |-> at, st |-> st,
                                     changed |-> IF changed THEN "yes" ELSE "no",
                                     cancels |-> IF st = "cancelled" /\ call[c].st # "cancelled"
                                                 THEN "yes" ELSE "no",
                                     since |-> clock]]
    /\ edits' = edits + 1
    /\ UNCHANGED <<clock, up, call, stamps, tick, sent, notices, hurt, faultVars>>

\* Mutant: a request without a date clears it.
NewAtCleared(c, u) == IF u.at = 0 THEN -1 ELSE u.at
\* What the transaction writes: a given time is stored even when the read
\* found no change, the anchor moves and the stamps go only when it did.
NewAt(c, u) == IF u.at = 0 THEN call[c].at ELSE u.at
Rewritten(c, u) ==
    [st      |-> IF u.st = "same" THEN call[c].st ELSE u.st,
     at      |-> NewAt(c, u),
     anchor  |-> IF u.changed = "yes" THEN clock ELSE call[c].anchor,
     version |-> IF u.changed = "yes" \/ NewAt(c, u) # call[c].at
                 THEN call[c].version + 1 ELSE call[c].version]
\* Mutants: every update purges the stamps; no update does.
PurgedAlways(c, u) == {s \in stamps : s[1] # c}
PurgedNever(c, u) == stamps
Purged(c, u) ==
    IF u.changed = "yes" THEN {s \in stamps : s[1] # c} ELSE stamps

InHand(c) == c \in {r.id : r \in tick.batch \cup {tick.cur}}

\* Mutant: a cancellation hides the move that came with it.
AnnouncedOne(c, u) ==
    IF u.cancels = "yes" THEN {<<c, "cancelled", call[c].version>>}
    ELSE IF u.changed = "yes" THEN {<<c, "rescheduled", call[c].version + 1>>} ELSE {}
\* CALL_RESCHEDULED and CALL_CANCELLED; a failure to create one is logged.
Announced(c, u) ==
    (IF u.changed = "yes" THEN {<<c, "rescheduled", call[c].version + 1>>} ELSE {})
    \cup (IF u.cancels = "yes" THEN {<<c, "cancelled", call[c].version>>} ELSE {})

\* Races that cost reminders: the tick holds the old row, a stale request
\* writes an old time back without the purge, a call is scheduled again.
Hurts(c, u) ==
    \/ InHand(c)
    \/ u.changed = "no" /\ NewAt(c, u) # call[c].at
    \/ u.st = "scheduled" /\ call[c].st # "scheduled"
HurtAfter(c, u) ==
    LET ofCall == {c} \X Windows IN
    CASE Hurts(c, u) -> hurt \cup ofCall
      [] ~Hurts(c, u) /\ u.changed = "yes" /\ u.st = "same"
           /\ call[c].st = "scheduled" -> hurt \ ofCall
      [] OTHER -> hurt

UpdateTx(o) ==
    LET u == op[o]
        c == u.id IN
    /\ op[o].pc = "tx"
    /\ op' = [op EXCEPT ![o] = IdleOp]
    /\ IF ~Exists(c)      \* P2025
       THEN UNCHANGED <<call, stamps, sent, notices, hurt, faults>>
       ELSE /\ call' = [call EXCEPT ![c] = Rewritten(c, u)]
            /\ stamps' = Purged(c, u)
            /\ sent' = IF Rewritten(c, u).version = call[c].version THEN sent
                       ELSE [sent EXCEPT ![c] = [w \in Windows |-> 0]]
            /\ hurt' = HurtAfter(c, u)
            /\ \/ /\ notices' = notices \cup Announced(c, u)
                  /\ UNCHANGED faults
               \/ /\ Announced(c, u) # {}                     \* an event is lost
                  /\ faults < MaxFaults /\ faults' = faults + 1
                  /\ UNCHANGED notices
    /\ UNCHANGED <<clock, up, tick, edits, missed>>

\* remove() and bulkRemove(); the stamps go with the row.
Remove(c) ==
    /\ up = "on" /\ Exists(c)
    /\ call' = [call EXCEPT ![c].st = "deleted"]
    /\ stamps' = {s \in stamps : s[1] # c}
    /\ UNCHANGED <<clock, up, tick, sent, notices, op, edits, hurt, faultVars>>

-----------------------------------------------------------------------------
(* The tick.                                                               *)

Miss == missed < MaxMissed /\ missed' = missed + 1

\* A five-minute boundary: runTick starts a tick unless one is running.  An
\* update takes less than five minutes, so it meets at most one boundary.
Boundary ==
    /\ clock < Horizon
    /\ \A o \in Operators : op[o].pc = "tx" => op[o].since = clock
    /\ clock' = clock + 1
    /\ IF up = "on" /\ tick.pc = "idle"
       THEN /\ tick' = [IdleTick EXCEPT !.pc = "query", !.now = clock + 1]
            /\ UNCHANGED missed
       ELSE Miss /\ UNCHANGED tick
    /\ UNCHANGED <<up, stamps, sent, hurt, faults, callVars>>

\* Mutant: no look back.
InWindowNoCatchup(c, w) ==
    /\ call[c].st = "scheduled"
    /\ call[c].at >= tick.now + Offset[w]
    /\ call[c].at <= tick.now + Offset[w] + Period
InWindow(c, w) ==
    /\ call[c].st = "scheduled"
    /\ call[c].at >= tick.now + Offset[w] - Catchup
    /\ call[c].at <= tick.now + Offset[w] + Period

\* The two hard guards, on the row as it is read.
Due(c, w) == call[c].at > tick.now /\ call[c].at - call[c].anchor >= Offset[w]

AfterWindow ==
    IF tick.w = "min60" THEN [IdleTick EXCEPT !.pc = "query", !.w = "min10", !.now = tick.now] ELSE IdleTick

Query ==
    /\ tick.pc = "query"
    /\ LET rows == {Row(c) : c \in {d \in Calls : InWindow(d, tick.w) /\ Due(d, tick.w)}} IN
         tick' = IF rows = {} THEN AfterWindow
                 ELSE [tick EXCEPT !.pc = "each", !.batch = rows]
    /\ UNCHANGED <<clock, up, stamps, sent, hurt, callVars, faultVars>>

QueryFails ==
    /\ tick.pc = "query" /\ Miss
    /\ tick' = IdleTick
    /\ UNCHANGED <<clock, up, stamps, sent, hurt, faults, callVars>>

\* The loop moves on to the next row, or to the next window.
Rest(batch) ==
    IF batch = {} THEN AfterWindow
    ELSE [tick EXCEPT !.pc = "each", !.batch = batch, !.cur = NoRow]

AlreadySent(r) ==
    /\ tick.pc = "each" /\ r \in tick.batch
    /\ \/ <<r.id, tick.w>> \in stamps        \* P2002
       \/ call[r.id].st = "deleted"          \* the foreign key
    /\ tick' = Rest(tick.batch \ {r})
    /\ UNCHANGED <<clock, up, stamps, sent, hurt, callVars, faultVars>>

Stamp(r) ==
    /\ tick.pc = "each" /\ r \in tick.batch
    /\ <<r.id, tick.w>> \notin stamps /\ call[r.id].st # "deleted"
    /\ \/ /\ stamps' = stamps \cup {<<r.id, tick.w>>}
          /\ tick' = [tick EXCEPT !.batch = @ \ {r}, !.pc = "event", !.cur = r]
          /\ UNCHANGED missed
       \/ /\ Miss                            \* the insert fails
          /\ tick' = Rest(tick.batch \ {r})
          /\ UNCHANGED stamps
    /\ UNCHANGED <<clock, up, sent, hurt, faults, callVars>>

\* An event for a schedule that was replaced meanwhile is not counted.
Emitted(r, w) ==
    IF r.version = call[r.id].version THEN [sent EXCEPT ![r.id][w] = @ + 1] ELSE sent
Unstamped == stamps \ {<<tick.cur.id, tick.w>>}

Emit ==
    /\ tick.pc = "event"
    /\ sent' = Emitted(tick.cur, tick.w)
    /\ tick' = Rest(tick.batch)
    /\ UNCHANGED <<clock, up, stamps, hurt, callVars, faultVars>>

\* createEvent throws: the stamp is taken back for the next tick.
EmitFails ==
    /\ tick.pc = "event" /\ Miss
    /\ stamps' = Unstamped
    /\ tick' = Rest(tick.batch)
    /\ UNCHANGED <<clock, up, sent, hurt, faults, callVars>>

\* Worse: the event was committed and only its answer was lost, or the
\* stamp cannot be taken back.
EmitGoesWrong ==
    /\ tick.pc = "event" /\ faults < MaxFaults
    /\ faults' = faults + 1
    /\ \/ /\ sent' = Emitted(tick.cur, tick.w)
          /\ stamps' = Unstamped
          /\ UNCHANGED hurt
       \/ /\ hurt' = hurt \cup {<<tick.cur.id, tick.w>>}
          /\ UNCHANGED <<sent, stamps>>
    /\ tick' = Rest(tick.batch)
    /\ UNCHANGED <<clock, up, missed, callVars>>

Crash ==
    /\ up = "on" /\ up' = "off"
    /\ IF tick.pc = "event"
       THEN /\ faults < MaxFaults /\ faults' = faults + 1
            /\ hurt' = hurt \cup {<<tick.cur.id, tick.w>>}
       ELSE UNCHANGED <<faults, hurt>>
    /\ IF tick.pc = "idle" THEN UNCHANGED missed ELSE Miss
    /\ tick' = IdleTick
    /\ op' = [o \in Operators |-> IdleOp]
    /\ UNCHANGED <<clock, call, stamps, sent, notices, edits>>

Restart ==
    /\ up = "off" /\ up' = "on"
    /\ UNCHANGED <<clock, stamps, tick, sent, hurt, callVars, faultVars>>

Next ==
    \/ \E c \in Calls, at \in Slots : Create(c, at)
    \/ \E o \in Operators, c \in Calls, at \in Slots \cup {0}, st \in Requests :
             UpdateRead(o, c, at, st)
    \/ \E o \in Operators : UpdateTx(o)
    \/ \E c \in Calls : Remove(c)
    \/ Boundary \/ Query \/ QueryFails
    \/ \E r \in tick.batch : AlreadySent(r) \/ Stamp(r)
    \/ Emit \/ EmitFails \/ EmitGoesWrong
    \/ Crash \/ Restart

Spec == Init /\ [][Next]_vars

-----------------------------------------------------------------------------
\* Every variable has its type.
TypeOK ==
    /\ clock \in 0..Horizon /\ up \in {"on", "off"}
    /\ call \in [Calls -> [st : Status, at : Nat, anchor : Nat, version : Nat]]
    /\ stamps \subseteq Calls \X Windows
    /\ tick.pc \in {"idle", "query", "each", "event"}
    /\ notices \subseteq Calls \X {"rescheduled", "cancelled"} \X Nat
    /\ hurt \subseteq Calls \X Windows

\* After this time no tick offers the reminder any more.
LastTick(w, at) ==
    IF at - Offset[w] + Catchup < at THEN at - Offset[w] + Catchup ELSE at - 1

\* The reminder of a call made early enough goes out before its window
\* closes, even when one tick is missed, cut or fails (call-reminder.service
\* 14-17), unless a fault hit it after its stamp or an operator's write met
\* the tick.
RemindedInTime ==
    \A c \in Calls, w \in Windows :
        /\ call[c].st = "scheduled"
        /\ call[c].at - call[c].anchor >= Offset[w]
        /\ clock > LastTick(w, call[c].at)
        /\ missed <= 1
        /\ <<c, w>> \notin hurt
        => sent[c][w] > 0

\* The reminder of the present schedule of a call is repeated only when the
\* answer of the event insert was lost (sendReminderIdempotent).
RemindedOnce == \A c \in Calls, w \in Windows : sent[c][w] <= 1 + faults

\* A stamp stands for an event of the present schedule, or for the reminder
\* in the tick's hands, unless a fault or a race is to blame: a stamp left
\* over from an old schedule would silence the new one.
StampEarned ==
    \A s \in stamps :
        \/ sent[s[1]][s[2]] > 0
        \/ tick.pc = "event" /\ tick.cur.id = s[1] /\ tick.w = s[2]
        \/ s \in hurt

\* The present schedule of a call that was moved has been announced, unless
\* the event was lost or a stale write moved the call (update, 398-400).
MoveAnnounced ==
    \A c \in Calls :
        call[c].version > 0 /\ faults = 0 /\ {c} \X Windows \cap hurt = {}
        => <<c, "rescheduled", call[c].version>> \in notices

\* What the reminders promise together: none is forgotten, repeated or claimed without
\* being sent, and a move is announced (call-reminder.service.ts and update).
RemindersSafe ==
    /\ RemindedInTime
    /\ RemindedOnce
    /\ StampEarned
    /\ MoveAnnounced
=============================================================================

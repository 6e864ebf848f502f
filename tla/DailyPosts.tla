------------------------------ MODULE DailyPosts ------------------------------
(***************************************************************************)
(* The posts that go out once a period: DiscordSchedulersService runs      *)
(* birthdays and the reminder in runOnce, absences and the weekly digest   *)
(* in leased chunks, and PhoneMaintenanceScheduler lists the open tasks.   *)
(* A cron starts a tick every minute, whether or not the last one is over. *)
(*                                                                         *)
(* runOnce takes a lock of its database session; each query may use another *)
(* connection of the pool, so the lock may be taken twice over on one      *)
(* connection and may be left behind on one.                               *)
(*                                                                         *)
(* A day has three minutes: 0, 1 (when everything is due) and 2 (when the  *)
(* daily digest is).  The weekly digest is due on day 1.                   *)
(***************************************************************************)
EXTENDS Integers, FiniteSets

CONSTANTS Profiles, Ticks, Conns,
          Enabled,      \* jobs that the profiles and the settings switch on
          Horizon,      \* bound of the clock
          MaxSwaps,     \* bound of the changes of profile and of the phone minute
          MaxFaults     \* bound of failed calls, lost answers and crashes

Jobs == {"birthday", "reminder"}     \* runOnce
Chunked == {"absences", "weekly"}    \* sendChunked, here with one chunk
PerDay == 3
DueAt == 1
DigestAt == 2
WeeklyDay == 1
Day(m) == m \div PerDay
Days == 0..Day(Horizon)
Keys == Jobs \X Profiles \X Days
ChunkKeys == Chunked \X Days         \* a chunk's key does not name the profile

VARIABLES minute, ticked,   \* the clock, and the last minute whose tick has begun
          active,           \* the active DiscordProfile
          tick,             \* the ticks at work
          row,              \* DiscordDelivery rows of runOnce, by key
          chunk,            \* DiscordDelivery rows of chunks
          held,             \* session locks: how often each connection holds each
          phoneAt, log,     \* the minute of the phone reminder, PhoneReminderLog rows
          posts,            \* messages posted, by what they are about
          swaps, faults,    \* bounded counters
          unsure, shared, leaked   \* history: messages whose success was not recorded;
                            \* keys that two ticks ran together; keys locked for good

Clock == <<minute, ticked>>
Past == <<unsure, shared, leaked>>
vars == <<Clock, active, tick, row, chunk, held, phoneAt, log, posts, swaps, faults, Past>>

NoTick == [pc |-> "idle", todo |-> {}, day |-> 0, profile |-> "-", seen |-> "none", late |-> "no"]
Messages == Keys \union (Chunked \X Profiles \X Days) \union {<<"phone", d>> : d \in Days}

Init ==
    /\ minute = 0 /\ ticked = 0 /\ active = CHOOSE p \in Profiles : TRUE
    /\ tick = [t \in Ticks |-> NoTick]
    /\ row = [k \in Keys |-> "none"] /\ chunk = [k \in ChunkKeys |-> "none"]
    /\ held = [c \in Conns |-> [k \in Keys |-> 0]]
    /\ phoneAt = DueAt /\ log = [d \in Days |-> "none"]
    /\ posts = [m \in Messages |-> 0] /\ swaps = 0 /\ faults = 0
    /\ unsure = {} /\ shared = {} /\ leaked = {}

Fault == faults < MaxFaults /\ faults' = faults + 1

Minute ==
    /\ minute < Horizon /\ minute' = minute + 1
    /\ UNCHANGED <<ticked, active, tick, row, chunk, held, phoneAt, log, posts, swaps, faults, Past>>

-----------------------------------------------------------------------------
(* tick: the jobs that are due, one after the other.                       *)

Due(m, job) ==
    /\ m % PerDay >= DueAt
    /\ job = "reminder" => m % PerDay < DigestAt
    /\ job = "weekly" => Day(m) = WeeklyDay

TickStart(t) ==
    /\ tick[t].pc = "idle" /\ ticked < minute /\ ticked' = minute
    /\ LET jobs == {job \in (Jobs \union Chunked) \intersect Enabled : Due(minute, job)} IN
       /\ jobs # {}
       /\ tick' = [tick EXCEPT ![t] = [NoTick EXCEPT !.pc = "job", !.todo = jobs,
                                          !.day = Day(minute), !.profile = active]]
    /\ UNCHANGED <<minute, active, row, chunk, held, phoneAt, log, posts, swaps, faults, Past>>

\* The first of the jobs still to be run, in the order of tick.
Turn == [birthday |-> 1, absences |-> 2, reminder |-> 3, weekly |-> 4]
Job(t) == CHOOSE job \in tick[t].todo : \A other \in tick[t].todo : Turn[job] <= Turn[other]
Key(t) == <<Job(t), tick[t].profile, tick[t].day>>
ChunkKey(t) == <<Job(t), Day(minute)>>   \* absences and weekly take the date anew
At(t, pc) == tick[t].pc = pc
Go(t, pc) == tick' = [tick EXCEPT ![t].pc = pc]
Done(t) ==
    tick' = [tick EXCEPT ![t] = IF tick[t].todo = {Job(t)} THEN NoTick
                                ELSE [tick[t] EXCEPT !.pc = "job", !.todo = @ \ {Job(t)}, !.seen = "none"]]

-----------------------------------------------------------------------------
(* runOnce.                                                                *)

\* pg_try_advisory_lock: a session that holds the lock gets it again.
Lock(t, c) ==
    /\ At(t, "job") /\ Job(t) \in Jobs
    /\ IF \E other \in Conns \ {c} : held[other][Key(t)] > 0
       THEN Done(t) /\ UNCHANGED <<held, shared>>
       ELSE /\ held' = [held EXCEPT ![c][Key(t)] = @ + 1]
            /\ shared' = IF held[c][Key(t)] > 0 THEN shared \union {Key(t)} ELSE shared
            /\ Go(t, "read")
    /\ UNCHANGED <<Clock, active, row, chunk, phoneAt, log, posts, swaps, faults, unsure, leaked>>

Read(t) ==
    /\ At(t, "read")
    /\ tick' = [tick EXCEPT ![t].seen = row[Key(t)],
                            ![t].pc = IF row[Key(t)] = "SENT" THEN "unlock" ELSE "write"]
    /\ UNCHANGED <<Clock, active, row, chunk, held, phoneAt, log, posts, swaps, faults, Past>>

\* The unique key refuses a second insert; the error ends the whole tick.
Refused(t) == tick[t].seen = "none" /\ row[Key(t)] # "none"
Write(t) ==
    /\ At(t, "write")
    /\ IF Refused(t)
       THEN /\ UNCHANGED row
            /\ tick' = [tick EXCEPT ![t].todo = {Job(t)}, ![t].pc = "unlock"]
       ELSE row' = [row EXCEPT ![Key(t)] = "PENDING"] /\ Go(t, "post")
    /\ UNCHANGED <<Clock, active, chunk, held, phoneAt, log, posts, swaps, faults, Past>>

Posted(m) == posts' = [posts EXCEPT ![m] = @ + 1]

\* The body asks for the date again, so a birthday may be that of the next day, which
\* this key does not record.  On an error status the message may be in the channel.
About(t) == IF Job(t) = "birthday" THEN <<Job(t), tick[t].profile, Day(minute)>> ELSE Key(t)
Post(t) ==
    /\ At(t, "post")
    /\ \/ /\ Posted(About(t)) /\ Go(t, "mark") /\ UNCHANGED faults
          /\ unsure' = IF About(t) # Key(t) THEN unsure \union {About(t)} ELSE unsure
       \/ Fault /\ Go(t, "fail") /\ UNCHANGED <<posts, unsure>>
       \/ Fault /\ Go(t, "fail") /\ Posted(About(t)) /\ unsure' = unsure \union {About(t)}
    /\ UNCHANGED <<Clock, active, row, chunk, held, phoneAt, log, swaps, shared, leaked>>

\* A failure of the update, or of the one of the profile after it, ends in the catch.
Mark(t) ==
    /\ At(t, "mark")
    /\ \/ row' = [row EXCEPT ![Key(t)] = "SENT"] /\ Go(t, "unlock") /\ UNCHANGED <<faults, unsure>>
       \/ Fault /\ Go(t, "fail") /\ unsure' = unsure \union {Key(t)} /\ UNCHANGED row
    /\ UNCHANGED <<Clock, active, chunk, held, phoneAt, log, posts, swaps, shared, leaked>>

MarkFailed(t) ==
    /\ At(t, "fail") /\ row' = [row EXCEPT ![Key(t)] = "PENDING"] /\ Go(t, "unlock")
    /\ UNCHANGED <<Clock, active, chunk, held, phoneAt, log, posts, swaps, faults, Past>>

\* pg_advisory_unlock on a connection that does not hold the lock does nothing.
Unlock(t, c) ==
    /\ At(t, "unlock")
    /\ held' = [held EXCEPT ![c][Key(t)] = IF @ > 0 THEN @ - 1 ELSE 0]
    /\ leaked' = IF held[c][Key(t)] = 0 THEN leaked \union {Key(t)} ELSE leaked
    /\ Done(t)
    /\ UNCHANGED <<Clock, active, row, chunk, phoneAt, log, posts, swaps, faults, unsure, shared>>

-----------------------------------------------------------------------------
(* runAbsences and runWeeklyDigest, each with one chunk.                   *)

ClaimChunk(t) ==
    /\ At(t, "job") /\ Job(t) \in Chunked
    /\ IF chunk[ChunkKey(t)] \in {"SENT", "leased"}
       THEN Done(t) /\ UNCHANGED chunk
       ELSE /\ chunk' = [chunk EXCEPT ![ChunkKey(t)] = "leased"]
            /\ tick' = [tick EXCEPT ![t].pc = "send", ![t].day = Day(minute)]
    /\ UNCHANGED <<Clock, active, row, held, phoneAt, log, posts, swaps, faults, Past>>

Claimed(t) == <<Job(t), tick[t].day>>
SendChunk(t) ==
    /\ At(t, "send")
    /\ \/ Posted(Key(t)) /\ Go(t, "finalise") /\ UNCHANGED <<chunk, faults, unsure>>
       \/ /\ Fault /\ Done(t)
          /\ \/ chunk' = [chunk EXCEPT ![Claimed(t)] = "PENDING"] /\ UNCHANGED <<posts, unsure>>
             \/ UNCHANGED <<chunk, posts, unsure>>
             \/ /\ chunk' = [chunk EXCEPT ![Claimed(t)] = "PENDING"]
                /\ Posted(Key(t)) /\ unsure' = unsure \union {Key(t)}
    /\ UNCHANGED <<Clock, active, row, held, phoneAt, log, swaps, shared, leaked>>

FinaliseChunk(t) ==
    /\ At(t, "finalise") /\ Done(t)
    /\ \/ chunk' = [chunk EXCEPT ![Claimed(t)] = "SENT"] /\ UNCHANGED <<faults, unsure>>
       \/ Fault /\ unsure' = unsure \union {Key(t)} /\ UNCHANGED chunk
    /\ UNCHANGED <<Clock, active, row, held, phoneAt, log, posts, swaps, shared, leaked>>

\* The lease is longer than a send.
LeaseEnds(k) ==
    /\ chunk[k] = "leased" /\ chunk' = [chunk EXCEPT ![k] = "PENDING"]
    /\ \A t \in Ticks : tick[t].pc \in {"send", "finalise"} => Claimed(t) # k
    /\ UNCHANGED <<Clock, active, tick, row, held, phoneAt, log, posts, swaps, faults, Past>>

-----------------------------------------------------------------------------
(* The phone reminder: at its very minute, in one go.                      *)

\* Mutant: a log row that says "sent" is not looked at.
NotYet(d) == TRUE
NotLogged(d) == log[d] # "sent"

\* What fails after the message is posted turns the log row into a failed one: the
\* row itself, or the counters of the tasks once it is written.
PhoneReminder ==
    LET d == Day(minute) m == <<"phone", d>> IN
    /\ "phone" \in Enabled /\ minute % PerDay = phoneAt /\ NotLogged(d)
    /\ \/ Posted(m) /\ log' = [log EXCEPT ![d] = "sent"] /\ UNCHANGED <<faults, unsure>>
       \/ Fault /\ log' = [log EXCEPT ![d] = "failed"] /\ UNCHANGED <<posts, unsure>>
       \/ Fault /\ log' = [log EXCEPT ![d] = "failed"] /\ Posted(m) /\ unsure' = unsure \union {m}
    /\ UNCHANGED <<Clock, active, tick, row, chunk, held, phoneAt, swaps, shared, leaked>>

-----------------------------------------------------------------------------
(* Operators, and the process.                                             *)

Swap == swaps < MaxSwaps /\ swaps' = swaps + 1

\* activate: no other profile stays active.
Activate(p) ==
    /\ Enabled # {"phone"} /\ Swap /\ p # active /\ active' = p
    /\ UNCHANGED <<Clock, tick, row, chunk, held, phoneAt, log, posts, faults, Past>>

MovePhone(m) ==
    /\ "phone" \in Enabled /\ Swap /\ m # phoneAt /\ phoneAt' = m
    /\ UNCHANGED <<Clock, active, tick, row, chunk, held, log, posts, faults, Past>>

\* The sessions end with the process, and their locks with them.
Crash ==
    /\ Fault
    /\ \E t \in Ticks : ~At(t, "idle")
    /\ unsure' = unsure \union {Key(t) : t \in {u \in Ticks : tick[u].pc \in {"mark", "finalise"}}}
    /\ tick' = [t \in Ticks |-> NoTick]
    /\ held' = [c \in Conns |-> [k \in Keys |-> 0]] /\ leaked' = {}
    /\ UNCHANGED <<Clock, active, row, chunk, phoneAt, log, posts, swaps, shared>>

Next ==
    \/ Minute \/ PhoneReminder \/ Crash
    \/ \E t \in Ticks :
          \/ TickStart(t) \/ Read(t) \/ Write(t) \/ Post(t) \/ Mark(t) \/ MarkFailed(t)
          \/ ClaimChunk(t) \/ SendChunk(t) \/ FinaliseChunk(t)
          \/ \E c \in Conns : Lock(t, c) \/ Unlock(t, c)
    \/ \E k \in ChunkKeys : LeaseEnds(k)
    \/ \E p \in Profiles : Activate(p)
    \/ \E m \in 0..2 : MovePhone(m)

Spec == Init /\ [][Next]_vars

-----------------------------------------------------------------------------
(* Properties.                                                             *)

\* Every variable keeps its type.
TypeOK ==
    /\ minute \in 0..Horizon /\ ticked \in 0..Horizon /\ active \in Profiles
    /\ row \in [Keys -> {"none", "PENDING", "SENT"}]
    /\ chunk \in [ChunkKeys -> {"none", "PENDING", "leased", "SENT"}]
    /\ held \in [Conns -> [Keys -> Nat]]
    /\ log \in [Days -> {"none", "failed", "sent"}]
    /\ \A t \in Ticks : tick[t].pc \in {"idle", "job", "read", "write", "post", "mark", "fail",
                                        "unlock", "send", "finalise"}

\* A message goes out a second time only where its success was not recorded, two
\* ticks ran the job on one session, or a birthday was caught up past midnight.
RepeatHasCause ==
    \A m \in Messages : posts[m] > 1 =>
        m \in unsure \union shared

\* SENT means that the message is in the channel of some profile: for a chunk, whose
\* key names no profile, of whichever was active.
SentIsPosted ==
    /\ \A k \in Keys : row[k] = "SENT"  =>
          posts[k] > 0 \/ \E d \in Days : d > k[3] /\ posts[<<k[1], k[2], d>>] > 0
    /\ \A k \in ChunkKeys : chunk[k] = "SENT" =>
          \E p \in Profiles : posts[<<k[1], p, k[2]>>] > 0
    /\ \A d \in Days : log[d] = "sent" => posts[<<"phone", d>>] > 0

\* A tick that finds the lock taken finds a tick at work on the job, or a lock that
\* an unlock on another connection left behind.
LockHasHolder ==
    \A c \in Conns, k \in Keys : held[c][k] > 0 =>
        \/ k \in leaked
        \/ \E t \in Ticks : tick[t].pc \in {"read", "write", "post", "mark", "fail", "unlock"} /\ Key(t) = k

DailyPostsSound ==
    /\ RepeatHasCause
    /\ SentIsPosted
    /\ LockHasHolder
=============================================================================

-------------------------- MODULE DailyPosts_proofs --------------------------
(***************************************************************************)
(* Proofs about the posts that go out once a period.  The invariant is     *)
(* about one key at a time: a key of runOnce (RunInv), its session locks   *)
(* (HeldInv), a chunk and its lease (ChunkInv), a day of the phone         *)
(* reminder (PhoneInv).                                                    *)
(***************************************************************************)
EXTENDS DailyPosts, FiniteSetTheorems, TLAPS

\* A profile is active, and finitely many ticks are at work together.
DailyLimits == Horizon \in Nat /\ IsFiniteSet(Ticks) /\ Profiles # {}

AllJobs == Jobs \union Chunked
Working == {"read", "write", "post", "mark", "fail", "unlock"}
Sending == {"send", "finalise"}
TickRecs == [pc : {"idle", "job"} \union Working \union Sending, todo : SUBSET AllJobs, day : Days,
             profile : Profiles \union {"-"}, seen : {"none", "PENDING", "SENT"}, late : {"no"}]

\* The job, the key and the lease of a tick, as functions of its record.
JobOf(w) == CHOOSE job \in w.todo : \A other \in w.todo : Turn[job] <= Turn[other]
KeyOf(w) == <<JobOf(w), w.profile, w.day>>
LeaseOf(w) == <<JobOf(w), w.day>>

On(k) == {t \in Ticks : tick[t].pc \in Working /\ KeyOf(tick[t]) = k}
Holds(x) == {t \in Ticks : tick[t].pc \in Sending /\ LeaseOf(tick[t]) = x}

Typed ==
    /\ minute \in 0..Horizon /\ ticked \in 0..Horizon /\ active \in Profiles
    /\ tick \in [Ticks -> TickRecs]
    /\ row \in [Keys -> {"none", "PENDING", "SENT"}]
    /\ chunk \in [ChunkKeys -> {"none", "PENDING", "leased", "SENT"}]
    /\ held \in [Conns -> [Keys -> Nat]]
    /\ log \in [Days -> {"none", "failed", "sent"}]
    /\ posts \in [Messages -> Nat]

\* A tick at work has a job of the right kind, and its day has come.
TickOK(w, m) ==
    /\ w.pc # "idle" => w.todo # {} /\ w.profile \in Profiles /\ w.day <= Day(m)
    /\ w.pc \in Working => JobOf(w) \in Jobs
    /\ w.pc \in Sending => JobOf(w) \in Chunked
TicksOK == \A t \in Ticks : TickOK(tick[t], minute)

Shown(k) == posts[k] > 0 \/ \E d \in Days : d > k[3] /\ posts[<<k[1], k[2], d>>] > 0

\* Unless two ticks have shared the key, one at a time is at work on it, under a lock,
\* and the row is SENT, or about to be, once the message is out.
RunInv(k) ==
    /\ k \notin shared =>
          /\ \A t, u \in On(k) : t = u
          /\ On(k) # {} => \E c \in Conns : held[c][k] > 0
          /\ \A t \in On(k) : tick[t].pc \in {"write", "post", "mark", "fail"} => row[k] # "SENT"
    /\ k \notin unsure \union shared =>
          /\ posts[k] <= 1
          /\ posts[k] = 1 => row[k] = "SENT" \/ \E t \in On(k) : tick[t].pc = "mark"
    /\ row[k] = "SENT" \/ (\E t \in On(k) : tick[t].pc = "mark") => Shown(k)

\* One connection holds a lock, as often as there are ticks under it, or it is leaked.
HeldInv(k) ==
    /\ \A c, e \in Conns : held[c][k] > 0 /\ held[e][k] > 0 => c = e
    /\ k \notin leaked => \A c \in Conns : held[c][k] <= Cardinality(On(k))

\* One tick at a time holds the lease of a chunk.
ChunkInv(x) ==
    /\ \A t, u \in Holds(x) : t = u
    /\ Holds(x) # {} => chunk[x] = "leased"
    /\ \A p \in Profiles : <<x[1], p, x[2]>> \notin unsure =>
          /\ posts[<<x[1], p, x[2]>>] <= 1
          /\ posts[<<x[1], p, x[2]>>] = 1 =>
                chunk[x] = "SENT" \/ \E t \in Holds(x) : tick[t].pc = "finalise" /\ tick[t].profile = p
    /\ \A t \in Holds(x) : tick[t].pc = "finalise" => posts[<<x[1], tick[t].profile, x[2]>>] > 0
    /\ chunk[x] = "SENT" => \E p \in Profiles : posts[<<x[1], p, x[2]>>] > 0

PhoneInv(d) ==
    /\ <<"phone", d>> \notin unsure =>
          posts[<<"phone", d>>] <= 1 /\ (posts[<<"phone", d>>] = 1 => log[d] = "sent")
    /\ log[d] = "sent" => posts[<<"phone", d>>] > 0

DailyInv ==
    /\ Typed /\ TicksOK
    /\ \A k \in Keys : RunInv(k) /\ HeldInv(k)
    /\ \A x \in ChunkKeys : ChunkInv(x)
    /\ \A d \in Days : PhoneInv(d)

-----------------------------------------------------------------------------
(* The jobs of a tick, and its keys.                                       *)

\* Among the jobs still to be run there is a first.
LEMMA JobIsThere == ASSUME NEW w, w.todo \in SUBSET AllJobs, w.todo # {} PROVE JobOf(w) \in w.todo
<1>1. \E job \in w.todo : \A other \in w.todo : Turn[job] <= Turn[other]
  <2>1. Turn["birthday"] = 1 /\ Turn["absences"] = 2 /\ Turn["reminder"] = 3 /\ Turn["weekly"] = 4
    BY DEF Turn
  <2>2. \A other \in w.todo : other \in {"birthday", "absences", "reminder", "weekly"}
    BY DEF AllJobs, Jobs, Chunked
  <2>3. CASE "birthday" \in w.todo
    BY <2>1, <2>2, <2>3
  <2>4. CASE "birthday" \notin w.todo /\ "absences" \in w.todo
    BY <2>1, <2>2, <2>4
  <2>5. CASE "birthday" \notin w.todo /\ "absences" \notin w.todo /\ "reminder" \in w.todo
    BY <2>1, <2>2, <2>5
  <2>6. CASE "birthday" \notin w.todo /\ "absences" \notin w.todo /\ "reminder" \notin w.todo
    BY <2>1, <2>2, <2>6
  <2> QED BY <2>3, <2>4, <2>5, <2>6
<1> QED BY <1>1 DEF JobOf

\* The one job of a tick is its job, and equal lists have equal jobs.
LEMMA JobOfOne == \A w, j : w.todo = {j} /\ j \in AllJobs => JobOf(w) = j
<1> SUFFICES ASSUME NEW w, NEW j, w.todo = {j}, j \in AllJobs PROVE JobOf(w) = j
  OBVIOUS
<1> QED BY JobIsThere
LEMMA JobOfSame == \A w, v : w.todo = v.todo => JobOf(w) = JobOf(v)
  BY DEF JobOf

\* The module's names for them.
LEMMA TickNames ==
  ASSUME NEW t PROVE /\ Job(t) = JobOf(tick[t]) /\ Key(t) = KeyOf(tick[t])
                     /\ Claimed(t) = LeaseOf(tick[t])
  BY DEF Job, JobOf, Key, KeyOf, Claimed, LeaseOf

\* The day of a minute is one of the days, and days do not run backwards.
LEMMA DayOfMinute ==
  ASSUME DailyLimits, NEW m \in 0..Horizon PROVE Day(m) \in Days /\ Day(m) \in Nat
  BY DEF DailyLimits, Day, PerDay, Days
LEMMA DayGrows == ASSUME NEW m \in Nat PROVE Day(m) <= Day(m + 1)
  BY DEF Day, PerDay

\* Keys and chunks are among the messages, and not among each other.
LEMMA KeysAndMessages ==
  /\ Keys \subseteq Messages
  /\ \A x \in ChunkKeys, p \in Profiles : <<x[1], p, x[2]>> \in Messages /\ <<x[1], p, x[2]>> \notin Keys
  /\ \A d \in Days : <<"phone", d>> \in Messages /\ <<"phone", d>> \notin Keys
<1>1. ASSUME NEW x \in ChunkKeys, NEW p \in Profiles PROVE <<x[1], p, x[2]>> \in Messages /\ <<x[1], p, x[2]>> \notin Keys
  <2>1. x[1] \in Chunked /\ x[2] \in Days
    BY DEF ChunkKeys
  <2>2. <<x[1], p, x[2]>> \in Chunked \X Profiles \X Days
    BY <2>1
  <2>3. x[1] \notin Jobs
    BY <2>1 DEF Chunked, Jobs
  <2> QED BY <2>2, <2>3 DEF Messages, Keys
<1>2. ASSUME NEW d \in Days PROVE <<"phone", d>> \in Messages /\ <<"phone", d>> \notin Keys
  <2>1. ASSUME <<"phone", d>> \in Keys PROVE FALSE
    <3>1. PICK j \in Jobs, p \in Profiles, e \in Days : <<"phone", d>> = <<j, p, e>>
      BY <2>1 DEF Keys
    <3>2. j = "phone"
      BY <3>1
    <3> QED BY <3>2 DEF Jobs
  <2> QED BY <2>1 DEF Messages
<1> QED BY <1>1, <1>2 DEF Messages

-----------------------------------------------------------------------------
(* What a step leaves alone.                                               *)

\* A tick that moves leaves the others, and is then where its record says.
LEMMA Moves ==
  ASSUME tick \in [Ticks -> TickRecs], NEW t \in Ticks, NEW v, tick' = [tick EXCEPT ![t] = v]
  PROVE  /\ tick'[t] = v /\ \A u \in Ticks : u # t => tick'[u] = tick[u]
         /\ \A k : On(k)' = (On(k) \ {t}) \union (IF v.pc \in Working /\ KeyOf(v) = k THEN {t} ELSE {})
         /\ \A x : Holds(x)' = (Holds(x) \ {t}) \union (IF v.pc \in Sending /\ LeaseOf(v) = x THEN {t} ELSE {})
  BY DEF On, Holds

\* What a key promises stays true when its row, its ticks and its locks do.
LEMMA RunKeeps ==
  ASSUME NEW k \in Keys, RunInv(k), On(k)' = On(k), \A u \in On(k) : tick'[u] = tick[u], row'[k] = row[k],
         posts \in [Messages -> Nat], posts' \in [Messages -> Nat], \A m \in Messages : posts'[m] >= posts[m],
         k \notin unsure' => k \notin unsure /\ posts'[k] = posts[k],
         shared \subseteq shared', \A c \in Conns : held[c][k] > 0 => held'[c][k] > 0
  PROVE  RunInv(k)'
<1>1. Shown(k) => Shown(k)'
  <2>1. \A d \in Days : <<k[1], k[2], d>> \in Messages
    <3>1. k[1] \in Jobs /\ k[2] \in Profiles
      BY DEF Keys
    <3> QED BY <3>1 DEF Messages, Keys
  <2>2. k \in Messages
    BY DEF Messages
  <2> QED BY <2>1, <2>2 DEF Shown
<1>2. k \notin shared' => k \notin shared
  OBVIOUS
<1>3. (\E t \in On(k)' : tick'[t].pc = "mark") <=> (\E t \in On(k) : tick[t].pc = "mark")
  OBVIOUS
<1> QED BY <1>1, <1>2, <1>3 DEF RunInv

\* So do the locks of a key.
LEMMA HeldKeeps ==
  ASSUME NEW k \in Keys, HeldInv(k), On(k)' = On(k), \A c \in Conns : held'[c][k] = held[c][k],
         k \in leaked => k \in leaked'
  PROVE  HeldInv(k)'
  BY DEF HeldInv

\* And a chunk, with its messages.
LEMMA ChunkKeeps ==
  ASSUME NEW x \in ChunkKeys, ChunkInv(x), Holds(x)' = Holds(x), \A u \in Holds(x) : tick'[u] = tick[u],
         chunk'[x] = chunk[x], tick \in [Ticks -> TickRecs], \A u \in Holds(x) : tick[u].profile \in Profiles,
         \A p \in Profiles : posts'[<<x[1], p, x[2]>>] = posts[<<x[1], p, x[2]>>],
         unsure \subseteq unsure'
  PROVE  ChunkInv(x)'
  BY DEF ChunkInv

\* A step on one key.
LEMMA KeyStep ==
  ASSUME DailyInv, NEW k \in Keys, Typed', TicksOK', RunInv(k)', HeldInv(k)',
         \A q \in Keys \ {k} :
            /\ On(q)' = On(q) /\ (\A u \in On(q) : tick'[u] = tick[u]) /\ row'[q] = row[q]
            /\ q \notin unsure' => posts'[q] = posts[q]
            /\ (\A c \in Conns : held'[c][q] = held[c][q]) /\ (q \in leaked => q \in leaked'),
         \A x \in ChunkKeys : Holds(x)' = Holds(x) /\ \A u \in Holds(x) : tick'[u] = tick[u],
         \A m \in Messages : posts'[m] >= posts[m] /\ (m \notin Keys => posts'[m] = posts[m]),
         unsure \subseteq unsure', unsure' \subseteq unsure \union Keys, shared \subseteq shared', UNCHANGED <<chunk, log>>
  PROVE  DailyInv'
<1> USE DEF DailyInv
<1>1. \A q \in Keys : RunInv(q)' /\ HeldInv(q)'
  <2> SUFFICES ASSUME NEW q \in Keys \ {k} PROVE RunInv(q)' /\ HeldInv(q)'
    OBVIOUS
  <2>1. RunInv(q)'
    BY RunKeeps DEF Typed
  <2>2. HeldInv(q)'
    BY HeldKeeps
  <2> QED BY <2>1, <2>2
<1>2. \A x \in ChunkKeys : ChunkInv(x)'
  <2> SUFFICES ASSUME NEW x \in ChunkKeys PROVE ChunkInv(x)'
    OBVIOUS
  <2>1. \A u \in Holds(x) : tick[u].profile \in Profiles
    BY DEF Holds, TicksOK, TickOK, Sending
  <2>2. \A p \in Profiles : posts'[<<x[1], p, x[2]>>] = posts[<<x[1], p, x[2]>>]
    BY KeysAndMessages
  <2> QED BY <2>1, <2>2, ChunkKeeps DEF Typed
<1>3. \A d \in Days : PhoneInv(d)'
  <2> SUFFICES ASSUME NEW d \in Days PROVE PhoneInv(d)'
    OBVIOUS
  <2>1. <<"phone", d>> \in Messages /\ <<"phone", d>> \notin Keys
    BY KeysAndMessages
  <2> QED BY <2>1 DEF PhoneInv
<1> QED BY <1>1, <1>2, <1>3

\* A step on one chunk: of the messages only one of its own changes.
LEMMA LeaseStep ==
  ASSUME DailyInv, NEW x \in ChunkKeys, NEW p \in Profiles, Typed', TicksOK', ChunkInv(x)',
         \A q \in Keys : On(q)' = On(q) /\ \A u \in On(q) : tick'[u] = tick[u],
         \A y \in ChunkKeys \ {x} : Holds(y)' = Holds(y) /\ (\A u \in Holds(y) : tick'[u] = tick[u]) /\ chunk'[y] = chunk[y],
         \A m \in Messages : posts'[m] >= posts[m] /\ (m # <<x[1], p, x[2]>> => posts'[m] = posts[m]),
         unsure \subseteq unsure', unsure' \subseteq unsure \union {<<x[1], p, x[2]>>},
         UNCHANGED <<row, held, log, shared, leaked>>
  PROVE  DailyInv'
<1> USE DEF DailyInv
<1>1. <<x[1], p, x[2]>> \notin Keys /\ \A d \in Days : <<"phone", d>> # <<x[1], p, x[2]>>
  <2>1. \A d \in Days : <<"phone", d>> # <<x[1], p, x[2]>>
    <3> SUFFICES ASSUME NEW d \in Days, <<"phone", d>> = <<x[1], p, x[2]>> PROVE FALSE
      OBVIOUS
    <3>1. x[1] = "phone"
      OBVIOUS
    <3> QED BY <3>1 DEF ChunkKeys, Chunked
  <2> QED BY <2>1, KeysAndMessages
<1>2. \A q \in Keys : RunInv(q)' /\ HeldInv(q)'
  <2> SUFFICES ASSUME NEW q \in Keys PROVE RunInv(q)' /\ HeldInv(q)'
    OBVIOUS
  <2>1. q \in Messages /\ q # <<x[1], p, x[2]>>
    BY <1>1 DEF Messages
  <2>2. RunInv(q)'
    BY <2>1, RunKeeps DEF Typed
  <2>3. HeldInv(q)'
    BY HeldKeeps
  <2> QED BY <2>2, <2>3
<1>3. \A y \in ChunkKeys : ChunkInv(y)'
  <2> SUFFICES ASSUME NEW y \in ChunkKeys \ {x} PROVE ChunkInv(y)'
    OBVIOUS
  <2>1. \A u \in Holds(y) : tick[u].profile \in Profiles
    BY DEF Holds, TicksOK, TickOK, Sending
  <2>2. y = <<y[1], y[2]>> /\ x = <<x[1], x[2]>>
    BY DEF ChunkKeys
  <2>3. \A e \in Profiles : posts'[<<y[1], e, y[2]>>] = posts[<<y[1], e, y[2]>>]
    <3> SUFFICES ASSUME NEW e \in Profiles PROVE posts'[<<y[1], e, y[2]>>] = posts[<<y[1], e, y[2]>>]
      OBVIOUS
    <3>1. <<y[1], e, y[2]>> \in Messages
      BY KeysAndMessages
    <3>2. <<y[1], e, y[2]>> # <<x[1], p, x[2]>>
      BY <2>2
    <3> QED BY <3>1, <3>2
  <2> QED BY <2>1, <2>3, ChunkKeeps DEF Typed
<1>4. \A d \in Days : PhoneInv(d)'
  <2> SUFFICES ASSUME NEW d \in Days PROVE PhoneInv(d)'
    OBVIOUS
  <2>1. <<"phone", d>> \in Messages /\ <<"phone", d>> # <<x[1], p, x[2]>>
    BY <1>1, KeysAndMessages
  <2> QED BY <2>1 DEF PhoneInv
<1> QED BY <1>2, <1>3, <1>4

\* A step that moves one tick, which neither was nor is at work on a key or a chunk.
LEMMA AsideStep ==
  ASSUME DailyInv, NEW t \in Ticks, NEW v \in TickRecs, tick' = [tick EXCEPT ![t] = v], TickOK(v, minute),
         tick[t].pc \in {"idle", "job"}, v.pc \in {"idle", "job"}, ticked' \in 0..Horizon,
         UNCHANGED <<minute, active, row, chunk, held, log, posts, unsure, shared, leaked>>
  PROVE  DailyInv'
<1> USE DEF DailyInv
<1>1. Typed'
  BY DEF Typed
<1>2. TicksOK'
  BY DEF Typed, TicksOK
<1>3. /\ \A k : On(k)' = On(k) /\ \A u \in On(k) : tick'[u] = tick[u]
      /\ \A x : Holds(x)' = Holds(x) /\ \A u \in Holds(x) : tick'[u] = tick[u]
  <2>1. \A k : t \notin On(k)
    BY DEF On, Working
  <2>2. \A x : t \notin Holds(x)
    BY DEF Holds, Sending
  <2>3. v.pc \notin Working \union Sending
    BY DEF Working, Sending
  <2>4. \A k : On(k) \subseteq Ticks
    BY DEF On
  <2>5. \A x : Holds(x) \subseteq Ticks
    BY DEF Holds
  <2>6. \A u \in Ticks : u # t => tick'[u] = tick[u]
    BY DEF Typed
  <2>7. /\ \A k : On(k)' = (On(k) \ {t}) \union (IF v.pc \in Working /\ KeyOf(v) = k THEN {t} ELSE {})
        /\ \A x : Holds(x)' = (Holds(x) \ {t}) \union (IF v.pc \in Sending /\ LeaseOf(v) = x THEN {t} ELSE {})
    BY Moves DEF Typed
  <2>8. (\A k : On(k)' = On(k)) /\ \A x : Holds(x)' = Holds(x)
    BY <2>1, <2>2, <2>3, <2>7
  <2> QED BY <2>1, <2>2, <2>4, <2>5, <2>6, <2>8
<1>4. \A q \in Keys : RunInv(q)' /\ HeldInv(q)'
  <2> SUFFICES ASSUME NEW q \in Keys PROVE RunInv(q)' /\ HeldInv(q)'
    OBVIOUS
  <2>1. \A m \in Messages : posts'[m] >= posts[m]
    BY DEF Typed
  <2>2. RunInv(q)'
    BY <1>1, <1>3, <2>1, RunKeeps DEF Typed
  <2>3. HeldInv(q)'
    BY <1>3, HeldKeeps
  <2> QED BY <2>2, <2>3
<1>5. \A x \in ChunkKeys : ChunkInv(x)'
  <2> SUFFICES ASSUME NEW x \in ChunkKeys PROVE ChunkInv(x)'
    OBVIOUS
  <2>1. \A u \in Holds(x) : tick[u].profile \in Profiles
    BY DEF Holds, TicksOK, TickOK, Sending
  <2> QED BY <1>3, <2>1, ChunkKeeps DEF Typed
<1>6. \A d \in Days : PhoneInv(d)'
  BY DEF PhoneInv
<1> QED BY <1>1, <1>2, <1>4, <1>5, <1>6

-----------------------------------------------------------------------------
(* The steps of a tick.                                                    *)

\* The record of a tick whose job is over.
DoneRec(w) == IF w.todo = {JobOf(w)} THEN NoTick
              ELSE [w EXCEPT !.pc = "job", !.todo = @ \ {JobOf(w)}, !.seen = "none"]

LEMMA NoTickFits == ASSUME DailyLimits PROVE NoTick \in TickRecs /\ \A m : TickOK(NoTick, m)
<1>1. 0 \in Days
  BY DEF DailyLimits, Days, Day, PerDay
<1> QED BY <1>1 DEF NoTick, TickRecs, TickOK, Working, Sending

LEMMA DoneFits ==
  ASSUME DailyLimits, NEW w \in TickRecs, NEW m, TickOK(w, m), w.pc # "idle"
  PROVE  DoneRec(w) \in TickRecs /\ TickOK(DoneRec(w), m) /\ DoneRec(w).pc \in {"idle", "job"}
<1>1. CASE w.todo = {JobOf(w)}
  BY <1>1, NoTickFits DEF DoneRec, NoTick
<1>2. CASE w.todo # {JobOf(w)}
  <2> DEFINE v == [w EXCEPT !.pc = "job", !.todo = @ \ {JobOf(w)}, !.seen = "none"]
  <2>1. w.todo \in SUBSET AllJobs /\ w.todo # {} /\ w.profile \in Profiles /\ w.day <= Day(m)
    BY DEF TickRecs, TickOK
  <2>2. JobOf(w) \in w.todo
    BY <2>1, JobIsThere
  <2>3. w.todo \ {JobOf(w)} \in SUBSET AllJobs /\ w.todo \ {JobOf(w)} # {}
    BY <1>2, <2>1, <2>2
  <2>4. v \in TickRecs
    BY <2>3 DEF TickRecs
  <2>5. v.pc = "job" /\ v.todo = w.todo \ {JobOf(w)} /\ v.profile = w.profile /\ v.day = w.day
    BY DEF TickRecs
  <2>6. TickOK(v, m)
    BY <2>1, <2>3, <2>5 DEF TickOK, Working, Sending
  <2> QED BY <1>2, <2>4, <2>5, <2>6 DEF DoneRec
<1> QED BY <1>1, <1>2

LEMMA DoneIs ==
  ASSUME tick \in [Ticks -> TickRecs], NEW t \in Ticks, Done(t) PROVE tick' = [tick EXCEPT ![t] = DoneRec(tick[t])]
<1>1. Job(t) = JobOf(tick[t])
  BY DEF Job, JobOf
<1> QED BY <1>1 DEF Done, DoneRec

\* A tick that goes to another step of its job keeps its key and its lease.
LEMMA GoFits ==
  ASSUME NEW w \in TickRecs, NEW m, TickOK(w, m), w.pc # "idle", NEW pc,
         \/ pc \in Working /\ JobOf(w) \in Jobs
         \/ pc \in Sending /\ JobOf(w) \in Chunked
  PROVE  LET v == [w EXCEPT !.pc = pc] IN
         v \in TickRecs /\ TickOK(v, m) /\ v.pc = pc /\ KeyOf(v) = KeyOf(w) /\ LeaseOf(v) = LeaseOf(w)
            /\ v.profile = w.profile /\ v.seen = w.seen
<1> DEFINE v == [w EXCEPT !.pc = pc]
<1>1. v \in TickRecs /\ v.pc = pc /\ v.todo = w.todo /\ v.profile = w.profile /\ v.day = w.day /\ v.seen = w.seen
  BY DEF TickRecs, Working, Sending
<1>2. JobOf(v) = JobOf(w)
  BY <1>1, JobOfSame
<1>3. ~(pc \in Working /\ pc \in Sending) /\ ~(JobOf(w) \in Jobs /\ JobOf(w) \in Chunked)
  BY DEF Working, Sending, Jobs, Chunked
<1>4. TickOK(v, m)
  BY <1>1, <1>2, <1>3 DEF TickOK
<1> QED BY <1>1, <1>2, <1>4 DEF KeyOf, LeaseOf

\* What a tick at work on a key or on a chunk has in hand.
LEMMA KeyThere ==
  ASSUME DailyLimits, DailyInv, NEW t \in Ticks, tick[t].pc \in Working \/ (tick[t].pc = "job" /\ JobOf(tick[t]) \in Jobs)
  PROVE  /\ KeyOf(tick[t]) \in Keys /\ KeyOf(tick[t]) \in Messages /\ JobOf(tick[t]) \in Jobs
         /\ tick[t] \in TickRecs /\ TickOK(tick[t], minute) /\ tick[t].pc # "idle" /\ tick[t].pc \notin Sending
         /\ (tick[t].pc \in Working <=> t \in On(KeyOf(tick[t])))
<1>1. tick[t] \in TickRecs /\ TickOK(tick[t], minute)
  BY DEF DailyInv, Typed, TicksOK
<1>2. tick[t].pc # "idle" /\ tick[t].pc \notin Sending
  BY DEF Working, Sending
<1>3. JobOf(tick[t]) \in Jobs /\ tick[t].profile \in Profiles /\ tick[t].day \in Days
  BY <1>1, <1>2 DEF TickOK, TickRecs
<1>4. KeyOf(tick[t]) \in Keys
  BY <1>3 DEF KeyOf, Keys
<1>5. KeyOf(tick[t]) \in Messages
  BY <1>4 DEF Messages
<1> QED BY <1>1, <1>2, <1>3, <1>4, <1>5 DEF On

LEMMA LeaseThere ==
  ASSUME DailyLimits, DailyInv, NEW t \in Ticks, tick[t].pc \in Sending
  PROVE  LET x == LeaseOf(tick[t]) p == tick[t].profile IN
         /\ x \in ChunkKeys /\ p \in Profiles /\ KeyOf(tick[t]) = <<x[1], p, x[2]>>
         /\ KeyOf(tick[t]) \in Messages /\ KeyOf(tick[t]) \notin Keys
         /\ tick[t] \in TickRecs /\ TickOK(tick[t], minute) /\ tick[t].pc # "idle" /\ tick[t].pc \notin Working
         /\ JobOf(tick[t]) \in Chunked /\ Holds(x) = {t} /\ chunk[x] = "leased"
<1> DEFINE x == LeaseOf(tick[t])
           p == tick[t].profile
<1>1. tick[t] \in TickRecs /\ TickOK(tick[t], minute)
  BY DEF DailyInv, Typed, TicksOK
<1>2. tick[t].pc # "idle" /\ tick[t].pc \notin Working
  BY DEF Working, Sending
<1>3. JobOf(tick[t]) \in Chunked /\ p \in Profiles /\ tick[t].day \in Days
  BY <1>1, <1>2 DEF TickOK, TickRecs
<1>4. x \in ChunkKeys /\ x[1] = JobOf(tick[t]) /\ x[2] = tick[t].day
  BY <1>3 DEF LeaseOf, ChunkKeys
<1>5. KeyOf(tick[t]) = <<x[1], p, x[2]>>
  BY <1>4 DEF KeyOf
<1>6. t \in Holds(x)
  BY DEF Holds
<1>7. ChunkInv(x)
  BY <1>4 DEF DailyInv
<1>8. Holds(x) = {t} /\ chunk[x] = "leased"
  BY <1>6, <1>7 DEF ChunkInv
<1> QED BY <1>1, <1>2, <1>3, <1>4, <1>5, <1>8, KeysAndMessages

\* A step of a tick on a key.
LEMMA KeyWorks ==
  ASSUME DailyInv, NEW t \in Ticks, NEW v \in TickRecs, tick' = [tick EXCEPT ![t] = v], TickOK(v, minute),
         NEW k \in Keys, tick[t].pc \notin Sending, v.pc \notin Sending,
         tick[t].pc \in Working => KeyOf(tick[t]) = k, v.pc \in Working => KeyOf(v) = k,
         row' \in [Keys -> {"none", "PENDING", "SENT"}], held' \in [Conns -> [Keys -> Nat]], posts' \in [Messages -> Nat],
         \A q \in Keys \ {k} :
            /\ row'[q] = row[q]
            /\ q \notin unsure' => posts'[q] = posts[q]
            /\ (\A c \in Conns : held'[c][q] = held[c][q]) /\ (q \in leaked => q \in leaked'),
         \A m \in Messages : posts'[m] >= posts[m] /\ (m \notin Keys => posts'[m] = posts[m]),
         unsure \subseteq unsure', unsure' \subseteq unsure \union Keys, shared \subseteq shared',
         UNCHANGED <<Clock, active, chunk, log>>
  PROVE  /\ On(k)' = (On(k) \ {t}) \union (IF v.pc \in Working THEN {t} ELSE {})
         /\ tick'[t] = v /\ \A u \in Ticks : u # t => tick'[u] = tick[u]
         /\ RunInv(k)' /\ HeldInv(k)' => DailyInv'
<1>0. tick \in [Ticks -> TickRecs] /\ minute' = minute
  BY DEF DailyInv, Typed, Clock
<1>1. /\ tick'[t] = v /\ \A u \in Ticks : u # t => tick'[u] = tick[u]
      /\ \A q : On(q)' = (On(q) \ {t}) \union (IF v.pc \in Working /\ KeyOf(v) = q THEN {t} ELSE {})
      /\ \A x : Holds(x)' = (Holds(x) \ {t}) \union (IF v.pc \in Sending /\ LeaseOf(v) = x THEN {t} ELSE {})
  BY <1>0, Moves
<1>2. \A q : q # k => t \notin On(q)
  BY DEF On
<1>3. \A x : t \notin Holds(x)
  BY DEF Holds
<1>4. (\A q : On(q) \subseteq Ticks) /\ \A x : Holds(x) \subseteq Ticks
  BY DEF On, Holds
<1>5. \A q : q # k => On(q)' = On(q)
  BY <1>1, <1>2
<1>6. \A x : Holds(x)' = Holds(x)
  BY <1>1, <1>3
<1>7. \A q \in Keys \ {k} : On(q)' = On(q) /\ \A u \in On(q) : tick'[u] = tick[u]
  BY <1>1, <1>2, <1>4, <1>5
<1>8. \A x \in ChunkKeys : Holds(x)' = Holds(x) /\ \A u \in Holds(x) : tick'[u] = tick[u]
  BY <1>1, <1>3, <1>4, <1>6
<1>9. Typed' /\ TicksOK'
  <2>1. Typed'
    BY DEF DailyInv, Typed, Clock
  <2>2. TicksOK'
    BY <1>0, <1>1 DEF DailyInv, TicksOK
  <2> QED BY <2>1, <2>2
<1>10. On(k)' = (On(k) \ {t}) \union (IF v.pc \in Working THEN {t} ELSE {})
  BY <1>1
<1>11. RunInv(k)' /\ HeldInv(k)' => DailyInv'
  <2>1. \A q \in Keys \ {k} :
            /\ On(q)' = On(q) /\ (\A u \in On(q) : tick'[u] = tick[u]) /\ row'[q] = row[q]
            /\ q \notin unsure' => posts'[q] = posts[q]
            /\ (\A c \in Conns : held'[c][q] = held[c][q]) /\ (q \in leaked => q \in leaked')
    BY <1>7
  <2> QED BY <1>8, <1>9, <2>1, KeyStep
<1> QED BY <1>1, <1>10, <1>11

\* The message of a chunk, and a step of a tick on it.
MsgOf(x, p) == <<x[1], p, x[2]>>
OnlyMore(n) == \A m \in Messages : posts'[m] >= posts[m] /\ (m # n => posts'[m] = posts[m])
LeaseMove(t, v, x, p) ==
    /\ tick' = [tick EXCEPT ![t] = v] /\ TickOK(v, minute)
    /\ tick[t].pc \notin Working /\ v.pc \notin Working
    /\ tick[t].pc \in Sending => LeaseOf(tick[t]) = x
    /\ v.pc \in Sending => LeaseOf(v) = x
    /\ chunk' \in [ChunkKeys -> {"none", "PENDING", "leased", "SENT"}] /\ posts' \in [Messages -> Nat]
    /\ \A y \in ChunkKeys \ {x} : chunk'[y] = chunk[y]
    /\ OnlyMore(MsgOf(x, p)) /\ unsure \subseteq unsure' /\ unsure' \subseteq unsure \union {MsgOf(x, p)}
    /\ UNCHANGED <<Clock, active, row, held, log, shared, leaked>>
LEMMA LeaseWorks ==
  ASSUME DailyInv, NEW t \in Ticks, NEW v \in TickRecs, NEW x \in ChunkKeys, NEW p \in Profiles, LeaseMove(t, v, x, p)
  PROVE  /\ Holds(x)' = (Holds(x) \ {t}) \union (IF v.pc \in Sending THEN {t} ELSE {})
         /\ tick'[t] = v
         /\ ChunkInv(x)' => DailyInv'
<1> USE DEF LeaseMove
<1>0. tick \in [Ticks -> TickRecs] /\ minute' = minute
  BY DEF DailyInv, Typed, Clock
<1>1. /\ tick'[t] = v /\ \A u \in Ticks : u # t => tick'[u] = tick[u]
      /\ \A q : On(q)' = (On(q) \ {t}) \union (IF v.pc \in Working /\ KeyOf(v) = q THEN {t} ELSE {})
      /\ \A y : Holds(y)' = (Holds(y) \ {t}) \union (IF v.pc \in Sending /\ LeaseOf(v) = y THEN {t} ELSE {})
  BY <1>0, Moves
<1>2. \A y : y # x => t \notin Holds(y)
  BY DEF Holds
<1>3. \A q : t \notin On(q)
  BY DEF On
<1>4. (\A q : On(q) \subseteq Ticks) /\ \A y : Holds(y) \subseteq Ticks
  BY DEF On, Holds
<1>5. \A y : y # x => Holds(y)' = Holds(y)
  BY <1>1, <1>2
<1>6. \A q : On(q)' = On(q)
  BY <1>1, <1>3
<1>7. \A q \in Keys : On(q)' = On(q) /\ \A u \in On(q) : tick'[u] = tick[u]
  BY <1>1, <1>3, <1>4, <1>6
<1>8. \A y \in ChunkKeys \ {x} : Holds(y)' = Holds(y) /\ (\A u \in Holds(y) : tick'[u] = tick[u]) /\ chunk'[y] = chunk[y]
  BY <1>1, <1>2, <1>4, <1>5
<1>9. Typed' /\ TicksOK'
  <2>1. Typed'
    BY DEF DailyInv, Typed, Clock
  <2>2. TicksOK'
    BY <1>0, <1>1 DEF DailyInv, TicksOK
  <2> QED BY <2>1, <2>2
<1>10. Holds(x)' = (Holds(x) \ {t}) \union (IF v.pc \in Sending THEN {t} ELSE {})
  BY <1>1
<1>11. ChunkInv(x)' => DailyInv'
  BY <1>7, <1>8, <1>9, LeaseStep DEF MsgOf, OnlyMore
<1> QED BY <1>1, <1>10, <1>11

\* A step that moves neither a tick nor a row.
LEMMA StillStep ==
  ASSUME DailyInv, Typed', TicksOK', UNCHANGED <<tick, row, chunk, held, log, posts, unsure, shared, leaked>>
  PROVE  DailyInv'
<1>1. (\A k : On(k)' = On(k)) /\ \A x : Holds(x)' = Holds(x)
  BY DEF On, Holds
<1>2. \A k \in Keys : RunInv(k)' /\ HeldInv(k)'
  BY <1>1 DEF DailyInv, RunInv, HeldInv, Shown
<1>3. \A x \in ChunkKeys : ChunkInv(x)'
  BY <1>1 DEF DailyInv, ChunkInv
<1>4. \A d \in Days : PhoneInv(d)'
  BY DEF DailyInv, PhoneInv
<1> QED BY <1>2, <1>3, <1>4 DEF DailyInv

-----------------------------------------------------------------------------
(* The steps of runOnce.                                                   *)

LEMMA LockSteps == ASSUME DailyLimits, DailyInv, NEW t \in Ticks, NEW c \in Conns, Lock(t, c) PROVE DailyInv'
<1>a. PICK w : w = tick[t]
  OBVIOUS
<1>b. PICK k : k = KeyOf(w)
  OBVIOUS
<1>c. PICK v : v = [w EXCEPT !.pc = "read"]
  OBVIOUS
<1>1. Job(t) = JobOf(w) /\ Key(t) = k /\ w.pc = "job" /\ JobOf(w) \in Jobs
  BY <1>a, <1>b, TickNames DEF Lock, At
<1>2. k \in Keys /\ w \in TickRecs /\ TickOK(w, minute) /\ t \notin On(k)
  BY <1>a, <1>b, <1>1, KeyThere DEF Working
<1>3. Typed /\ RunInv(k) /\ HeldInv(k)
  BY <1>2 DEF DailyInv
<1>4. CASE Done(t) /\ UNCHANGED <<held, shared>>
  <2>1. DoneRec(w) \in TickRecs /\ TickOK(DoneRec(w), minute) /\ DoneRec(w).pc \in {"idle", "job"}
    BY <1>1, <1>2, DoneFits
  <2>2. tick' = [tick EXCEPT ![t] = DoneRec(w)]
    BY <1>a, <1>3, <1>4, DoneIs DEF Typed
  <2>3. ticked' \in 0..Horizon /\ UNCHANGED <<minute, active, row, chunk, held, log, posts, unsure, shared, leaked>>
    BY <1>3, <1>4 DEF Lock, Clock, Typed
  <2> QED BY <1>a, <1>1, <2>1, <2>2, <2>3, AsideStep
<1>5. CASE ~(Done(t) /\ UNCHANGED <<held, shared>>)
  <2>1. /\ \A e \in Conns \ {c} : ~(held[e][k] > 0)
        /\ held' = [held EXCEPT ![c][k] = @ + 1]
        /\ shared' = IF held[c][k] > 0 THEN shared \union {k} ELSE shared
        /\ tick' = [tick EXCEPT ![t].pc = "read"]
        /\ UNCHANGED <<Clock, active, row, chunk, log, posts, unsure, leaked>>
    BY <1>1, <1>5 DEF Lock, Go
  <2>2. tick' = [tick EXCEPT ![t] = v]
    BY <1>a, <1>c, <2>1, <1>3 DEF Typed
  <2>3. v \in TickRecs /\ TickOK(v, minute) /\ v.pc = "read" /\ KeyOf(v) = k
    BY <1>b, <1>c, <1>1, <1>2, GoFits DEF Working
  <2>4. held \in [Conns -> [Keys -> Nat]] /\ posts \in [Messages -> Nat]
    BY <1>3 DEF Typed
  <2>5. /\ held' \in [Conns -> [Keys -> Nat]] /\ held'[c][k] = held[c][k] + 1
        /\ \A e \in Conns, q \in Keys : e # c \/ q # k => held'[e][q] = held[e][q]
    BY <2>1, <2>4, <1>2
  <2>6. \A e \in Conns \ {c} : held[e][k] = 0 /\ held'[e][k] = 0
    <3> SUFFICES ASSUME NEW e \in Conns \ {c} PROVE held[e][k] = 0 /\ held'[e][k] = 0
      OBVIOUS
    <3>1. held[e][k] \in Nat /\ ~(held[e][k] > 0)
      BY <2>1, <2>4, <1>2
    <3> QED BY <3>1, <2>5, <1>2
  <2>7. /\ On(k)' = On(k) \union {t} /\ tick'[t] = v
        /\ \A u \in Ticks : u # t => tick'[u] = tick[u]
        /\ RunInv(k)' /\ HeldInv(k)' => DailyInv'
    <3>1. row' \in [Keys -> {"none", "PENDING", "SENT"}] /\ posts' \in [Messages -> Nat]
      BY <1>3, <2>1 DEF Typed
    <3>2. \A q \in Keys \ {k} :
            /\ row'[q] = row[q]
            /\ q \notin unsure' => posts'[q] = posts[q]
            /\ (\A e \in Conns : held'[e][q] = held[e][q]) /\ (q \in leaked => q \in leaked')
      BY <2>1, <2>5
    <3>3. \A m \in Messages : posts'[m] >= posts[m] /\ (m \notin Keys => posts'[m] = posts[m])
      BY <2>1, <2>4
    <3>4. v.pc \in Working /\ v.pc \notin Sending /\ w.pc \notin Working /\ w.pc \notin Sending
      BY <1>1, <2>3 DEF Working, Sending
    <3>5. unsure \subseteq unsure' /\ unsure' \subseteq unsure \union Keys /\ shared \subseteq shared'
      BY <2>1
    <3>7. /\ tick[t].pc \notin Sending /\ v.pc \notin Sending
          /\ tick[t].pc \in Working => KeyOf(tick[t]) = k
          /\ v.pc \in Working => KeyOf(v) = k
      BY <1>a, <2>3, <3>4
    <3>8. held' \in [Conns -> [Keys -> Nat]] /\ UNCHANGED <<Clock, active, chunk, log>>
      BY <2>1, <2>5
    <3>6. /\ On(k)' = (On(k) \ {t}) \union (IF v.pc \in Working THEN {t} ELSE {})
          /\ tick'[t] = v /\ \A u \in Ticks : u # t => tick'[u] = tick[u]
          /\ RunInv(k)' /\ HeldInv(k)' => DailyInv'
      BY <1>2, <2>3, <2>2, <3>1, <3>2, <3>3, <3>5, <3>7, <3>8, KeyWorks
    <3> QED BY <1>2, <3>4, <3>6
  <2>8. RunInv(k)'
    <3>1. On(k) \subseteq Ticks /\ \A u \in On(k) : u # t => tick'[u] = tick[u]
      BY <2>7 DEF On
    <3>2. (\E u \in On(k)' : tick'[u].pc = "mark") <=> (\E u \in On(k) : tick[u].pc = "mark")
      BY <1>2, <2>3, <2>7, <3>1
    <3>3. Shown(k)' = Shown(k)
      BY <2>1 DEF Shown
    <3>4. ASSUME k \notin shared' PROVE On(k) = {} /\ k \notin shared
      <4>1. k \notin shared /\ ~(held[c][k] > 0)
        BY <2>1, <3>4
      <4>2. \A e \in Conns : ~(held[e][k] > 0)
        BY <2>1, <4>1
      <4> QED BY <4>1, <4>2, <1>3 DEF RunInv
    <3>5. k \notin shared' => \E e \in Conns : held'[e][k] > 0
      BY <2>4, <2>5, <1>2
    <3>6. k \notin unsure' \union shared' => k \notin unsure \union shared
      BY <2>1, <3>4
    <3>7. k \notin shared' => /\ \A r, u \in On(k)' : r = u
                             /\ \A u \in On(k)' : tick'[u].pc = "read"
      BY <2>3, <2>7, <3>4
    <3>8. row'[k] = row[k] /\ posts'[k] = posts[k]
      BY <2>1
    <3> QED BY <1>3, <3>2, <3>3, <3>5, <3>6, <3>7, <3>8 DEF RunInv
  <2>9. HeldInv(k)'
    <3>1. \A e, g \in Conns : held'[e][k] > 0 /\ held'[g][k] > 0 => e = g
      BY <2>6
    <3>2. IsFiniteSet(On(k)) /\ Cardinality(On(k)) \in Nat
      BY FS_Subset, FS_CardinalityType DEF DailyLimits, On
    <3>3. Cardinality(On(k)') = Cardinality(On(k)) + 1
      BY <1>2, <2>7, <3>2, FS_AddElement
    <3>4. ASSUME k \notin leaked', NEW e \in Conns PROVE held'[e][k] <= Cardinality(On(k)')
      <4>1. held[e][k] <= Cardinality(On(k)) /\ held[e][k] \in Nat
        BY <1>2, <1>3, <2>1, <2>4, <3>4 DEF HeldInv
      <4>2. CASE e = c
        BY <2>5, <3>2, <3>3, <4>1, <4>2
      <4>3. CASE e # c
        BY <2>6, <3>2, <3>3, <4>3
      <4> QED BY <4>2, <4>3
    <3> QED BY <3>1, <3>4 DEF HeldInv
  <2> QED BY <2>7, <2>8, <2>9
<1> QED BY <1>4, <1>5

\* What is known of a key when a tick at work on it goes on, and what is to be shown.
RowBefore(k, w) ==
    /\ k \notin shared /\ w.pc \in {"write", "post", "mark", "fail"} => row[k] # "SENT"
    /\ k \notin unsure \union shared => posts[k] \in {0, 1} /\ (posts[k] = 1 => row[k] = "SENT" \/ w.pc = "mark")
    /\ row[k] = "SENT" \/ w.pc = "mark" => Shown(k)
RowAfter(k, v) ==
    /\ k \notin shared /\ v.pc \in {"write", "post", "mark", "fail"} => row'[k] # "SENT"
    /\ k \notin unsure' \union shared => posts'[k] <= 1 /\ (posts'[k] = 1 => row'[k] = "SENT" \/ v.pc = "mark")
    /\ v.pc = "mark" \/ (row'[k] = "SENT" /\ row[k] # "SENT") => Shown(k)'

LEMMA KeyGoes ==
  ASSUME DailyLimits, DailyInv, NEW t \in Ticks, tick[t].pc \in Working, NEW k, k = KeyOf(tick[t]),
         NEW v \in TickRecs, tick' = [tick EXCEPT ![t] = v], TickOK(v, minute), v.pc \in Working, KeyOf(v) = k,
         row' = row \/ \E r \in {"PENDING", "SENT"} : row' = [row EXCEPT ![k] = r],
         posts' = posts \/ \E m \in Keys : posts' = [posts EXCEPT ![m] = @ + 1] /\ (m # k => m \in unsure'),
         unsure \subseteq unsure', unsure' \subseteq unsure \union Keys,
         UNCHANGED <<Clock, active, chunk, log, held, shared, leaked>>
  PROVE  /\ k \in Keys /\ (Shown(k) => Shown(k)')
         /\ RowBefore(k, tick[t]) /\ (RowAfter(k, v) => DailyInv')
<1>1. k \in Keys /\ k \in Messages /\ t \in On(k) /\ tick[t].pc \notin Sending /\ v.pc \notin Sending
  BY KeyThere DEF Working, Sending
<1>2. RunInv(k) /\ HeldInv(k) /\ Typed
  BY <1>1 DEF DailyInv
<1>3. posts' \in [Messages -> Nat] /\ \A m \in Messages : posts'[m] >= posts[m]
  <2>1. posts \in [Messages -> Nat]
    BY <1>2 DEF Typed
  <2>2. CASE posts' = posts
    BY <2>1, <2>2
  <2>3. ASSUME NEW m \in Keys, posts' = [posts EXCEPT ![m] = @ + 1] PROVE posts' \in [Messages -> Nat] /\ \A q \in Messages : posts'[q] >= posts[q]
    <3>1. m \in Messages /\ posts[m] + 1 \in Nat
      BY <2>1 DEF Messages
    <3> QED BY <2>1, <2>3, <3>1
  <2> QED BY <2>2, <2>3
<1>4. \A q \in Messages : q # k /\ (q \notin unsure' \/ q \notin Keys) => posts'[q] = posts[q]
  <2>1. posts \in [Messages -> Nat]
    BY <1>2 DEF Typed
  <2>2. ASSUME NEW m \in Keys, posts' = [posts EXCEPT ![m] = @ + 1], m # k => m \in unsure'
        PROVE  \A q \in Messages : q # k /\ (q \notin unsure' \/ q \notin Keys) => posts'[q] = posts[q]
    BY <2>1, <2>2
  <2> QED BY <2>2
<1>5. row' \in [Keys -> {"none", "PENDING", "SENT"}] /\ \A q \in Keys \ {k} : row'[q] = row[q]
  <2>1. row \in [Keys -> {"none", "PENDING", "SENT"}]
    BY <1>2 DEF Typed
  <2> QED BY <2>1
<1>6. /\ On(k)' = On(k) /\ tick'[t] = v /\ \A u \in Ticks : u # t => tick'[u] = tick[u]
      /\ RunInv(k)' /\ HeldInv(k)' => DailyInv'
  <2>1. \A q \in Keys \ {k} :
            /\ row'[q] = row[q]
            /\ q \notin unsure' => posts'[q] = posts[q]
            /\ (\A e \in Conns : held'[e][q] = held[e][q]) /\ (q \in leaked => q \in leaked')
    BY <1>4, <1>5 DEF Messages
  <2>2. \A m \in Messages : posts'[m] >= posts[m] /\ (m \notin Keys => posts'[m] = posts[m])
    BY <1>1, <1>3, <1>4
  <2>3. held' \in [Conns -> [Keys -> Nat]] /\ UNCHANGED <<Clock, active, chunk, log>> /\ shared \subseteq shared'
    BY <1>2 DEF Typed
  <2>4. /\ On(k)' = (On(k) \ {t}) \union (IF v.pc \in Working THEN {t} ELSE {})
        /\ tick'[t] = v /\ \A u \in Ticks : u # t => tick'[u] = tick[u]
        /\ RunInv(k)' /\ HeldInv(k)' => DailyInv'
    BY <1>1, <1>3, <1>5, <2>1, <2>2, <2>3, KeyWorks
  <2> QED BY <1>1, <2>4
<1>7. HeldInv(k)'
  BY <1>1, <1>2, <1>6, HeldKeeps
<1>8. k \notin shared => On(k) = {t}
  BY <1>1, <1>2 DEF RunInv
<1>9. Shown(k) => Shown(k)'
  <2>1. \A d \in Days : <<k[1], k[2], d>> \in Messages
    BY <1>1 DEF Keys, Messages
  <2>2. posts \in [Messages -> Nat]
    BY <1>2 DEF Typed
  <2> QED BY <1>1, <1>3, <2>1, <2>2 DEF Shown
<1>10. k \notin shared /\ tick[t].pc \in {"write", "post", "mark", "fail"} => row[k] # "SENT"
  BY <1>1, <1>2 DEF RunInv
<1>11. k \notin unsure \union shared => posts[k] \in {0, 1} /\ (posts[k] = 1 => row[k] = "SENT" \/ tick[t].pc = "mark")
  <2>1. posts[k] \in Nat
    BY <1>1, <1>2 DEF Typed
  <2> QED BY <1>2, <1>8, <2>1 DEF RunInv
<1>12. row[k] = "SENT" \/ (\E u \in On(k) : tick[u].pc = "mark") => Shown(k)
  BY <1>2 DEF RunInv
<1>13. ASSUME k \notin shared /\ v.pc \in {"write", "post", "mark", "fail"} => row'[k] # "SENT",
              k \notin unsure' \union shared => posts'[k] <= 1 /\ (posts'[k] = 1 => row'[k] = "SENT" \/ v.pc = "mark"),
              v.pc = "mark" \/ (row'[k] = "SENT" /\ row[k] # "SENT") => Shown(k)'
       PROVE  RunInv(k)'
  <2>1. row'[k] = "SENT" \/ (\E u \in On(k)' : tick'[u].pc = "mark") => Shown(k)'
    <3>1. ASSUME NEW u \in On(k)', tick'[u].pc = "mark" PROVE Shown(k)'
      <4>1. u \in On(k) /\ u \in Ticks
        BY <1>6, <3>1 DEF On
      <4>2. CASE u = t
        BY <1>6, <1>13, <3>1, <4>2
      <4>3. CASE u # t
        BY <1>6, <1>9, <1>12, <3>1, <4>1, <4>3
      <4> QED BY <4>2, <4>3
    <3>2. ASSUME row'[k] = "SENT" PROVE Shown(k)'
      BY <1>9, <1>12, <1>13, <3>2
    <3> QED BY <3>1, <3>2
  <2>2. k \notin shared' => /\ \A r, u \in On(k)' : r = u
                           /\ \A u \in On(k)' : u = t
    BY <1>6, <1>8
  <2>3. k \notin shared' => \E e \in Conns : held'[e][k] > 0
    BY <1>1, <1>2 DEF RunInv
  <2>4. k \notin unsure' \union shared' => (posts'[k] = 1 => row'[k] = "SENT" \/ \E u \in On(k)' : tick'[u].pc = "mark")
    BY <1>1, <1>6, <1>13
  <2> QED BY <1>6, <1>13, <2>1, <2>2, <2>3, <2>4 DEF RunInv
<1>14. RowBefore(k, tick[t])
  BY <1>1, <1>10, <1>11, <1>12 DEF RowBefore
<1> QED BY <1>1, <1>6, <1>7, <1>9, <1>13, <1>14 DEF RowAfter

LEMMA ReadSteps == ASSUME DailyLimits, DailyInv, NEW t \in Ticks, Read(t) PROVE DailyInv'
<1>a. PICK w : w = tick[t]
  OBVIOUS
<1>b. PICK k : k = KeyOf(w)
  OBVIOUS
<1>c. PICK pc : pc = IF row[k] = "SENT" THEN "unlock" ELSE "write"
  OBVIOUS
<1>d. PICK v : v = [[w EXCEPT !.seen = row[k]] EXCEPT !.pc = pc]
  OBVIOUS
<1>1. Key(t) = k /\ w.pc = "read" /\ tick[t].pc \in Working
  BY <1>a, <1>b, TickNames DEF Read, At, Working
<1>2. k \in Keys /\ w \in TickRecs /\ TickOK(w, minute) /\ JobOf(w) \in Jobs
  BY <1>a, <1>b, <1>1, KeyThere
<1>3. Typed /\ pc \in Working /\ pc \in {"unlock", "write"} /\ row[k] \in {"none", "PENDING", "SENT"}
  BY <1>c, <1>2 DEF DailyInv, Typed, Working
<1>4. tick' = [tick EXCEPT ![t] = v]
  BY <1>a, <1>c, <1>d, <1>1, <1>2, <1>3 DEF Read, Typed, TickRecs
<1>5. v \in TickRecs /\ TickOK(v, minute) /\ v.pc = pc /\ KeyOf(v) = k
  <2>1. PICK z : z = [w EXCEPT !.seen = row[k]]
    OBVIOUS
  <2>2. z \in TickRecs /\ z.pc = w.pc /\ z.todo = w.todo /\ z.profile = w.profile /\ z.day = w.day
    BY <1>2, <1>3, <2>1 DEF TickRecs
  <2>3. JobOf(z) = JobOf(w) /\ KeyOf(z) = k
    BY <1>b, <2>2, JobOfSame DEF KeyOf
  <2>4. TickOK(z, minute)
    BY <1>2, <2>2, <2>3 DEF TickOK
  <2> QED BY <1>d, <1>1, <1>2, <1>3, <2>1, <2>2, <2>3, <2>4, GoFits
<1>6. UNCHANGED <<Clock, active, row, chunk, held, log, posts, unsure, shared, leaked>>
  BY DEF Read, Past
<1>7. posts[k] \in Nat
  BY <1>2, <1>3 DEF Typed, Messages
<1>8. RowBefore(k, w) /\ (RowAfter(k, v) => DailyInv')
  BY <1>a, <1>b, <1>1, <1>3, <1>4, <1>5, <1>6, KeyGoes
<1>9. RowAfter(k, v)
  BY <1>c, <1>1, <1>3, <1>5, <1>6, <1>7, <1>8 DEF RowBefore, RowAfter
<1> QED BY <1>8, <1>9

LEMMA WriteSteps == ASSUME DailyLimits, DailyInv, NEW t \in Ticks, Write(t) PROVE DailyInv'
<1>a. PICK w : w = tick[t]
  OBVIOUS
<1>b. PICK k : k = KeyOf(w)
  OBVIOUS
<1>1. Key(t) = k /\ Job(t) = JobOf(w) /\ w.pc = "write" /\ tick[t].pc \in Working
  BY <1>a, <1>b, TickNames DEF Write, At, Working
<1>2. k \in Keys /\ w \in TickRecs /\ TickOK(w, minute) /\ JobOf(w) \in Jobs
  BY <1>a, <1>b, <1>1, KeyThere
<1>3. Typed /\ row \in [Keys -> {"none", "PENDING", "SENT"}]
  BY DEF DailyInv, Typed
<1>4. UNCHANGED <<Clock, active, chunk, held, log, posts, unsure, shared, leaked>>
  BY DEF Write, Past
<1>5. posts[k] \in Nat
  BY <1>2, <1>3 DEF Typed, Messages
<1>6. CASE Refused(t)
  <2>1. PICK v : v = [[w EXCEPT !.todo = {JobOf(w)}] EXCEPT !.pc = "unlock"]
    OBVIOUS
  <2>0. row' = row /\ tick' = [tick EXCEPT ![t].todo = {JobOf(w)}, ![t].pc = "unlock"]
    BY <1>1, <1>6 DEF Write
  <2>2. tick' = [tick EXCEPT ![t] = v] /\ row' = row
    BY <1>a, <1>2, <1>3, <2>0, <2>1 DEF Typed, TickRecs
  <2>3. v \in TickRecs /\ TickOK(v, minute) /\ v.pc = "unlock" /\ KeyOf(v) = k
    <3>1. PICK z : z = [w EXCEPT !.todo = {JobOf(w)}]
      OBVIOUS
    <3>2. JobOf(w) \in AllJobs
      BY <1>2 DEF AllJobs
    <3>3. z \in TickRecs /\ z.pc = w.pc /\ z.todo = {JobOf(w)} /\ z.profile = w.profile /\ z.day = w.day
      BY <1>2, <3>1, <3>2 DEF TickRecs
    <3>4. JobOf(z) = JobOf(w)
      BY <3>2, <3>3, JobOfOne
    <3>5. KeyOf(z) = k
      BY <1>b, <3>3, <3>4 DEF KeyOf
    <3>6. TickOK(z, minute)
      BY <1>2, <3>3, <3>4 DEF TickOK
    <3> QED BY <1>1, <1>2, <2>1, <3>1, <3>3, <3>4, <3>5, <3>6, GoFits DEF Working
  <2>4. v.pc \in Working
    BY <2>3 DEF Working
  <2>5. RowBefore(k, w) /\ (RowAfter(k, v) => DailyInv')
    BY <1>a, <1>b, <1>1, <1>4, <2>2, <2>3, <2>4, KeyGoes
  <2>6. RowAfter(k, v)
    BY <1>1, <1>4, <1>5, <2>2, <2>3, <2>5 DEF RowBefore, RowAfter
  <2> QED BY <2>5, <2>6
<1>7. CASE ~Refused(t)
  <2>1. PICK v : v = [w EXCEPT !.pc = "post"]
    OBVIOUS
  <2>2. tick' = [tick EXCEPT ![t] = v] /\ row' = [row EXCEPT ![k] = "PENDING"]
    BY <1>a, <1>1, <1>2, <1>3, <1>7, <2>1 DEF Write, Go, Typed, TickRecs
  <2>3. v \in TickRecs /\ TickOK(v, minute) /\ v.pc = "post" /\ KeyOf(v) = k
    BY <1>b, <1>1, <1>2, <2>1, GoFits DEF Working
  <2>4. row'[k] = "PENDING" /\ v.pc \in Working
    BY <1>2, <1>3, <2>2, <2>3 DEF Working
  <2>5. RowBefore(k, w) /\ (RowAfter(k, v) => DailyInv')
    BY <1>a, <1>b, <1>1, <1>4, <2>2, <2>3, <2>4, KeyGoes
  <2>6. RowAfter(k, v)
    BY <1>1, <1>4, <1>5, <2>3, <2>4, <2>5 DEF RowBefore, RowAfter
  <2> QED BY <2>5, <2>6
<1> QED BY <1>6, <1>7

LEMMA PostSteps == ASSUME DailyLimits, DailyInv, NEW t \in Ticks, Post(t) PROVE DailyInv'
<1>a. PICK w : w = tick[t]
  OBVIOUS
<1>b. PICK k : k = KeyOf(w)
  OBVIOUS
<1>1. Key(t) = k /\ w.pc = "post" /\ tick[t].pc \in Working
  BY <1>a, <1>b, TickNames DEF Post, At, Working
<1>2. k \in Keys /\ w \in TickRecs /\ TickOK(w, minute) /\ JobOf(w) \in Jobs
  BY <1>a, <1>b, <1>1, KeyThere
<1>3. Typed /\ row \in [Keys -> {"none", "PENDING", "SENT"}] /\ posts \in [Messages -> Nat] /\ k \in Messages
  BY <1>2 DEF DailyInv, Typed, Messages
<1>4. UNCHANGED <<Clock, active, chunk, held, log, shared, leaked>>
  BY DEF Post, Past
<1>5. PICK m : m = About(t)
  OBVIOUS
<1>6. m \in Keys /\ m \in Messages /\ (m # k => \E d \in Days : d > k[3] /\ m = <<k[1], k[2], d>>)
  <2>1. Job(t) = JobOf(w) /\ tick[t].profile = w.profile
    BY <1>a, TickNames
  <2>2. k[1] = JobOf(w) /\ k[2] = w.profile /\ k[3] = w.day /\ w.profile \in Profiles /\ w.day \in Days
    BY <1>b, <1>2 DEF KeyOf, Keys
  <2>3. Day(minute) \in Days /\ Day(minute) \in Nat /\ w.day <= Day(minute) /\ w.day \in Nat
    BY <1>1, <1>2, <1>3, DayOfMinute DEF Typed, TickOK, Working, TickRecs, Days
  <2>4. m = k \/ m = <<k[1], k[2], Day(minute)>>
    BY <1>1, <1>5, <2>1, <2>2 DEF About
  <2>5. m \in Keys
    BY <1>2, <2>2, <2>3, <2>4 DEF Keys
  <2>6. m # k => Day(minute) # w.day
    BY <1>b, <2>2, <2>4 DEF KeyOf
  <2> QED BY <2>2, <2>3, <2>4, <2>5, <2>6 DEF Messages
<1>7. PICK pc \in {"mark", "fail"} : Go(t, pc) /\
         \/ pc = "mark" /\ Posted(m) /\ unsure' = IF m # k THEN unsure \union {m} ELSE unsure
         \/ pc = "fail" /\ UNCHANGED <<posts, unsure>>
         \/ pc = "fail" /\ Posted(m) /\ unsure' = unsure \union {m}
  BY <1>1, <1>5 DEF Post
<1>8. PICK v : v = [w EXCEPT !.pc = pc]
  OBVIOUS
<1>9. tick' = [tick EXCEPT ![t] = v] /\ row' = row
  BY <1>a, <1>3, <1>7, <1>8 DEF Go, Post, Typed
<1>10. v \in TickRecs /\ TickOK(v, minute) /\ v.pc = pc /\ KeyOf(v) = k /\ pc \in Working
  <2>1. pc \in Working
    BY DEF Working
  <2>2. w.pc # "idle"
    BY <1>1
  <2> QED BY <1>b, <1>2, <1>8, <2>1, <2>2, GoFits
<1>11. posts' = posts \/ \E q \in Keys : posts' = [posts EXCEPT ![q] = @ + 1] /\ (q # k => q \in unsure')
  BY <1>6, <1>7 DEF Posted
<1>12. unsure \subseteq unsure' /\ unsure' \subseteq unsure \union Keys
  BY <1>6, <1>7
<1>13. RowBefore(k, w) /\ (RowAfter(k, v) => DailyInv')
  BY <1>a, <1>b, <1>1, <1>4, <1>9, <1>10, <1>11, <1>12, KeyGoes
<1>14. posts[k] \in Nat /\ (k \notin unsure \union shared => posts[k] = 0)
  BY <1>1, <1>3, <1>13 DEF RowBefore
<1>15. pc = "mark" => Shown(k)'
  <2>1. ASSUME pc = "mark" PROVE posts' = [posts EXCEPT ![m] = @ + 1]
    BY <1>7, <2>1 DEF Posted
  <2>2. ASSUME pc = "mark" PROVE posts'[m] > 0
    <3>1. posts'[m] = posts[m] + 1 /\ posts[m] \in Nat
      BY <1>3, <1>6, <2>1, <2>2
    <3> QED BY <3>1
  <2> QED BY <1>6, <2>2 DEF Shown
<1>16. k \notin unsure' \union shared => posts'[k] <= 1 /\ (posts'[k] = 1 => pc = "mark")
  <2> SUFFICES ASSUME k \notin unsure' \union shared PROVE posts'[k] <= 1 /\ (posts'[k] = 1 => pc = "mark")
    OBVIOUS
  <2>1. posts[k] = 0
    BY <1>12, <1>14
  <2>2. posts' = posts \/ ((pc = "mark" \/ m # k) /\ posts' = [posts EXCEPT ![m] = @ + 1])
    BY <1>7 DEF Posted
  <2>3. posts'[k] = 0 \/ (pc = "mark" /\ posts'[k] \in {0, 1})
    BY <1>3, <1>6, <2>1, <2>2
  <2> QED BY <2>3
<1>17. row'[k] = row[k]
  BY <1>9
<1> QED BY <1>1, <1>10, <1>13, <1>15, <1>16, <1>17 DEF RowBefore, RowAfter

LEMMA MarkSteps == ASSUME DailyLimits, DailyInv, NEW t \in Ticks, Mark(t) PROVE DailyInv'
<1>a. PICK w : w = tick[t]
  OBVIOUS
<1>b. PICK k : k = KeyOf(w)
  OBVIOUS
<1>1. Key(t) = k /\ w.pc = "mark" /\ tick[t].pc \in Working
  BY <1>a, <1>b, TickNames DEF Mark, At, Working
<1>2. k \in Keys /\ w \in TickRecs /\ TickOK(w, minute) /\ JobOf(w) \in Jobs
  BY <1>a, <1>b, <1>1, KeyThere
<1>3. Typed /\ row \in [Keys -> {"none", "PENDING", "SENT"}] /\ posts \in [Messages -> Nat] /\ k \in Messages
  BY <1>2 DEF DailyInv, Typed, Messages
<1>4. UNCHANGED <<Clock, active, chunk, held, log, shared, leaked>>
  BY DEF Mark, Past
<1>5. PICK pc \in {"unlock", "fail"} : Go(t, pc) /\
         \/ pc = "unlock" /\ row' = [row EXCEPT ![k] = "SENT"] /\ unsure' = unsure
         \/ pc = "fail" /\ row' = row /\ unsure' = unsure \union {k}
  BY <1>1 DEF Mark
<1>6. PICK v : v = [w EXCEPT !.pc = pc]
  OBVIOUS
<1>7. tick' = [tick EXCEPT ![t] = v] /\ posts' = posts
  BY <1>a, <1>3, <1>5, <1>6 DEF Go, Mark, Typed
<1>8. v \in TickRecs /\ TickOK(v, minute) /\ v.pc = pc /\ KeyOf(v) = k /\ pc \in Working
  <2>1. pc \in Working
    BY DEF Working
  <2>2. w.pc # "idle"
    BY <1>1
  <2> QED BY <1>b, <1>2, <1>6, <2>1, <2>2, GoFits
<1>9. unsure \subseteq unsure' /\ unsure' \subseteq unsure \union Keys
  BY <1>2, <1>5
<1>10. row' = row \/ \E r \in {"PENDING", "SENT"} : row' = [row EXCEPT ![k] = r]
  BY <1>5
<1>11. (Shown(k) => Shown(k)') /\ RowBefore(k, w) /\ (RowAfter(k, v) => DailyInv')
  BY <1>a, <1>b, <1>1, <1>4, <1>7, <1>8, <1>9, <1>10, KeyGoes
<1>12. posts'[k] = posts[k] /\ posts[k] \in Nat
  BY <1>3, <1>7
<1>13. CASE pc = "unlock"
  <2>1. row'[k] = "SENT" /\ unsure' = unsure
    BY <1>2, <1>3, <1>5, <1>13
  <2> QED BY <1>1, <1>8, <1>11, <1>12, <1>13, <2>1 DEF RowBefore, RowAfter
<1>14. CASE pc = "fail"
  <2>1. row'[k] = row[k] /\ k \in unsure'
    BY <1>5, <1>14
  <2> QED BY <1>1, <1>8, <1>11, <1>12, <1>14, <2>1 DEF RowBefore, RowAfter
<1> QED BY <1>13, <1>14

LEMMA MarkFailedSteps == ASSUME DailyLimits, DailyInv, NEW t \in Ticks, MarkFailed(t) PROVE DailyInv'
<1>a. PICK w : w = tick[t]
  OBVIOUS
<1>b. PICK k : k = KeyOf(w)
  OBVIOUS
<1>1. Key(t) = k /\ w.pc = "fail" /\ tick[t].pc \in Working
  BY <1>a, <1>b, TickNames DEF MarkFailed, At, Working
<1>2. k \in Keys /\ w \in TickRecs /\ TickOK(w, minute) /\ JobOf(w) \in Jobs
  BY <1>a, <1>b, <1>1, KeyThere
<1>3. Typed /\ row \in [Keys -> {"none", "PENDING", "SENT"}] /\ posts \in [Messages -> Nat] /\ k \in Messages
  BY <1>2 DEF DailyInv, Typed, Messages
<1>4. UNCHANGED <<Clock, active, chunk, held, log, shared, leaked>>
  BY DEF MarkFailed, Past
<1>5. PICK v : v = [w EXCEPT !.pc = "unlock"]
  OBVIOUS
<1>6. tick' = [tick EXCEPT ![t] = v] /\ row' = [row EXCEPT ![k] = "PENDING"] /\ UNCHANGED <<posts, unsure>>
  BY <1>a, <1>1, <1>3, <1>5 DEF Go, MarkFailed, Typed, Past
<1>7. v \in TickRecs /\ TickOK(v, minute) /\ v.pc = "unlock" /\ KeyOf(v) = k /\ v.pc \in Working
  BY <1>b, <1>1, <1>2, <1>5, GoFits DEF Working
<1>8. RowBefore(k, w) /\ (RowAfter(k, v) => DailyInv')
  BY <1>a, <1>b, <1>1, <1>4, <1>6, <1>7, KeyGoes
<1>9. row'[k] = "PENDING" /\ posts'[k] = posts[k] /\ posts[k] \in Nat
  BY <1>2, <1>3, <1>6
<1> QED BY <1>1, <1>6, <1>7, <1>8, <1>9 DEF RowBefore, RowAfter

LEMMA UnlockSteps == ASSUME DailyLimits, DailyInv, NEW t \in Ticks, NEW c \in Conns, Unlock(t, c) PROVE DailyInv'
<1>a. PICK w : w = tick[t]
  OBVIOUS
<1>b. PICK k : k = KeyOf(w)
  OBVIOUS
<1>1. Key(t) = k /\ w.pc = "unlock" /\ tick[t].pc \in Working
  BY <1>a, <1>b, TickNames DEF Unlock, At, Working
<1>2. k \in Keys /\ w \in TickRecs /\ TickOK(w, minute) /\ JobOf(w) \in Jobs
  BY <1>a, <1>b, <1>1, KeyThere
<1>3. Typed /\ row \in [Keys -> {"none", "PENDING", "SENT"}] /\ posts \in [Messages -> Nat] /\ k \in Messages
  BY <1>2 DEF DailyInv, Typed, Messages
<1>4. UNCHANGED <<Clock, active, row, chunk, log, posts, unsure, shared>>
  BY DEF Unlock, Past
<1>c. PICK v : v = DoneRec(w)
  OBVIOUS
<1>5. v \in TickRecs /\ TickOK(v, minute) /\ v.pc \notin Working /\ v.pc \notin Sending
  <2>1. v \in TickRecs /\ TickOK(v, minute) /\ v.pc \in {"idle", "job"}
    BY <1>c, <1>1, <1>2, DoneFits
  <2> QED BY <2>1 DEF Working, Sending
<1>6. tick' = [tick EXCEPT ![t] = v]
  BY <1>a, <1>c, <1>3, DoneIs DEF Typed, Unlock
<1>7. /\ held' = [held EXCEPT ![c][k] = IF @ > 0 THEN @ - 1 ELSE 0]
      /\ leaked' = IF held[c][k] = 0 THEN leaked \union {k} ELSE leaked
  BY <1>1 DEF Unlock
<1>8. held \in [Conns -> [Keys -> Nat]]
  BY <1>3 DEF Typed
<1>9. /\ held' \in [Conns -> [Keys -> Nat]] /\ held'[c][k] = IF held[c][k] > 0 THEN held[c][k] - 1 ELSE 0
      /\ \A e \in Conns, q \in Keys : e # c \/ q # k => held'[e][q] = held[e][q]
  BY <1>2, <1>7, <1>8
<1>10. /\ t \in On(k) /\ On(k)' = On(k) \ {t} /\ \A u \in Ticks : u # t => tick'[u] = tick[u]
       /\ RunInv(k)' /\ HeldInv(k)' => DailyInv'
  <2>1. row' \in [Keys -> {"none", "PENDING", "SENT"}] /\ posts' \in [Messages -> Nat]
    BY <1>3, <1>4
  <2>2. \A q \in Keys \ {k} :
          /\ row'[q] = row[q]
          /\ q \notin unsure' => posts'[q] = posts[q]
          /\ (\A e \in Conns : held'[e][q] = held[e][q]) /\ (q \in leaked => q \in leaked')
    BY <1>4, <1>7, <1>9
  <2>3. \A m \in Messages : posts'[m] >= posts[m] /\ (m \notin Keys => posts'[m] = posts[m])
    BY <1>3, <1>4
  <2>4. unsure \subseteq unsure' /\ unsure' \subseteq unsure \union Keys /\ shared \subseteq shared'
    BY <1>4
  <2>5. tick[t].pc \notin Sending /\ (tick[t].pc \in Working => KeyOf(tick[t]) = k) /\ (v.pc \in Working => KeyOf(v) = k)
    BY <1>a, <1>b, <1>1, <1>5 DEF Sending
  <2>6. held' \in [Conns -> [Keys -> Nat]] /\ UNCHANGED <<Clock, active, chunk, log>>
    BY <1>4, <1>9
  <2>7. /\ On(k)' = (On(k) \ {t}) \union (IF v.pc \in Working THEN {t} ELSE {})
        /\ tick'[t] = v /\ \A u \in Ticks : u # t => tick'[u] = tick[u]
        /\ RunInv(k)' /\ HeldInv(k)' => DailyInv'
    BY <1>2, <1>5, <1>6, <2>1, <2>2, <2>3, <2>4, <2>5, <2>6, KeyWorks
  <2> QED BY <1>a, <1>b, <1>1, <1>5, <2>7 DEF On
<1>11. RunInv(k) /\ HeldInv(k)
  BY <1>2 DEF DailyInv
<1>12. RunInv(k)'
  <2>1. k \notin shared => On(k)' = {}
    BY <1>10, <1>11 DEF RunInv
  <2>2. On(k) \subseteq Ticks /\ tick[t].pc # "mark"
    BY <1>a, <1>1 DEF On
  <2>3. (\E u \in On(k)' : tick'[u].pc = "mark") => (\E u \in On(k) : tick[u].pc = "mark")
    BY <1>10, <2>2
  <2>4. k \notin unsure \union shared => (posts[k] = 1 => row[k] = "SENT")
    <3>1. k \notin shared => On(k) = {t}
      BY <1>10, <1>11 DEF RunInv
    <3> QED BY <1>11, <2>2, <3>1 DEF RunInv
  <2>5. Shown(k)' = Shown(k)
    BY <1>4 DEF Shown
  <2> QED BY <1>4, <1>11, <2>1, <2>3, <2>4, <2>5 DEF RunInv
<1>13. HeldInv(k)'
  <2>1. \A e \in Conns : held'[e][k] > 0 => held[e][k] > 0
    <3> SUFFICES ASSUME NEW e \in Conns, held'[e][k] > 0 PROVE held[e][k] > 0
      OBVIOUS
    <3>1. CASE e = c
      BY <1>9, <3>1
    <3>2. CASE e # c
      BY <1>2, <1>9, <3>2
    <3> QED BY <3>1, <3>2
  <2>2. IsFiniteSet(On(k)) /\ Cardinality(On(k)) \in Nat
    BY FS_Subset, FS_CardinalityType DEF DailyLimits, On
  <2>3. Cardinality(On(k)') = Cardinality(On(k)) - 1 /\ Cardinality(On(k)') \in Nat
    <3>1. Cardinality(On(k)') = Cardinality(On(k)) - 1 /\ IsFiniteSet(On(k)')
      BY <1>10, <2>2, FS_RemoveElement
    <3> QED BY <3>1, FS_CardinalityType
  <2>4. ASSUME k \notin leaked', NEW e \in Conns PROVE held'[e][k] <= Cardinality(On(k)')
    <3>1. k \notin leaked /\ held[c][k] # 0 /\ held[c][k] \in Nat /\ held[e][k] \in Nat
      BY <1>2, <1>7, <1>8, <2>4
    <3>2. held[e][k] <= Cardinality(On(k)) /\ (held[e][k] > 0 => e = c)
      BY <1>11, <3>1 DEF HeldInv
    <3>3. CASE e = c
      BY <1>9, <2>2, <2>3, <3>1, <3>2, <3>3
    <3>4. CASE e # c
      <4>1. held'[e][k] = held[e][k]
        BY <1>2, <1>9, <3>4
      <4> QED BY <2>3, <3>1, <3>2, <3>4, <4>1
    <3> QED BY <3>3, <3>4
  <2> QED BY <1>11, <2>1, <2>4 DEF HeldInv
<1> QED BY <1>10, <1>12, <1>13

-----------------------------------------------------------------------------
(* The steps of sendChunked.                                               *)

\* A chunk that nobody sends, and is not out yet, has posted nothing unrecorded.
LEMMA NothingOut ==
  ASSUME DailyInv, NEW x \in ChunkKeys, chunk[x] # "SENT", NEW p \in Profiles, <<x[1], p, x[2]>> \notin unsure,
         \A t \in Holds(x) : tick[t].pc = "finalise" => tick[t].profile # p
  PROVE  posts[<<x[1], p, x[2]>>] = 0
<1>1. posts[<<x[1], p, x[2]>>] \in Nat
  BY KeysAndMessages DEF DailyInv, Typed
<1>2. posts[<<x[1], p, x[2]>>] <= 1 /\ posts[<<x[1], p, x[2]>>] # 1
  BY DEF DailyInv, ChunkInv
<1> QED BY <1>1, <1>2

LEMMA ClaimChunkSteps == ASSUME DailyLimits, DailyInv, NEW t \in Ticks, ClaimChunk(t) PROVE DailyInv'
<1>a. PICK w : w = tick[t]
  OBVIOUS
<1>b. PICK x : x = ChunkKey(t)
  OBVIOUS
<1>1. Job(t) = JobOf(w) /\ w.pc = "job" /\ JobOf(w) \in Chunked
  BY <1>a, TickNames DEF ClaimChunk, At
<1>2. Typed /\ w \in TickRecs /\ TickOK(w, minute)
  BY <1>a DEF DailyInv, Typed, TicksOK
<1>3. CASE Done(t) /\ UNCHANGED chunk
  <2>1. DoneRec(w) \in TickRecs /\ TickOK(DoneRec(w), minute) /\ DoneRec(w).pc \in {"idle", "job"}
    BY <1>1, <1>2, DoneFits
  <2>2. tick' = [tick EXCEPT ![t] = DoneRec(w)]
    BY <1>a, <1>2, <1>3, DoneIs DEF Typed
  <2>3. ticked' \in 0..Horizon /\ UNCHANGED <<minute, active, row, chunk, held, log, posts, unsure, shared, leaked>>
    BY <1>2, <1>3 DEF ClaimChunk, Clock, Past, Typed
  <2> QED BY <1>a, <1>1, <2>1, <2>2, <2>3, AsideStep
<1>4. CASE ~(Done(t) /\ UNCHANGED chunk)
  <2>1. /\ chunk[x] \notin {"SENT", "leased"} /\ chunk' = [chunk EXCEPT ![x] = "leased"]
        /\ tick' = [tick EXCEPT ![t].pc = "send", ![t].day = Day(minute)]
        /\ UNCHANGED <<Clock, active, row, held, log, posts, unsure, shared, leaked>>
    BY <1>b, <1>4 DEF ClaimChunk, Past
  <2>2. Day(minute) \in Days /\ Day(minute) \in Nat
    BY <1>2, DayOfMinute DEF Typed
  <2>3. PICK v : v = [[w EXCEPT !.pc = "send"] EXCEPT !.day = Day(minute)]
    OBVIOUS
  <2>4. tick' = [tick EXCEPT ![t] = v]
    BY <1>a, <1>2, <2>1, <2>3 DEF Typed, TickRecs
  <2>5. v.pc = "send" /\ v.todo = w.todo /\ v.profile = w.profile /\ v.day = Day(minute) /\ v \in TickRecs
    BY <1>2, <2>2, <2>3 DEF TickRecs, Sending
  <2>6. JobOf(v) = JobOf(w) /\ x = <<JobOf(w), Day(minute)>>
    BY <1>b, <1>1, <2>5, JobOfSame DEF ChunkKey
  <2>7. x \in ChunkKeys /\ LeaseOf(v) = x
    BY <1>1, <2>2, <2>5, <2>6 DEF ChunkKeys, LeaseOf
  <2>8. TickOK(v, minute) /\ w.profile \in Profiles
    BY <1>1, <1>2, <2>2, <2>5, <2>6 DEF TickOK, Working, Sending
  <2>9. ChunkInv(x) /\ Holds(x) = {}
    BY <2>1, <2>7 DEF DailyInv, ChunkInv
  <2>10. Holds(x)' = {t} /\ tick'[t] = v /\ (ChunkInv(x)' => DailyInv')
    <3>1. tick[t].pc \notin Working /\ v.pc \notin Working /\ v.pc \in Sending /\ tick[t].pc \notin Sending
      BY <1>a, <1>1, <2>5 DEF Working, Sending
    <3>2. chunk' \in [ChunkKeys -> {"none", "PENDING", "leased", "SENT"}] /\ \A y \in ChunkKeys \ {x} : chunk'[y] = chunk[y]
      BY <1>2, <2>1 DEF Typed
    <3>3. posts' \in [Messages -> Nat] /\ OnlyMore(MsgOf(x, w.profile))
      BY <1>2, <2>1 DEF Typed, OnlyMore
    <3>4. unsure \subseteq unsure' /\ unsure' \subseteq unsure \union {MsgOf(x, w.profile)}
      BY <2>1
    <3>5. UNCHANGED <<Clock, active, row, held, log, shared, leaked>>
      BY <2>1
    <3>7. LeaseMove(t, v, x, w.profile)
      BY <2>4, <2>7, <2>8, <3>1, <3>2, <3>3, <3>4, <3>5 DEF LeaseMove
    <3>6. /\ Holds(x)' = (Holds(x) \ {t}) \union (IF v.pc \in Sending THEN {t} ELSE {})
          /\ tick'[t] = v /\ (ChunkInv(x)' => DailyInv')
      BY <2>5, <2>7, <2>8, <3>7, LeaseWorks
    <3> QED BY <2>9, <3>1, <3>6
  <2>11. chunk'[x] = "leased" /\ UNCHANGED <<posts, unsure>>
    BY <1>2, <2>1, <2>7 DEF Typed
  <2>12. \A p \in Profiles : <<x[1], p, x[2]>> \notin unsure => posts[<<x[1], p, x[2]>>] = 0
    BY <2>1, <2>7, <2>9, NothingOut
  <2>13. ChunkInv(x)'
    BY <2>5, <2>9, <2>10, <2>11, <2>12 DEF ChunkInv
  <2> QED BY <2>10, <2>13
<1> QED BY <1>3, <1>4


\* What a step of its tick may do with a lease and its message.
Released(x) == chunk' = chunk \/ \E r \in {"PENDING", "SENT"} : chunk' = [chunk EXCEPT ![x] = r]
PostedAs(n) ==
    /\ posts' = posts \/ posts' = [posts EXCEPT ![n] = @ + 1]
    /\ unsure' = unsure \/ unsure' = unsure \union {n}

LeaseAfter(x, p, v) ==
    /\ v.pc = "finalise" => chunk'[x] = "leased"
    /\ <<x[1], p, x[2]>> \notin unsure' => posts'[<<x[1], p, x[2]>>] <= 1
          /\ (posts'[<<x[1], p, x[2]>>] = 1 => chunk'[x] = "SENT" \/ v.pc = "finalise")
    /\ chunk'[x] = "SENT" \/ v.pc = "finalise" => posts'[<<x[1], p, x[2]>>] > 0

\* A tick with a lease: what is known before, and what is left to show.
LEMMA LeaseGoes ==
  ASSUME DailyLimits, DailyInv, NEW t \in Ticks, tick[t].pc \in Sending, NEW x, x = LeaseOf(tick[t]), NEW p, p = tick[t].profile,
         NEW v \in TickRecs, tick' = [tick EXCEPT ![t] = v], TickOK(v, minute),
         v.pc \in {"idle", "job"} \/ (v.pc = "finalise" /\ LeaseOf(v) = x /\ v.profile = p),
         Released(x), PostedAs(MsgOf(x, p)),
         UNCHANGED <<Clock, active, row, held, log, shared, leaked>>
  PROVE  /\ x \in ChunkKeys /\ p \in Profiles /\ chunk[x] = "leased" /\ posts[<<x[1], p, x[2]>>] \in Nat
         /\ <<x[1], p, x[2]>> \in Messages
         /\ tick[t].pc = "finalise" => posts[<<x[1], p, x[2]>>] > 0
         /\ tick[t].pc = "send" /\ <<x[1], p, x[2]>> \notin unsure => posts[<<x[1], p, x[2]>>] = 0
         /\ <<x[1], p, x[2]>> \notin unsure => posts[<<x[1], p, x[2]>>] <= 1
         /\ LeaseAfter(x, p, v) => DailyInv'
<1>1. /\ x \in ChunkKeys /\ p \in Profiles /\ <<x[1], p, x[2]>> \in Messages
      /\ tick[t].pc \notin Working /\ Holds(x) = {t} /\ chunk[x] = "leased"
  <2>1. KeyOf(tick[t]) = <<x[1], p, x[2]>> /\ KeyOf(tick[t]) \in Messages
    BY LeaseThere
  <2> QED BY <2>1, LeaseThere
<1>2. Typed /\ ChunkInv(x)
  BY <1>1 DEF DailyInv
<1>3. posts \in [Messages -> Nat] /\ chunk \in [ChunkKeys -> {"none", "PENDING", "leased", "SENT"}]
  BY <1>2 DEF Typed
<1>4. /\ posts' \in [Messages -> Nat]
      /\ \A m \in Messages : posts'[m] >= posts[m] /\ (m # <<x[1], p, x[2]>> => posts'[m] = posts[m])
  <2> DEFINE n == <<x[1], p, x[2]>>
  <2>1. n \in Messages
    BY <1>1
  <2>2. posts' = posts \/ posts' = [posts EXCEPT ![n] = @ + 1]
    BY DEF PostedAs, MsgOf
  <2> HIDE DEF n
  <2>3. posts' \in [Messages -> Nat] /\ \A m \in Messages : posts'[m] >= posts[m] /\ (m # n => posts'[m] = posts[m])
    BY <1>3, <2>1, <2>2
  <2> QED BY <2>3 DEF n
<1>5. chunk' \in [ChunkKeys -> {"none", "PENDING", "leased", "SENT"}] /\ \A y \in ChunkKeys \ {x} : chunk'[y] = chunk[y]
  BY <1>3 DEF Released
<1>6. v.pc \notin Working /\ (v.pc \in Sending <=> v.pc = "finalise") /\ (v.pc \in Sending => LeaseOf(v) = x)
  BY DEF Working, Sending
<1>7. Holds(x)' = (IF v.pc = "finalise" THEN {t} ELSE {}) /\ tick'[t] = v /\ (ChunkInv(x)' => DailyInv')
  <2>1. unsure \subseteq unsure' /\ unsure' \subseteq unsure \union {MsgOf(x, p)}
    BY DEF MsgOf, PostedAs
  <2>3. OnlyMore(MsgOf(x, p))
    BY <1>4 DEF MsgOf, OnlyMore
  <2>4. x \in ChunkKeys /\ p \in Profiles /\ tick[t].pc \notin Working
    BY <1>1
  <2>5. posts' \in [Messages -> Nat] /\ (tick[t].pc \in Sending => LeaseOf(tick[t]) = x)
    BY <1>4
  <2>6. LeaseMove(t, v, x, p)
    BY <1>5, <1>6, <2>1, <2>3, <2>4, <2>5 DEF LeaseMove
  <2>2. /\ Holds(x)' = (Holds(x) \ {t}) \union (IF v.pc \in Sending THEN {t} ELSE {})
        /\ tick'[t] = v /\ (ChunkInv(x)' => DailyInv')
    BY <2>4, <2>6, LeaseWorks
  <2> QED BY <1>1, <1>6, <2>2
<1>8. \A e \in Profiles \ {p} : <<x[1], e, x[2]>> \notin unsure => posts[<<x[1], e, x[2]>>] = 0
  BY <1>1, NothingOut
<1>9. \A e \in Profiles \ {p} : posts'[<<x[1], e, x[2]>>] = posts[<<x[1], e, x[2]>>]
  <2> SUFFICES ASSUME NEW e \in Profiles \ {p} PROVE posts'[<<x[1], e, x[2]>>] = posts[<<x[1], e, x[2]>>]
    OBVIOUS
  <2>1. <<x[1], e, x[2]>> \in Messages /\ <<x[1], e, x[2]>> # <<x[1], p, x[2]>>
    BY <1>1, KeysAndMessages
  <2> QED BY <1>4, <2>1
<1>10. tick[t].pc = "finalise" => posts[<<x[1], p, x[2]>>] > 0
  BY <1>1, <1>2 DEF ChunkInv
<1>11. tick[t].pc = "send" /\ <<x[1], p, x[2]>> \notin unsure => posts[<<x[1], p, x[2]>>] = 0
  BY <1>1, NothingOut
<1>12. <<x[1], p, x[2]>> \notin unsure => posts[<<x[1], p, x[2]>>] <= 1
  BY <1>1, <1>2 DEF ChunkInv
<1>13. ASSUME v.pc = "finalise" => chunk'[x] = "leased",
              <<x[1], p, x[2]>> \notin unsure' => posts'[<<x[1], p, x[2]>>] <= 1
                   /\ (posts'[<<x[1], p, x[2]>>] = 1 => chunk'[x] = "SENT" \/ v.pc = "finalise"),
              chunk'[x] = "SENT" \/ v.pc = "finalise" => posts'[<<x[1], p, x[2]>>] > 0
       PROVE  ChunkInv(x)'
  <2>1. \A u \in Holds(x)' : u = t /\ tick'[u].pc = "finalise" /\ tick'[u].profile = p
    BY <1>6, <1>7 DEF Sending
  <2>2. ASSUME NEW e \in Profiles, <<x[1], e, x[2]>> \notin unsure'
        PROVE  /\ posts'[<<x[1], e, x[2]>>] <= 1
               /\ posts'[<<x[1], e, x[2]>>] = 1 =>
                     chunk'[x] = "SENT" \/ \E u \in Holds(x)' : tick'[u].pc = "finalise" /\ tick'[u].profile = e
    <3>0. <<x[1], e, x[2]>> \notin unsure
      BY <2>2 DEF PostedAs
    <3>1. CASE e = p
      BY <1>6, <1>7, <1>13, <2>1, <2>2, <3>1
    <3>2. CASE e # p
      BY <1>8, <1>9, <3>0, <3>2
    <3> QED BY <3>1, <3>2
  <2>3. \A u \in Holds(x)' : posts'[<<x[1], tick'[u].profile, x[2]>>] > 0
    BY <1>13, <2>1, <1>7
  <2>4. chunk'[x] = "SENT" => \E e \in Profiles : posts'[<<x[1], e, x[2]>>] > 0
    BY <1>1, <1>13
  <2>5. Holds(x)' # {} => chunk'[x] = "leased"
    BY <1>7, <1>13
  <2> QED BY <2>1, <2>2, <2>3, <2>4, <2>5 DEF ChunkInv
<1> QED BY <1>1, <1>3, <1>7, <1>10, <1>11, <1>12, <1>13 DEF LeaseAfter

LEMMA SendChunkSteps == ASSUME DailyLimits, DailyInv, NEW t \in Ticks, SendChunk(t) PROVE DailyInv'
<1>a. PICK w : w = tick[t]
  OBVIOUS
<1>b. PICK x : x = LeaseOf(w)
  OBVIOUS
<1>c. PICK p : p = w.profile
  OBVIOUS
<1>d. PICK n : n = <<x[1], p, x[2]>>
  OBVIOUS
<1>1. Claimed(t) = x /\ w.pc = "send" /\ tick[t].pc \in Sending
  BY <1>a, <1>b, TickNames DEF SendChunk, At, Sending
<1>2. x \in ChunkKeys /\ p \in Profiles /\ w \in TickRecs /\ TickOK(w, minute) /\ w.pc # "idle" /\ JobOf(w) \in Chunked
  BY <1>a, <1>b, <1>c, <1>1, LeaseThere
<1>3. Key(t) = n
  BY <1>a, <1>b, <1>c, <1>d, <1>1, TickNames, LeaseThere
<1>4. Typed /\ chunk \in [ChunkKeys -> {"none", "PENDING", "leased", "SENT"}] /\ posts \in [Messages -> Nat] /\ n \in Messages
  BY <1>d, <1>2, KeysAndMessages DEF DailyInv, Typed
<1>5. UNCHANGED <<Clock, active, row, held, log, shared, leaked>>
  BY DEF SendChunk
<1>6. DoneRec(w) \in TickRecs /\ TickOK(DoneRec(w), minute) /\ DoneRec(w).pc \in {"idle", "job"}
  BY <1>2, DoneFits
<1>7. CASE Posted(n) /\ Go(t, "finalise") /\ UNCHANGED <<chunk, unsure>>
  <2>1. PICK v : v = [w EXCEPT !.pc = "finalise"]
    OBVIOUS
  <2>2. tick' = [tick EXCEPT ![t] = v]
    BY <1>a, <1>4, <1>7, <2>1 DEF Go, Typed
  <2>3. v \in TickRecs /\ TickOK(v, minute) /\ v.pc = "finalise" /\ LeaseOf(v) = x /\ v.profile = p
    BY <1>b, <1>c, <1>2, <2>1, GoFits DEF Sending
  <2>4. Released(x) /\ PostedAs(MsgOf(x, p))
    BY <1>d, <1>7 DEF Released, PostedAs, MsgOf, Posted
  <2>5. /\ chunk[x] = "leased" /\ (n \notin unsure => posts[n] = 0) /\ posts[n] \in Nat
        /\ LeaseAfter(x, p, v) => DailyInv'
    BY <1>a, <1>b, <1>c, <1>d, <1>1, <1>5, <2>2, <2>3, <2>4, LeaseGoes
  <2>6. posts'[n] = posts[n] + 1 /\ chunk' = chunk /\ unsure' = unsure
    BY <1>4, <1>7 DEF Posted
  <2>7. LeaseAfter(x, p, v)
    <3>1. n \notin unsure' => posts'[n] <= 1
      BY <2>5, <2>6
    <3>2. posts'[n] > 0
      BY <2>5, <2>6
    <3>3. chunk'[x] = "leased" /\ v.pc = "finalise"
      BY <2>3, <2>5, <2>6
    <3> QED BY <1>d, <3>1, <3>2, <3>3 DEF LeaseAfter
  <2> QED BY <2>5, <2>7
<1>8. CASE ~(Posted(n) /\ Go(t, "finalise") /\ UNCHANGED <<chunk, unsure>>)
  <2>1. Done(t) /\ \/ chunk' = [chunk EXCEPT ![x] = "PENDING"] /\ UNCHANGED <<posts, unsure>>
                   \/ UNCHANGED <<chunk, posts, unsure>>
                   \/ chunk' = [chunk EXCEPT ![x] = "PENDING"] /\ Posted(n) /\ unsure' = unsure \union {n}
    BY <1>1, <1>3, <1>8 DEF SendChunk
  <2>2. tick' = [tick EXCEPT ![t] = DoneRec(w)]
    BY <1>a, <1>4, <2>1, DoneIs DEF Typed
  <2>3. Released(x) /\ PostedAs(MsgOf(x, p))
    BY <1>d, <2>1 DEF Released, PostedAs, MsgOf, Posted
  <2>4. /\ chunk[x] = "leased" /\ (n \notin unsure => posts[n] = 0) /\ posts[n] \in Nat
        /\ LeaseAfter(x, p, DoneRec(w)) => DailyInv'
    BY <1>a, <1>b, <1>c, <1>d, <1>1, <1>5, <1>6, <2>2, <2>3, LeaseGoes
  <2>5. chunk'[x] # "SENT" /\ DoneRec(w).pc # "finalise"
    BY <1>2, <1>4, <1>6, <2>1, <2>4
  <2>6. n \notin unsure' => posts'[n] = 0
    BY <2>1, <2>4
  <2>7. LeaseAfter(x, p, DoneRec(w))
    BY <1>d, <2>5, <2>6 DEF LeaseAfter
  <2> QED BY <2>4, <2>7
<1> QED BY <1>7, <1>8

LEMMA FinaliseChunkSteps == ASSUME DailyLimits, DailyInv, NEW t \in Ticks, FinaliseChunk(t) PROVE DailyInv'
<1>a. PICK w : w = tick[t]
  OBVIOUS
<1>b. PICK x : x = LeaseOf(w)
  OBVIOUS
<1>c. PICK p : p = w.profile
  OBVIOUS
<1>d. PICK n : n = <<x[1], p, x[2]>>
  OBVIOUS
<1>1. Claimed(t) = x /\ w.pc = "finalise" /\ tick[t].pc \in Sending
  BY <1>a, <1>b, TickNames DEF FinaliseChunk, At, Sending
<1>2. x \in ChunkKeys /\ p \in Profiles /\ w \in TickRecs /\ TickOK(w, minute) /\ w.pc # "idle" /\ JobOf(w) \in Chunked
  BY <1>a, <1>b, <1>c, <1>1, LeaseThere
<1>3. Key(t) = n
  BY <1>a, <1>b, <1>c, <1>d, <1>1, TickNames, LeaseThere
<1>4. Typed /\ chunk \in [ChunkKeys -> {"none", "PENDING", "leased", "SENT"}] /\ posts \in [Messages -> Nat] /\ n \in Messages
  BY <1>d, <1>2, KeysAndMessages DEF DailyInv, Typed
<1>5. UNCHANGED <<Clock, active, row, held, log, shared, leaked>>
  BY DEF FinaliseChunk
<1>6. DoneRec(w) \in TickRecs /\ TickOK(DoneRec(w), minute) /\ DoneRec(w).pc \in {"idle", "job"}
  BY <1>2, DoneFits
<1>7. UNCHANGED posts /\ Done(t) /\ \/ chunk' = [chunk EXCEPT ![x] = "SENT"] /\ unsure' = unsure
                                    \/ unsure' = unsure \union {n} /\ UNCHANGED chunk
  BY <1>1, <1>3 DEF FinaliseChunk
<1>8. tick' = [tick EXCEPT ![t] = DoneRec(w)]
  BY <1>a, <1>4, <1>7, DoneIs DEF Typed
<1>9. Released(x) /\ PostedAs(MsgOf(x, p))
  BY <1>d, <1>7 DEF Released, PostedAs, MsgOf
<1>10. /\ chunk[x] = "leased" /\ (n \notin unsure => posts[n] <= 1) /\ posts[n] > 0
       /\ LeaseAfter(x, p, DoneRec(w)) => DailyInv'
  BY <1>a, <1>b, <1>c, <1>d, <1>1, <1>5, <1>6, <1>8, <1>9, LeaseGoes
<1>11. DoneRec(w).pc # "finalise"
  BY <1>6
<1>12. chunk'[x] = "SENT" \/ n \in unsure'
  BY <1>2, <1>4, <1>7
<1>13. posts'[n] = posts[n] /\ (n \notin unsure' => n \notin unsure)
  BY <1>7
<1>14. LeaseAfter(x, p, DoneRec(w))
  BY <1>d, <1>10, <1>11, <1>12, <1>13 DEF LeaseAfter
<1> QED BY <1>10, <1>14

LEMMA LeaseEndsSteps == ASSUME DailyLimits, DailyInv, NEW x \in ChunkKeys, LeaseEnds(x) PROVE DailyInv'
<1>1. /\ chunk[x] = "leased" /\ chunk' = [chunk EXCEPT ![x] = "PENDING"]
      /\ UNCHANGED <<Clock, active, tick, row, held, log, posts, unsure, shared, leaked>>
  BY DEF LeaseEnds, Past
<1>2. Holds(x) = {}
  BY TickNames DEF LeaseEnds, Holds, Sending
<1>3. (\A k : On(k)' = On(k)) /\ \A y : Holds(y)' = Holds(y)
  BY <1>1 DEF On, Holds
<1>4. Typed' /\ TicksOK' /\ chunk'[x] = "PENDING" /\ \A y \in ChunkKeys \ {x} : chunk'[y] = chunk[y]
  BY <1>1 DEF DailyInv, Typed, TicksOK, Clock
<1>5. \A p \in Profiles : <<x[1], p, x[2]>> \notin unsure => posts[<<x[1], p, x[2]>>] = 0
  BY <1>1, <1>2, NothingOut
<1>6. ChunkInv(x)'
  BY <1>1, <1>2, <1>3, <1>4, <1>5 DEF ChunkInv
<1>7. \A y \in ChunkKeys : ChunkInv(y)'
  BY <1>1, <1>3, <1>4, <1>6 DEF DailyInv, ChunkInv
<1>8. \A k \in Keys : RunInv(k)' /\ HeldInv(k)'
  BY <1>1, <1>3 DEF DailyInv, RunInv, HeldInv, Shown
<1>9. \A d \in Days : PhoneInv(d)'
  BY <1>1 DEF DailyInv, PhoneInv
<1> QED BY <1>4, <1>7, <1>8, <1>9 DEF DailyInv

-----------------------------------------------------------------------------
(* The phone reminder, the clock, the operators and the process.           *)

LEMMA PhoneReminderSteps == ASSUME DailyLimits, DailyInv, PhoneReminder PROVE DailyInv'
<1>a. PICK e : e = Day(minute)
  OBVIOUS
<1>b. PICK n : n = <<"phone", e>>
  OBVIOUS
<1>1. Typed
  BY DEF DailyInv
<1>2. e \in Days /\ n \in Messages /\ n \notin Keys
  BY <1>a, <1>b, <1>1, DayOfMinute, KeysAndMessages DEF Typed
<1>3. /\ log[e] # "sent" /\ UNCHANGED <<Clock, active, tick, row, chunk, held, shared, leaked>>
      /\ \/ Posted(n) /\ log' = [log EXCEPT ![e] = "sent"] /\ unsure' = unsure
         \/ log' = [log EXCEPT ![e] = "failed"] /\ UNCHANGED <<posts, unsure>>
         \/ log' = [log EXCEPT ![e] = "failed"] /\ Posted(n) /\ unsure' = unsure \union {n}
  BY <1>a, <1>b DEF PhoneReminder, NotLogged
<1>4. posts \in [Messages -> Nat] /\ log \in [Days -> {"none", "failed", "sent"}]
  BY <1>1 DEF Typed
<1>5. /\ posts' \in [Messages -> Nat] /\ (posts'[n] = posts[n] \/ posts'[n] = posts[n] + 1)
      /\ \A m \in Messages : posts'[m] >= posts[m] /\ (m # n => posts'[m] = posts[m])
  <2>1. CASE posts' = posts
    BY <1>4, <2>1
  <2>2. CASE posts' = [posts EXCEPT ![n] = @ + 1]
    BY <1>2, <1>4, <2>2
  <2> QED BY <1>3, <2>1, <2>2 DEF Posted
<1>6. Typed' /\ TicksOK'
  <2>1. log' \in [Days -> {"none", "failed", "sent"}]
    BY <1>2, <1>3, <1>4
  <2> QED BY <1>3, <1>5, <2>1 DEF DailyInv, Typed, TicksOK, Clock
<1>7. (\A k : On(k)' = On(k)) /\ (\A x : Holds(x)' = Holds(x)) /\ unsure \subseteq unsure' /\ unsure' \subseteq unsure \union {n}
  BY <1>3 DEF On, Holds
<1>8. \A k \in Keys : RunInv(k)' /\ HeldInv(k)'
  <2> SUFFICES ASSUME NEW k \in Keys PROVE RunInv(k)' /\ HeldInv(k)'
    OBVIOUS
  <2>1. k \in Messages /\ k # n /\ RunInv(k) /\ HeldInv(k)
    BY <1>2 DEF DailyInv, Messages
  <2>2. RunInv(k)'
    BY <1>3, <1>4, <1>5, <1>7, <2>1, RunKeeps
  <2>3. HeldInv(k)'
    BY <1>3, <1>7, <2>1, HeldKeeps
  <2> QED BY <2>2, <2>3
<1>9. \A x \in ChunkKeys : ChunkInv(x)'
  <2> SUFFICES ASSUME NEW x \in ChunkKeys PROVE ChunkInv(x)'
    OBVIOUS
  <2>1. \A u \in Holds(x) : tick[u].profile \in Profiles
    BY DEF DailyInv, Holds, TicksOK, TickOK, Sending
  <2>2. \A p \in Profiles : posts'[<<x[1], p, x[2]>>] = posts[<<x[1], p, x[2]>>]
    <3> SUFFICES ASSUME NEW p \in Profiles PROVE posts'[<<x[1], p, x[2]>>] = posts[<<x[1], p, x[2]>>]
      OBVIOUS
    <3>1. x[1] # "phone"
      BY DEF ChunkKeys, Chunked
    <3>2. <<x[1], p, x[2]>> # n
      BY <1>b, <3>1
    <3> QED BY <1>5, <3>2, KeysAndMessages
  <2>3. ChunkInv(x)
    BY DEF DailyInv
  <2> QED BY <1>1, <1>3, <1>7, <2>1, <2>2, <2>3, ChunkKeeps DEF Typed
<1>10. \A d \in Days : PhoneInv(d)'
  <2> SUFFICES ASSUME NEW d \in Days PROVE PhoneInv(d)'
    OBVIOUS
  <2>1. <<"phone", d>> \in Messages /\ PhoneInv(d)
    BY KeysAndMessages DEF DailyInv
  <2>2. CASE d = e
    <3>1. n \notin unsure => posts[n] \in {0, 1} /\ posts[n] # 1
      BY <1>2, <1>3, <1>4, <1>b, <2>1, <2>2 DEF PhoneInv
    <3>2. log'[e] \in {"sent", "failed"} /\ (log'[e] = "sent" => posts'[n] > 0)
      <4>1. posts[n] \in Nat
        BY <1>2, <1>4
      <4>2. log' = [log EXCEPT ![e] = "sent"] => posts'[n] = posts[n] + 1
        BY <1>2, <1>3, <1>4 DEF Posted
      <4> QED BY <1>2, <1>3, <1>4, <4>1, <4>2
    <3>3. n \notin unsure' => posts'[n] <= 1 /\ (posts'[n] = 1 => log'[e] = "sent")
      <4> SUFFICES ASSUME n \notin unsure' PROVE posts'[n] <= 1 /\ (posts'[n] = 1 => log'[e] = "sent")
        OBVIOUS
      <4>1. posts[n] = 0
        BY <1>7, <3>1
      <4>2. CASE log' = [log EXCEPT ![e] = "sent"]
        BY <1>2, <1>4, <1>5, <4>1, <4>2
      <4>3. CASE posts' = posts
        BY <4>1, <4>3
      <4> QED BY <1>3, <4>2, <4>3
    <3> QED BY <1>b, <2>2, <3>2, <3>3 DEF PhoneInv
  <2>3. CASE d # e
    <3>1. <<"phone", d>> # n
      BY <1>b, <2>3
    <3>2. log'[d] = log[d] /\ posts'[<<"phone", d>>] = posts[<<"phone", d>>]
      BY <1>3, <1>4, <1>5, <2>1, <2>3, <3>1
    <3> QED BY <1>7, <2>1, <3>2 DEF PhoneInv
  <2> QED BY <2>2, <2>3
<1> QED BY <1>6, <1>8, <1>9, <1>10 DEF DailyInv

LEMMA ClockSteps ==
  ASSUME DailyLimits, DailyInv PROVE /\ Minute => DailyInv'
                                     /\ \A p \in Profiles : Activate(p) => DailyInv'
                                     /\ \A m \in 0..2 : MovePhone(m) => DailyInv'
<1>1. ASSUME Minute PROVE DailyInv'
  <2>1. minute \in Nat /\ minute' = minute + 1 /\ minute' \in 0..Horizon /\ UNCHANGED <<ticked, active, tick, row, chunk, held, log, posts, unsure, shared, leaked>>
    BY <1>1 DEF DailyInv, Typed, Minute, DailyLimits, Past
  <2>2. Typed'
    BY <2>1 DEF DailyInv, Typed
  <2>3. TicksOK'
    <3> SUFFICES ASSUME NEW t \in Ticks PROVE TickOK(tick[t], minute + 1)
      BY <2>1 DEF TicksOK
    <3>1. TickOK(tick[t], minute) /\ tick[t].day \in Days
      BY DEF DailyInv, TicksOK, Typed, TickRecs
    <3>2. tick[t].day \in Nat /\ Day(minute) \in Nat /\ Day(minute + 1) \in Nat
      BY <2>1, <3>1, DayOfMinute DEF Days, DailyInv, Typed
    <3>3. Day(minute) <= Day(minute + 1)
      BY <2>1, DayGrows
    <3>4. tick[t].day <= Day(minute) => tick[t].day <= Day(minute + 1)
      BY <3>2, <3>3
    <3> QED BY <3>1, <3>4 DEF TickOK
  <2> QED BY <2>1, <2>2, <2>3, StillStep
<1>2. ASSUME NEW p \in Profiles, Activate(p) PROVE DailyInv'
  <2>1. Typed' /\ TicksOK'
    BY <1>2 DEF Activate, DailyInv, Typed, TicksOK, Clock, Past
  <2> QED BY <1>2, <2>1, StillStep DEF Activate, Past
<1>3. ASSUME NEW m \in 0..2, MovePhone(m) PROVE DailyInv'
  <2>1. Typed' /\ TicksOK'
    BY <1>3 DEF MovePhone, DailyInv, Typed, TicksOK, Clock, Past
  <2> QED BY <1>3, <2>1, StillStep DEF MovePhone, Past
<1> QED BY <1>1, <1>2, <1>3

LEMMA TickStartSteps == ASSUME DailyLimits, DailyInv, NEW t \in Ticks, TickStart(t) PROVE DailyInv'
<1> DEFINE jobs == {job \in (Jobs \union Chunked) \intersect Enabled : Due(minute, job)}
<1>a. PICK v : v = [NoTick EXCEPT !.pc = "job", !.todo = jobs, !.day = Day(minute), !.profile = active]
  OBVIOUS
<1>1. /\ tick[t].pc = "idle" /\ ticked' = minute /\ jobs # {} /\ tick' = [tick EXCEPT ![t] = v]
      /\ UNCHANGED <<minute, active, row, chunk, held, log, posts, unsure, shared, leaked>>
  BY <1>a DEF TickStart, Past
<1>2. Typed /\ Day(minute) \in Days /\ Day(minute) \in Nat /\ active \in Profiles /\ minute \in 0..Horizon
  BY DayOfMinute DEF DailyInv, Typed
<1>3. jobs \in SUBSET AllJobs
  BY DEF AllJobs
<1> HIDE DEF jobs
<1>4. v.pc = "job" /\ v.todo = jobs /\ v.day = Day(minute) /\ v.profile = active /\ v.seen = "none" /\ v.late = "no" /\ v \in TickRecs
  BY <1>a, <1>2, <1>3 DEF NoTick, TickRecs
<1>5. TickOK(v, minute)
  BY <1>1, <1>2, <1>4 DEF TickOK, Working, Sending
<1> QED BY <1>1, <1>2, <1>4, <1>5, AsideStep

LEMMA CrashSteps == ASSUME DailyLimits, DailyInv, Crash PROVE DailyInv'
<1>1. /\ unsure' = unsure \union {Key(t) : t \in {u \in Ticks : tick[u].pc \in {"mark", "finalise"}}}
      /\ tick' = [t \in Ticks |-> NoTick] /\ held' = [c \in Conns |-> [k \in Keys |-> 0]] /\ leaked' = {}
      /\ UNCHANGED <<Clock, active, row, chunk, log, posts, shared>>
  BY DEF Crash
<1>2. \A t \in Ticks : tick[t].pc \in {"mark", "finalise"} => KeyOf(tick[t]) \in unsure'
  BY <1>1, TickNames
<1>3. \A t \in Ticks : tick'[t].pc = "idle"
  BY <1>1 DEF NoTick
<1>4. (\A k : On(k)' = {}) /\ \A x : Holds(x)' = {}
  BY <1>3 DEF On, Holds, Working, Sending
<1>5. Typed' /\ TicksOK'
  <2>1. tick' \in [Ticks -> TickRecs]
    BY <1>1, NoTickFits
  <2>2. held' \in [Conns -> [Keys -> Nat]]
    BY <1>1
  <2>3. TicksOK'
    BY <1>1, NoTickFits DEF TicksOK
  <2> QED BY <1>1, <2>1, <2>2, <2>3 DEF DailyInv, Typed, Clock
<1>6. ASSUME NEW k \in Keys PROVE RunInv(k)' /\ HeldInv(k)'
  <2>1. RunInv(k) /\ posts' = posts /\ shared' = shared /\ row' = row
    BY <1>1 DEF DailyInv
  <2>2. Shown(k)' = Shown(k)
    BY <2>1 DEF Shown
  <2>3. k \notin unsure' => k \notin unsure /\ \A t \in On(k) : tick[t].pc # "mark"
    BY <1>1, <1>2 DEF On
  <2>4. RunInv(k)'
    BY <1>4, <2>1, <2>2, <2>3 DEF RunInv
  <2>5. \A c \in Conns : held'[c][k] = 0
    BY <1>1
  <2>6. Cardinality(On(k)') = 0
    BY <1>4, FS_EmptySet
  <2>7. HeldInv(k)'
    BY <2>5, <2>6 DEF HeldInv
  <2> QED BY <2>4, <2>7
<1>7. ASSUME NEW x \in ChunkKeys PROVE ChunkInv(x)'
  <2>1. ChunkInv(x) /\ posts' = posts /\ chunk' = chunk /\ unsure \subseteq unsure'
    BY <1>1 DEF DailyInv
  <2>2. ASSUME NEW t \in Holds(x), tick[t].pc = "finalise" PROVE <<x[1], tick[t].profile, x[2]>> \in unsure'
    <3>1. t \in Ticks /\ tick[t].pc \in Sending /\ LeaseOf(tick[t]) = x
      BY DEF Holds
    <3>2. KeyOf(tick[t]) = <<x[1], tick[t].profile, x[2]>>
      BY <3>1, LeaseThere
    <3> QED BY <1>2, <2>2, <3>1, <3>2
  <2> QED BY <1>4, <2>1, <2>2 DEF ChunkInv
<1>8. \A d \in Days : PhoneInv(d)'
  BY <1>1 DEF DailyInv, PhoneInv
<1> QED BY <1>5, <1>6, <1>7, <1>8 DEF DailyInv

-----------------------------------------------------------------------------
(* The invariant holds, and says what the posts promise.                   *)

LEMMA DailyInit == ASSUME DailyLimits, Init PROVE DailyInv
<1>1. /\ minute = 0 /\ ticked = 0 /\ tick = [t \in Ticks |-> NoTick] /\ row = [k \in Keys |-> "none"]
      /\ chunk = [k \in ChunkKeys |-> "none"] /\ held = [c \in Conns |-> [k \in Keys |-> 0]]
      /\ log = [d \in Days |-> "none"] /\ posts = [m \in Messages |-> 0]
  BY DEF Init
<1>2. active \in Profiles
  BY DEF Init, DailyLimits
<1>3. Typed /\ TicksOK
  <2>1. tick \in [Ticks -> TickRecs] /\ TicksOK
    BY <1>1, NoTickFits DEF TicksOK
  <2>2. minute \in 0..Horizon /\ ticked \in 0..Horizon
    BY <1>1 DEF DailyLimits
  <2> QED BY <1>1, <1>2, <2>1, <2>2 DEF Typed
<1>4. (\A k : On(k) = {}) /\ \A x : Holds(x) = {}
  BY <1>1 DEF On, Holds, NoTick, Working, Sending
<1>5. \A k \in Keys : RunInv(k) /\ HeldInv(k)
  <2> SUFFICES ASSUME NEW k \in Keys PROVE RunInv(k) /\ HeldInv(k)
    OBVIOUS
  <2>1. posts[k] = 0 /\ row[k] = "none" /\ \A c \in Conns : held[c][k] = 0
    BY <1>1 DEF Messages
  <2>2. Cardinality(On(k)) = 0
    BY <1>4, FS_EmptySet
  <2> QED BY <1>4, <2>1, <2>2 DEF RunInv, HeldInv
<1>6. \A x \in ChunkKeys : ChunkInv(x)
  <2> SUFFICES ASSUME NEW x \in ChunkKeys PROVE ChunkInv(x)
    OBVIOUS
  <2>1. \A p \in Profiles : posts[<<x[1], p, x[2]>>] = 0
    BY <1>1, KeysAndMessages
  <2> QED BY <1>1, <1>4, <2>1 DEF ChunkInv
<1>7. \A d \in Days : PhoneInv(d)
  <2> SUFFICES ASSUME NEW d \in Days PROVE PhoneInv(d)
    OBVIOUS
  <2>1. posts[<<"phone", d>>] = 0
    BY <1>1, KeysAndMessages
  <2> QED BY <1>1, <2>1 DEF PhoneInv
<1> QED BY <1>3, <1>5, <1>6, <1>7 DEF DailyInv

LEMMA DailyStep == DailyLimits /\ DailyInv /\ [Next]_vars => DailyInv'
<1> SUFFICES ASSUME DailyLimits, DailyInv, [Next]_vars PROVE DailyInv'
  OBVIOUS
<1>1. CASE UNCHANGED vars
  <2>1. Typed' /\ TicksOK'
    BY <1>1 DEF vars, DailyInv, Typed, TicksOK, Clock
  <2> QED BY <1>1, <2>1, StillStep DEF vars, Past
<1>2. CASE Minute \/ PhoneReminder \/ Crash \/ (\E p \in Profiles : Activate(p)) \/ \E m \in 0..2 : MovePhone(m)
  BY <1>2, ClockSteps, PhoneReminderSteps, CrashSteps
<1>3. ASSUME NEW t \in Ticks,
             \/ TickStart(t) \/ Read(t) \/ Write(t) \/ Post(t) \/ Mark(t) \/ MarkFailed(t)
             \/ ClaimChunk(t) \/ SendChunk(t) \/ FinaliseChunk(t)
             \/ \E c \in Conns : Lock(t, c) \/ Unlock(t, c)
      PROVE  DailyInv'
  BY <1>3, TickStartSteps, ReadSteps, WriteSteps, PostSteps, MarkSteps, MarkFailedSteps, ClaimChunkSteps,
     SendChunkSteps, FinaliseChunkSteps, LockSteps, UnlockSteps
<1>4. CASE \E x \in ChunkKeys : LeaseEnds(x)
  BY <1>4, LeaseEndsSteps
<1> QED BY <1>1, <1>2, <1>3, <1>4 DEF Next

LEMMA DailySound == DailyInv => DailyPostsSound
<1> SUFFICES ASSUME DailyInv PROVE DailyPostsSound
  OBVIOUS
<1>1. RepeatHasCause
  <2> SUFFICES ASSUME NEW m \in Messages, posts[m] > 1, m \notin unsure \union shared PROVE FALSE
    BY DEF RepeatHasCause
  <2>1. posts[m] \in Nat
    BY DEF DailyInv, Typed
  <2>2. CASE m \in Keys
    BY <2>1, <2>2 DEF DailyInv, RunInv
  <2>3. ASSUME NEW j \in Chunked, NEW p \in Profiles, NEW d \in Days, m = <<j, p, d>> PROVE FALSE
    <3>1. PICK x : x = <<j, d>>
      OBVIOUS
    <3>2. x \in ChunkKeys /\ m = <<x[1], p, x[2]>>
      BY <2>3, <3>1 DEF ChunkKeys
    <3> QED BY <2>1, <3>2 DEF DailyInv, ChunkInv
  <2>4. ASSUME NEW d \in Days, m = <<"phone", d>> PROVE FALSE
    BY <2>1, <2>4 DEF DailyInv, PhoneInv
  <2> QED BY <2>2, <2>3, <2>4 DEF Messages
<1>2. SentIsPosted
  BY DEF SentIsPosted, DailyInv, RunInv, ChunkInv, PhoneInv, Shown
<1>3. LockHasHolder
  <2> SUFFICES ASSUME NEW c \in Conns, NEW k \in Keys, held[c][k] > 0, k \notin leaked
               PROVE  \E t \in Ticks : tick[t].pc \in {"read", "write", "post", "mark", "fail", "unlock"} /\ Key(t) = k
    BY DEF LockHasHolder
  <2>1. held[c][k] <= Cardinality(On(k)) /\ held[c][k] \in Nat
    BY DEF DailyInv, HeldInv, Typed
  <2>2. On(k) # {}
    BY <2>1, FS_EmptySet
  <2> QED BY <2>2, TickNames DEF On, Working
<1> QED BY <1>1, <1>2, <1>3 DEF DailyPostsSound

\* A message goes out a second time only where its success was not recorded or two ticks
\* shared a session, SENT is posted, and a lock has a holder.
THEOREM DailyPostsAreSound == ASSUME DailyLimits PROVE Spec => []DailyPostsSound
<1>1. Init => DailyInv
  BY DailyInit
<1>2. DailyInv /\ [Next]_vars => DailyInv'
  BY DailyStep
<1>3. DailyInv => DailyPostsSound
  BY DailySound
<1> QED BY <1>1, <1>2, <1>3, PTL DEF Spec

=============================================================================

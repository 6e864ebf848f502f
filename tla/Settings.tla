-------------------------------- MODULE Settings -------------------------------
(***************************************************************************)
(* SettingsService: two settings of the registry, their rows in the         *)
(* database and the cache of the process.  Readers fill the cache, PATCH    *)
(* requests write key after key, the enable transaction writes the flag     *)
(* under FOR UPDATE, and an ingest transaction reads it under FOR SHARE.    *)
(* Before them the registry: what every setting is, who sees and edits it.  *)
(***************************************************************************)
EXTENDS Integers, Sequences, FiniteSets, SequencesExt

CONSTANTS Requests,
          Patches,       \* the PATCH bodies: sequences of pairs of key and value
          MaxRequests,   \* bound of the requests that begin
          MaxFaults      \* bound of failed database calls

VARIABLES row,      \* keys with a Setting row
          value,    \* SettingValue of each key, or "none"
          cache,    \* cached value of each key, or "none"
          late,     \* history: keys whose cached value was read before a later write
          req,      \* the requests at work
          raised,   \* history: how the flag went on
          skipped,  \* history: keys that a successful PATCH left out
          begun, faults

vars == <<row, value, cache, late, req, raised, skipped, begun, faults>>

Keys == {"flag", "number"}
Valid == [flag |-> {"on", "off"}, number |-> {"low", "high"}]
Default == [flag |-> "on", number |-> "low"]
Idle == [pc |-> "idle"]

\* A database that an earlier version has used: the number is out of today's
\* bounds, and the flag was never stored.
Init ==
    /\ row = {"number"} /\ value = [flag |-> "none", number |-> "bad"]
    /\ cache = [k \in Keys |-> "none"] /\ late = {}
    /\ req = [r \in Requests |-> Idle]
    /\ raised = "never" /\ skipped = {}
    /\ begun = 0 /\ faults = 0

\* Mutant: only a missing value is replaced.
ResolvedRaw(k) == IF value[k] = "none" THEN Default[k] ELSE value[k]

\* resolveSafe: what is missing or malformed is the default of the registry.
Resolved(k) == IF value[k] \in Valid[k] THEN value[k] ELSE Default[k]

-----------------------------------------------------------------------------
(* The registry.  A value as JSON has it: its kind, its text, what Number()   *)
(* makes of it ({} for NaN), and its items.                                 *)

Json(is, text, num, list) == [is |-> is, text |-> text, num |-> num, list |-> list]
Truth(b) == Json("bool", IF b THEN "true" ELSE "false", {IF b THEN 1 ELSE 0}, <<>>)
Text(s) == Json("text", s, IF s = "" THEN {0} ELSE {}, <<>>)
Num(n) == Json("number", "", {n}, <<>>)
List(l) == Json("list", "", IF Len(l) = 0 THEN {0} ELSE IF Len(l) = 1 THEN {l[1]} ELSE {}, l)
Refused == Json("refused", "", {}, <<>>)

Flag(on) == [type |-> "boolean", default |-> Truth(on), lo |-> 0, hi |-> 0, options |-> {}]
Amount(lo, d, hi) == [type |-> "number", default |-> Num(d), lo |-> lo, hi |-> hi, options |-> {}]
Free(s) == [type |-> "string", default |-> Text(s), lo |-> 0, hi |-> 0, options |-> {}]
Choice(s, others) == [type |-> "select", default |-> Text(s), lo |-> 0, hi |-> 0, options |-> {s} \union others]
Weekdays(l) == [type |-> "weekdays", default |-> List(l), lo |-> 0, hi |-> 0, options |-> {}]

View == "settings:view"
Owner == "settings:update"
Permissions == {View, Owner, "settings_scanner:update", "settings_invoicing:update"}
\* The settings of a form, with who sees and who edits them.
By(see, edit, settings) == [k \in DOMAIN settings |-> [see |-> see, edit |-> edit, is |-> settings[k]]]

Currency == Choice("USD", {"EUR", "UAH", "GBP"})
General == By(View, Owner,
    [companyName |-> Free("Sargas"), timezone |-> Choice("Europe/Kyiv", {"Europe/London", "UTC"}),
     dateFormat |-> Choice("DD.MM.YYYY", {"MM/DD/YYYY", "YYYY-MM-DD"}),
     weekStartsOn |-> Choice("monday", {"sunday"}), defaultCurrency |-> Currency])
Scanner ==
    By(View, Owner, [ingestionEnabled |-> Flag(TRUE), analysisEnabled |-> Flag(TRUE)]) @@
    By(View, "settings_scanner:update",
       [discordAlertsEnabled |-> Flag(TRUE), discordScoreThreshold |-> Amount(0, 50, 100)])
Invoicing == By(View, "settings_invoicing:update",
    [legalCompanyName |-> Free(""), registrationNumber |-> Free(""), vatNumber |-> Free(""),
     legalAddress |-> Free(""), currency |-> Currency, paymentTermsDays |-> Amount(0, 14, 365),
     numberPrefix |-> Free("INV-"), defaultNote |-> Free(""), paymentInstructions |-> Free("")])
PeopleTimeOff == By(View, Owner,
    [vacationDaysPerYear |-> Amount(0, 21, 60), sickDaysPerYear |-> Amount(0, 5, 60),
     workingWeekdays |-> Weekdays(<<1, 2, 3, 4, 5>>), allowNegativeBalance |-> Flag(TRUE)])
\* Money and percentages in tenths.
PayrollRules == By(Owner, Owner,
    [fixedTaxComponent |-> Amount(0, 425, 100000), taxPercentage |-> Amount(0, 60, 1000),
     payoneerFeePercentage |-> Amount(0, 30, 1000), lockPaidRuns |-> Flag(TRUE),
     allowOwnerReopen |-> Flag(TRUE)])
Vault == By(Owner, Owner,
    [vaultSessionMinutes |-> Amount(5, 60, 240), revealAutoHideSeconds |-> Amount(5, 60, 600),
     maxAttachmentMegabytes |-> Amount(1, 10, 100)])
PhoneAlerts == By(View, Owner,
    [discordRemindersEnabled |-> Flag(FALSE), reminderHour |-> Amount(0, 9, 23),
     reminderMinute |-> Amount(0, 0, 59), includeDue |-> Flag(TRUE), includeOverdue |-> Flag(TRUE)])
PhoneDefaults == By(View, Owner, [topUpAmount |-> Amount(0, 10, 1000)])
Portfolio == By(View, Owner,
    [storageBucket |-> Choice("CLIENT_REQUESTS", {"INVOICES"}), separateFoldersByKind |-> Flag(TRUE),
     maxCoverMb |-> Amount(1, 5, 100), maxGalleryItems |-> Amount(1, 10, 50),
     maxGalleryImageMb |-> Amount(1, 8, 100), maxFiles |-> Amount(1, 10, 50),
     maxFileMb |-> Amount(1, 25, 200), maxFilesTotalMb |-> Amount(1, 50, 500),
     defaultStatus |-> Choice("DRAFT", {"READY"}), autoSlug |-> Flag(TRUE), pdfExportEnabled |-> Flag(TRUE)])

Registry ==
    [general |-> General, scanner_alerts |-> Scanner, client_invoicing |-> Invoicing,
     people_time_off |-> PeopleTimeOff, payroll_compensation |-> PayrollRules,
     credentials_security |-> Vault, phone_alerts |-> PhoneAlerts, phone_defaults |-> PhoneDefaults,
     portfolio |-> Portfolio]
Sections == DOMAIN Registry \union {"integrations"}
OwnerSections == {"payroll_compensation", "credentials_security"}
SectionView(s) == IF s \in OwnerSections THEN Owner ELSE View
EntriesOf(s) == IF s \in DOMAIN Registry THEN Registry[s] ELSE <<>>

CanSee(perms, s) == SectionView(s) \in perms
\* No entry is read-only or sensitive today.
CanEdit(perms, e) == e.edit \in perms
\* The settings that listSectionsFor shows, and those that a PATCH of a section takes.
Listed(perms) ==
    UNION {{s} \X {k \in DOMAIN EntriesOf(s) : EntriesOf(s)[k].see \in perms} :
              s \in {z \in Sections : CanSee(perms, z)}}
Patchable(perms, s) == {k \in DOMAIN EntriesOf(s) : CanSee(perms, s) /\ CanEdit(perms, EntriesOf(s)[k])}

\* coerceAndValidate: text counts as the truth or the number that it spells.
Coerced(e, raw) ==
    CASE e.type = "boolean" /\ (raw.is = "bool" \/ raw.text \in {"true", "false"}) -> Truth(raw.text = "true")
      [] e.type = "number" /\ \E n \in raw.num : e.lo <= n /\ n <= e.hi -> Num(CHOOSE n \in raw.num : TRUE)
      [] e.type = "string" /\ raw.is = "text" -> raw
      [] e.type = "select" /\ raw.is = "text" /\ raw.text \in e.options -> raw
      [] e.type = "weekdays" /\ raw.is = "list" /\ ToSet(raw.list) \subseteq 0..6 ->
            List(SetToSortSeq(ToSet(raw.list), <))
      [] OTHER -> Refused
\* resolveSafe, of the registry's default.
Safe(e, stored) == IF Coerced(e, stored) = Refused THEN e.default ELSE Coerced(e, stored)

-----------------------------------------------------------------------------
Goto(r, rec) == req' = [req EXCEPT ![r] = rec]
Done(r) == Goto(r, Idle)
Begin(r, rec) == req[r].pc = "idle" /\ begun < MaxRequests /\ begun' = begun + 1 /\ Goto(r, rec)
Fault == faults < MaxFaults /\ faults' = faults + 1

\* Row locks on the Setting row of the flag.
Exclusive(r) == \E q \in Requests \ {r} : req[q].pc = "apply" /\ req[q].locked
Shared(r) == \E q \in Requests \ {r} : req[q].pc = "hold" /\ req[q].locked

-----------------------------------------------------------------------------
(* getValueForKey.                                                          *)

ReadMiss(r, k) ==
    /\ cache[k] = "none"
    /\ Begin(r, [pc |-> "fill", key |-> k, value |-> Resolved(k), late |-> FALSE])
    /\ UNCHANGED <<row, value, cache, late, raised, skipped, faults>>
Fill(r) ==
    /\ req[r].pc = "fill" /\ Done(r)
    /\ cache' = [cache EXCEPT ![req[r].key] = req[r].value]
    /\ late' = IF req[r].late THEN late \union {req[r].key} ELSE late \ {req[r].key}
    /\ UNCHANGED <<row, value, raised, skipped, begun, faults>>

Forget(k) == cache' = [cache EXCEPT ![k] = "none"] /\ late' = late \ {k}
CacheExpires(k) ==
    /\ cache[k] # "none" /\ Forget(k)
    /\ UNCHANGED <<row, value, req, raised, skipped, begun, faults>>

-----------------------------------------------------------------------------
(* applySectionUpdate: each key is checked, read, ensured and written before  *)
(* the next one; a rejection leaves what was written.                       *)

PatchBegins(r) ==
    /\ \E p \in Patches : Begin(r, [pc |-> "check", todo |-> p])
    /\ UNCHANGED <<row, value, cache, late, raised, skipped, faults>>

\* Mutant: a PATCH may turn the flag on.
MayPatchAny(k, before, new) == new \in Valid[k]
MayPatch(k, before, new) == new \in Valid[k] /\ ~(k = "flag" /\ before = "off" /\ new = "on")

PatchChecks(r) ==
    /\ req[r].pc = "check"
    /\ LET k == req[r].todo[1][1]
           before == IF value[k] = "none" THEN Default[k] ELSE value[k]
       IN Goto(r, IF ~MayPatch(k, before, req[r].todo[1][2]) THEN Idle
                  ELSE [pc |-> IF k \in row THEN "write" ELSE "create",
                        todo |-> req[r].todo, before |-> before])
    /\ UNCHANGED <<row, value, cache, late, raised, skipped, begun, faults>>

After(r) == IF Len(req[r].todo) = 1 THEN Idle ELSE [pc |-> "check", todo |-> Tail(req[r].todo)]

\* ensureDbRow: of two that create the row one fails, which is only logged; a key
\* whose row is still not there is left out.
\* Mutant: so is the key of the one that lost.
CreatedFirst(r, k) == k \notin row
Created(r, k) == TRUE
PatchCreates(r) ==
    /\ req[r].pc = "create"
    /\ LET k == req[r].todo[1][1]
       IN \/ /\ Created(r, k) /\ row' = row \union {k}
             /\ Goto(r, [req[r] EXCEPT !.pc = "write"]) /\ UNCHANGED <<skipped, faults>>
          \/ /\ ~Created(r, k) /\ skipped' = skipped \union {k}
             /\ Goto(r, After(r)) /\ UNCHANGED <<row, faults>>
          \/ /\ k \notin row /\ Fault /\ skipped' = skipped \union {k}
             /\ Goto(r, After(r)) /\ UNCHANGED row
    /\ UNCHANGED <<value, cache, late, raised, begun>>

\* What a write does to the requests that have read the key before.
Overtake(q, k) ==
    IF q.pc = "fill" /\ q.key = k THEN [q EXCEPT !.late = TRUE]
    ELSE IF q.pc = "hold" /\ k = "flag" THEN [q EXCEPT !.patched = TRUE]
    ELSE q
\* The insert of a value takes a lock on its Setting row, an update does not.
PatchWrites(r) ==
    /\ req[r].pc = "write"
    /\ LET k == req[r].todo[1][1]
           new == req[r].todo[1][2]
       IN /\ k = "flag" /\ value[k] = "none" => ~Exclusive(r)
          /\ value' = [value EXCEPT ![k] = new]
          /\ raised' = IF k = "flag" /\ new = "on" /\ value[k] = "off"
                       THEN IF req[r].before = "off" THEN "bypassed" ELSE "overtaken"
                       ELSE raised
          /\ req' = [q \in Requests |-> IF q = r THEN [req[r] EXCEPT !.pc = "drop"]
                                        ELSE Overtake(req[q], k)]
    /\ UNCHANGED <<row, cache, late, skipped, begun, faults>>
PatchDrops(r) ==
    /\ req[r].pc = "drop"
    /\ Forget(req[r].todo[1][1]) /\ Goto(r, After(r))
    /\ UNCHANGED <<row, value, raised, skipped, begun, faults>>

-----------------------------------------------------------------------------
(* The enable transaction, and the read of an ingest transaction.            *)

EnableLocks(r) ==
    /\ ~Exclusive(r) /\ ~Shared(r)
    /\ Begin(r, [pc |-> "apply", locked |-> "flag" \in row])
    /\ UNCHANGED <<row, value, cache, late, raised, skipped, faults>>

\* applyBooleanInsideTx creates a missing row outside the transaction, locks it,
\* and writes; the values are there for others from the commit on.
\* Mutant: it does not wait for those that hold the row.
WaitsNot(r) == FALSE
Waits(r) == Exclusive(r) \/ Shared(r)
EnableCommits(r) ==
    /\ req[r].pc = "apply" /\ ~Waits(r)
    /\ row' = row \union {"flag"} /\ value' = [value EXCEPT !["flag"] = "on"]
    /\ raised' = IF value["flag"] = "off" THEN "enabled" ELSE raised
    /\ req' = [q \in Requests |-> IF q = r THEN [pc |-> "invalidate"]
                                  ELSE IF req[q].pc = "fill" THEN Overtake(req[q], "flag")
                                  ELSE req[q]]
    /\ UNCHANGED <<cache, late, skipped, begun, faults>>
EnableFails(r) ==
    /\ req[r].pc = "apply" /\ Fault /\ Done(r)
    /\ UNCHANGED <<row, value, cache, late, raised, skipped, begun>>
\* Mutant: the caller forgets to call it.
InvalidateNot(k) == UNCHANGED <<cache, late>>
Invalidate(k) == Forget(k)
EnableInvalidates(r) ==
    /\ req[r].pc = "invalidate" /\ Invalidate("flag") /\ Done(r)
    /\ UNCHANGED <<row, value, raised, skipped, begun, faults>>

\* getBooleanInsideTx; with no row there is nothing to lock.
IngestReads(r) ==
    /\ ~Exclusive(r)
    /\ Begin(r, [pc |-> "hold", locked |-> "flag" \in row, saw |-> Resolved("flag"),
                 patched |-> FALSE])
    /\ UNCHANGED <<row, value, cache, late, raised, skipped, faults>>
IngestCommits(r) ==
    /\ req[r].pc = "hold" /\ Done(r)
    /\ UNCHANGED <<row, value, cache, late, raised, skipped, begun, faults>>

RequestStep(r) ==
    \/ \E k \in Keys : ReadMiss(r, k)
    \/ Fill(r)
    \/ PatchBegins(r) \/ PatchChecks(r) \/ PatchCreates(r) \/ PatchWrites(r) \/ PatchDrops(r)
    \/ EnableLocks(r) \/ EnableCommits(r) \/ EnableFails(r) \/ EnableInvalidates(r)
    \/ IngestReads(r) \/ IngestCommits(r)

Next ==
    \/ \E r \in Requests : RequestStep(r)
    \/ \E k \in Keys : CacheExpires(k)

Spec == Init /\ [][Next]_vars

-----------------------------------------------------------------------------
(* Properties.                                                             *)

\* Every variable keeps its type.
TypeOK ==
    /\ row \subseteq Keys /\ late \subseteq Keys /\ skipped \subseteq Keys
    /\ \A k \in Keys :
          /\ value[k] \in Valid[k] \union {"none", "bad"} /\ cache[k] \in Valid[k] \union {"none"}
          /\ value[k] # "none" => k \in row
    /\ raised \in {"never", "enabled", "overtaken", "bypassed"}
    /\ \A r \in Requests : req[r].pc \in {"idle", "fill", "check", "create", "write", "drop",
                                          "apply", "invalidate", "hold"}

\* What the cache answers is what the database says, unless the writer is about
\* to drop the entry, or a reader filled it that had read before the write: the
\* one way in which a dropped value comes back, for as long as an entry lives.
CacheIsCurrent ==
    \A k \in Keys :
        cache[k] \notin {"none", Resolved(k)} =>
            \/ k \in late
            \/ \E r \in Requests :
                  \/ req[r].pc = "drop" /\ req[r].todo[1][1] = k
                  \/ req[r].pc = "invalidate" /\ k = "flag"

\* A PATCH turns the flag on only if it saw it on: the pause of another request
\* came in between, and is undone without a decision about the backlog.
NotBypassed == raised # "bypassed"

\* The flag that an ingest reads under FOR SHARE is the flag until it commits,
\* unless a PATCH, which takes no lock on the row, changed it; or there was no
\* row to lock.
LockedReadHolds ==
    \A r \in Requests :
        req[r].pc = "hold" /\ req[r].locked /\ req[r].saw # Resolved("flag") => req[r].patched

\* A PATCH that succeeds has written its keys, also those whose row another
\* request was creating; only a failure of the database hides one.
SuccessIsWritten == skipped # {} => faults > 0

\* Values that a client, an older version or a hand may leave in a row.
Stored ==
    {Truth(TRUE), Text("true"), Text(""), Text("EUR"), Json("text", "7", {7}, <<>>), Num(0), Num(7), Num(1000000), Num(-1), Refused,
     List(<<>>), List(<<5, 1, 5>>), List(<<7>>)}

\* Whatever a row holds, the program works with a value that the registry would
\* accept as it is: the defaults too, and what was normalised stays as it is.
ValuesSettle ==
    \A s \in DOMAIN Registry : \A k \in DOMAIN Registry[s] : \A raw \in Stored :
        LET e == Registry[s][k].is IN Coerced(e, Safe(e, raw)) = Safe(e, raw)

\* Whoever may change a setting is also shown it, and the sections of the owner
\* show nothing to anybody else.
EditorsSee ==
    \A perms \in SUBSET Permissions :
        /\ \A s \in Sections : \A k \in Patchable(perms, s) : <<s, k>> \in Listed(perms)
        /\ Owner \notin perms => \A x \in Listed(perms) : x[1] \notin OwnerSections

\* The registry does not change: its two properties are checked at the start.
RegistrySound == begun = 0 => ValuesSettle /\ EditorsSee

\* What the settings answer, what a PATCH may turn on, what a locked read may rely on and what
\* a success means, stated above (SettingsService).
SettingsSound ==
    /\ CacheIsCurrent
    /\ NotBypassed
    /\ LockedReadHolds
    /\ SuccessIsWritten
=============================================================================

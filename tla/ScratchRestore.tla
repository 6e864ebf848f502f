--------------------------- MODULE ScratchRestore ---------------------------
(***************************************************************************)
(* scripts/restore.ts: a verified backup is downloaded and compared with   *)
(* its row and its manifest, and, when a target is named, restored into a  *)
(* scratch database on this host.  Meanwhile retention may delete the      *)
(* files, and any step may fail; pg_restore is a process of its own.       *)
(***************************************************************************)
EXTENDS Integers, FiniteSets

CONSTANTS MaxStarts,     \* bound of the starts of the script
          MaxChanges,    \* bound of the changes of the bucket
          MaxFaults,     \* bound of the failures
          Targets        \* databases that --restore-to may name

VARIABLES row,       \* the BackupRun row: status, and the checksum it was verified with
          bucket,    \* content of the artifact and of the manifest in B2
          env,       \* what the environment sets
          held,      \* content of each database: what was restored into it
          job,       \* the script at work
          scratch,   \* files in the temporary directory of each start
          audit,     \* audit entries: start, result and database
          code,      \* exit code of each start, -1 while there is none
          key,       \* the B2 key the script has used
          begun, changes, faults,
          touched,   \* history: databases that a start has restored into
          unheard    \* history: starts that were killed or whose entry failed

vars == <<row, bucket, env, held, job, scratch, audit, code, key, begun, changes, faults, touched, unheard>>

Starts == 1..MaxStarts
Idle == [pc |-> "idle"]
None == "none"
NoTarget == [host |-> None, name |-> None, marked |-> FALSE]
Missing == "missing"

\* A manifest names the artifact and its checksum; a content is its own checksum.
Manifests == [artifact : {"own", "other"}, sum : {"good", "bad"}]
Own == [artifact |-> "own", sum |-> "good"]

Init ==
    /\ row \in [st : {"VERIFIED", "FAILED"}, sum : {"good", None}]
    /\ (row.st = "VERIFIED" => row.sum = "good")
    /\ bucket = [artifact |-> "good", manifest |-> Own]
    /\ env \in [app : {"local", "prod"}, backupKey : BOOLEAN, runtimeKey : {TRUE}]
    /\ \E tables \in {{}, {"other tables"}} : held = [t \in Targets |-> tables]
    /\ job = Idle /\ scratch = {} /\ audit = {} /\ code = [n \in Starts |-> -1] /\ key = None
    /\ begun = 0 /\ changes = 0 /\ faults = 0 /\ touched = {} /\ unheard = {}

Fault == faults < MaxFaults /\ faults' = faults + 1
store == <<row, bucket, env, changes>>
past == <<code, key, begun, touched, unheard>>

\* Retention deletes the files, or they are damaged or overwritten.
BucketChanges ==
    /\ changes < MaxChanges /\ changes' = changes + 1
    /\ \/ \E c \in {Missing, "bad"} : bucket' = [bucket EXCEPT !.artifact = c]
       \/ \E m \in Manifests \union {[artifact |-> Missing, sum |-> Missing]} : bucket' = [bucket EXCEPT !.manifest = m]
    /\ UNCHANGED <<row, env, held, job, scratch, audit, faults>> /\ UNCHANGED past

-----------------------------------------------------------------------------
(* evaluateScratchTarget.                                                  *)

\* parseDatabaseUrl: an IPv6 host keeps its brackets.
Hostname(host) == IF host = "::1" THEN "[::1]" ELSE host
Local(host) == Hostname(host) \in {"localhost", "127.0.0.1", "::1"}
\* Mutant: a name is not looked at.
AllowedLocal(t) == Local(t.host)
Allowed(t) == Local(t.host) /\ t.marked    \* "_restore_" or "_scratch" in the name

-----------------------------------------------------------------------------
(* main.                                                                   *)

\* What is refused before the files are fetched ends the script without an entry.
Start(to, confirm) ==
    /\ job.pc = "idle" /\ begun < MaxStarts /\ begun' = begun + 1
    /\ IF row.st = "VERIFIED" /\ row.sum # None
       THEN job' = [pc |-> "artifact", to |-> to, confirm |-> confirm, file |-> None, manifest |-> Own] /\ UNCHANGED code
       ELSE code' = [code EXCEPT ![begun + 1] = 1] /\ UNCHANGED job
    /\ UNCHANGED <<store, held, scratch, audit, key, faults, touched, unheard>>

To(pc) == job' = [job EXCEPT !.pc = pc]

\* resolveBackupB2Credentials.  Mutant: the runtime key will do anywhere.
KeyAnywhere(e) == IF e.backupKey THEN "backup" ELSE IF e.runtimeKey THEN "runtime" ELSE None
KeyOf(e) ==
    IF e.backupKey THEN "backup" ELSE IF e.app = "local" /\ e.runtimeKey THEN "runtime" ELSE None

FetchArtifact ==
    /\ job.pc = "artifact" /\ key' = KeyOf(env)
    /\ \/ /\ KeyOf(env) # None /\ bucket.artifact # Missing
          /\ job' = [job EXCEPT !.pc = "manifest", !.file = bucket.artifact]
          /\ scratch' = scratch \union {[n |-> begun, file |-> "artifact"]} /\ UNCHANGED faults
       \/ (KeyOf(env) = None \/ bucket.artifact = Missing) /\ To("failed") /\ UNCHANGED <<scratch, faults>>
       \/ Fault /\ To("failed") /\ UNCHANGED scratch
    /\ UNCHANGED <<store, held, audit, code, begun, touched, unheard>>

FetchManifest ==
    /\ job.pc = "manifest"
    /\ \/ /\ bucket.manifest.sum # Missing
          /\ job' = [job EXCEPT !.pc = "check", !.manifest = bucket.manifest]
          /\ scratch' = scratch \union {[n |-> begun, file |-> "manifest"]} /\ UNCHANGED faults
       \/ bucket.manifest.sum = Missing /\ To("failed") /\ UNCHANGED <<scratch, faults>>
       \/ Fault /\ To("failed") /\ UNCHANGED scratch
    /\ UNCHANGED <<store, held, audit>> /\ UNCHANGED past

\* The row, the manifest and the file agree.  Mutant: the file is not hashed.
MatchesOnPaper(j) == j.manifest.artifact = "own" /\ j.manifest.sum = row.sum
Matches(j) == j.manifest.artifact = "own" /\ j.manifest.sum = row.sum /\ j.file = row.sum

\* Without a target that is all; with one the guard and the confirmation follow.
Check ==
    /\ job.pc = "check"
    /\ \/ ~Matches(job) /\ To("failed") /\ UNCHANGED <<code, faults>>
       \/ Fault /\ To("failed") /\ UNCHANGED code          \* pg_restore --list
       \/ /\ Matches(job) /\ job.to = NoTarget
          /\ To("clean") /\ code' = [code EXCEPT ![begun] = 0] /\ UNCHANGED faults
       \/ /\ Matches(job) /\ job.to # NoTarget
          /\ To(IF Allowed(job.to) /\ job.confirm = job.to.name THEN "restore" ELSE "failed")
          /\ UNCHANGED <<code, faults>>
    /\ UNCHANGED <<store, held, scratch, audit, key, begun, touched, unheard>>

\* pg_restore in a single transaction: all of the dump or nothing, and nothing when
\* its tables are there already.
Restored(t, c) ==
    /\ held[t] \subseteq {"other tables"}
    /\ held' = [held EXCEPT ![t] = @ \union {c}]
    /\ touched' = touched \union {[n |-> begun, db |-> t, held |-> c]}
Restore ==
    /\ job.pc = "restore"
    /\ \/ Restored(job.to, job.file) /\ To("smoke") /\ UNCHANGED faults
       \/ held[job.to] # {} /\ To("failed") /\ UNCHANGED <<held, touched, faults>>
       \/ Fault /\ To("failed") /\ UNCHANGED <<held, touched>>
    /\ UNCHANGED <<store, scratch, audit, code, key, begun, unheard>>

Smoke ==
    /\ job.pc = "smoke"
    /\ \/ To("audit") /\ UNCHANGED faults
       \/ Fault /\ To("failed")
    /\ UNCHANGED <<store, held, scratch, audit>> /\ UNCHANGED past

Entry(result, db) == audit' = audit \union {[n |-> begun, result |-> result, db |-> db]}

\* The answer to a write may be lost.
AuditSuccess ==
    /\ job.pc = "audit"
    /\ \/ Entry("SUCCESS", job.to) /\ To("clean") /\ code' = [code EXCEPT ![begun] = 0] /\ UNCHANGED faults
       \/ Fault /\ Entry("SUCCESS", job.to) /\ To("failed") /\ UNCHANGED code
       \/ Fault /\ To("failed") /\ UNCHANGED <<audit, code>>
    /\ UNCHANGED <<store, held, scratch, key, begun, touched, unheard>>

\* catch: the entry is made if it can be, and the script ends with 1.
\* Mutant: a failure after the restore is not entered.
CaughtQuiet == IF \E t \in touched : t.n = begun THEN UNCHANGED audit ELSE Entry("FAILED", NoTarget)
Caught == Entry("FAILED", NoTarget)
AuditFailure ==
    /\ job.pc = "failed" /\ To("clean") /\ code' = [code EXCEPT ![begun] = 1]
    /\ \/ Caught /\ UNCHANGED <<unheard, faults>>
       \/ Fault /\ unheard' = unheard \union {begun} /\ UNCHANGED audit
    /\ UNCHANGED <<store, held, scratch, key, begun, touched>>

\* finally.
Clean ==
    /\ job.pc = "clean" /\ job' = Idle /\ scratch' = {f \in scratch : f.n # begun}
    /\ UNCHANGED <<store, held, audit, faults>> /\ UNCHANGED past

\* The script is killed; pg_restore, if it runs, ends its work.
Kill ==
    /\ job.pc # "idle" /\ Fault /\ job' = Idle /\ unheard' = unheard \union {begun}
    /\ \/ job.pc = "restore" /\ Restored(job.to, job.file)
       \/ UNCHANGED <<held, touched>>
    /\ UNCHANGED <<store, scratch, audit, code, key, begun>>

Next ==
    \/ \E to \in Targets : \E confirm \in {to.name, None} : Start(to, confirm)
    \/ Start(NoTarget, None)
    \/ FetchArtifact \/ FetchManifest \/ Check \/ Restore \/ Smoke
    \/ AuditSuccess \/ AuditFailure \/ Clean \/ Kill \/ BucketChanges

Spec == Init /\ [][Next]_vars

-----------------------------------------------------------------------------
(* Properties.                                                             *)

\* Every variable keeps its type.
TypeOK ==
    /\ scratch \subseteq [n : Starts, file : {"artifact", "manifest"}]
    /\ audit \subseteq [n : Starts, result : {"SUCCESS", "FAILED"}, db : Targets \union {NoTarget}]
    /\ code \in [Starts -> {-1, 0, 1}] /\ unheard \subseteq Starts
    /\ key \in {"backup", "runtime", None} /\ begun \in 0..MaxStarts

\* Only a database of this host, with scratch in its name, ever changes.
OnlyScratch == \A t \in touched : t.db.host # "remote" /\ t.db.marked

\* What is restored is the very dump that was verified, though the files in the
\* bucket may be changed at any time.
RestoredIsVerified == \A t \in touched : row.st = "VERIFIED" /\ t.held = row.sum

\* A start that ends well has restored and said so, or had nothing to restore; an entry
\* of success is true of its database.
SuccessIsTrue ==
    /\ \A t \in touched : code[t.n] = 0 => \E a \in audit : a.n = t.n /\ a.result = "SUCCESS"
    /\ \A a \in audit : a.result = "SUCCESS" => \E t \in touched : t.n = a.n /\ t.db = a.db
    /\ \A t \in touched : row.sum \in held[t.db]

\* A restore does not go unheard: at rest every start that changed a database has an
\* entry, of failure too, unless it was killed or the entry could not be made.
TouchedIsAudited ==
    job.pc = "idle" => \A t \in touched : t.n \in unheard \/ \E a \in audit : a.n = t.n

\* Outside a developer's machine the key of the backend is never used; a dump stays in
\* a temporary directory only after a start that could not report, as when it is killed.
NothingLeaks ==
    /\ key = "runtime" => env.app = "local"
    /\ job.pc = "idle" => \A f \in scratch : f.n \in unheard

RestoreSafe ==
    /\ OnlyScratch
    /\ RestoredIsVerified
    /\ SuccessIsTrue
    /\ TouchedIsAudited
    /\ NothingLeaks
=============================================================================

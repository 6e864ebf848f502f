------------------------------ MODULE BucketCutover ------------------------------
(***************************************************************************)
(* scripts/b2-cutover.ts: the copy of every object that the database names  *)
(* from one store to another, in runs that plan, apply or verify, while the *)
(* backend still writes to the first store and calls may fail.              *)
(***************************************************************************)
EXTENDS Integers, FiniteSets

CONSTANTS Keys,        \* keys that the database names
          Unhashed,    \* those whose objects have no SHA-1 in the store
          MaxRuns,     \* bound of the runs
          MaxWrites,   \* bound of the writes of the backend meanwhile
          MaxFaults    \* bound of the failed calls

Contents == {"old", "new"}   \* two contents of one size
Objects == Contents \union {"none"}

VARIABLES src, dst,     \* what each store has for a key
          mode,         \* of the run at work, or "idle"
          row,          \* verdict of each key, and the source as it was probed
          todo,         \* keys that the present pass has yet to do
          phase,        \* "classify", "apply" or "verify"
          exit,         \* mode and exit code of the last run that ended
          runs, writes, faults,   \* bounded counters
          blind,        \* history: keys whose object was not seen by a probe
          overwritten   \* history: keys whose object at the destination was replaced

vars == <<src, dst, mode, row, todo, phase, exit, runs, writes, faults, blind, overwritten>>
Store == <<src, dst>>
Past == <<blind, overwritten>>

NoRow == [verdict |-> "none", was |-> "none"]

Init ==
    /\ src = [k \in Keys |-> "old"] /\ dst = [k \in Keys |-> "none"]
    /\ mode = "idle" /\ row = [k \in Keys |-> NoRow] /\ todo = {} /\ phase = "classify"
    /\ exit = [mode |-> "none", code |-> 0] /\ runs = 0 /\ writes = 0 /\ faults = 0
    /\ blind = {} /\ overwritten = {}

\* Size and SHA-1 agree, as far as the store knows the SHA-1.
Same(k, a, b) == a # "none" /\ b # "none" /\ (a = b \/ k \in Unhashed)

Fault == faults < MaxFaults /\ faults' = faults + 1
NoFault == UNCHANGED faults

-----------------------------------------------------------------------------
(* A run.                                                                  *)

Start(m) ==
    /\ mode = "idle" /\ runs < MaxRuns /\ runs' = runs + 1
    /\ mode' = m /\ phase' = "classify" /\ todo' = Keys /\ row' = [k \in Keys |-> NoRow]
    /\ UNCHANGED <<Store, exit, writes, faults, Past>>

\* probe: an error is taken for an object that is not there.
Probe(object, seen) == (seen = object /\ NoFault) \/ (seen = "none" /\ object # "none" /\ Fault)

Verdict(k, s, d) ==
    IF s = "none" THEN "sourceMissing"
    ELSE IF d = "none" THEN "plannedCopy"
    ELSE IF Same(k, s, d) THEN "alreadyPresent" ELSE "conflict"

Classify(k) ==
    /\ mode # "idle" /\ phase = "classify" /\ k \in todo
    /\ \E s, d \in Objects :
          /\ \/ Probe(src[k], s) /\ d = dst[k]
             \/ s = src[k] /\ Probe(dst[k], d)
          /\ row' = [row EXCEPT ![k] = [verdict |-> Verdict(k, s, d), was |-> s]]
          /\ blind' = IF d # dst[k] THEN blind \union {k} ELSE blind
    /\ todo' = todo \ {k}
    /\ UNCHANGED <<Store, mode, phase, exit, runs, writes, overwritten>>

With(verdicts) == {k \in Keys : row[k].verdict \in verdicts}

\* Mutant: also what is in conflict is copied.
CopiesConflicts == With({"plannedCopy", "conflict"})
ToCopy == With({"plannedCopy"})
ToVerify == With({"alreadyPresent", "verified"})

SecondPass ==
    /\ phase = "classify" /\ todo = {} /\ mode \in {"apply", "verify"}
    /\ phase' = mode /\ todo' = (IF mode = "apply" THEN ToCopy ELSE ToVerify)
    /\ UNCHANGED <<Store, mode, row, exit, runs, writes, faults, Past>>

Judge(k, verdict) == row' = [row EXCEPT ![k].verdict = verdict] /\ todo' = todo \ {k}

\* copyOne takes the source as it is now; the probe after it compares with the
\* source as it was.
Copy(k) ==
    /\ phase = "apply" /\ k \in todo
    /\ \/ /\ src[k] # "none"
          /\ dst' = [dst EXCEPT ![k] = src[k]]
          /\ overwritten' = IF dst[k] # "none" THEN overwritten \union {k} ELSE overwritten
          /\ \E d \in Objects :
                Probe(src[k], d) /\ Judge(k, IF Same(k, d, row[k].was) THEN "verified" ELSE "conflict")
       \/ UNCHANGED <<dst, overwritten>> /\ Judge(k, "conflict")
          /\ IF src[k] = "none" THEN NoFault ELSE Fault
    /\ UNCHANGED <<src, mode, phase, exit, runs, writes, blind>>

Verify(k) ==
    /\ phase = "verify" /\ k \in todo
    /\ \E d \in Objects :
          Probe(dst[k], d) /\ Judge(k, IF Same(k, d, row[k].was) THEN "verified" ELSE "conflict")
    /\ UNCHANGED <<Store, mode, phase, exit, runs, writes, Past>>

\* What is only planned does not count against a run, of whatever mode.
End ==
    /\ mode # "idle" /\ todo = {} /\ (phase # "classify" \/ mode = "dry-run")
    /\ exit' = [mode |-> mode, code |-> IF With({"sourceMissing", "conflict"}) = {} THEN 0 ELSE 1]
    /\ mode' = "idle" /\ phase' = "classify"
    /\ UNCHANGED <<Store, row, todo, runs, writes, faults, Past>>

Cut ==
    /\ mode # "idle" /\ Fault
    /\ mode' = "idle" /\ todo' = {} /\ exit' = [mode |-> "none", code |-> 1] /\ phase' = "classify"
    /\ UNCHANGED <<Store, row, runs, writes, Past>>

\* The backend writes the object again under its key, or deletes it.
BackendWrites(k, c) ==
    /\ writes < MaxWrites /\ writes' = writes + 1 /\ src[k] # c /\ src' = [src EXCEPT ![k] = c]
    /\ UNCHANGED <<dst, mode, row, todo, phase, exit, runs, faults, Past>>

Next ==
    \/ \E m \in {"dry-run", "apply", "verify"} : Start(m)
    \/ \E k \in Keys : Classify(k) \/ Copy(k) \/ Verify(k)
    \/ SecondPass \/ End \/ Cut
    \/ \E k \in Keys, c \in {"new", "none"} : BackendWrites(k, c)

Spec == Init /\ [][Next]_vars

-----------------------------------------------------------------------------
(* Properties.                                                             *)

\* Every variable keeps its type.
TypeOK ==
    /\ src \in [Keys -> Objects] /\ dst \in [Keys -> Objects] /\ todo \subseteq Keys
    /\ \A k \in Keys : row[k].was \in Objects
    /\ blind \union overwritten \subseteq Keys /\ runs \in 0..MaxRuns

\* "NEVER overwritten automatically": an object at the destination is replaced only
\* where a failed probe hid it.
NeverOverwritten == overwritten \subseteq blind

\* A key that is verified has at the destination what its source had when the run
\* probed it, or something of the same size where there is no SHA-1.
VerifiedIsSame ==
    mode # "idle" => \A k \in With({"verified"}) : Same(k, dst[k], row[k].was)

\* A run that applies and exits with 0 has left an object for every key; one that
\* verifies has only those that it did not plan to copy.
ExitMeansCopied ==
    /\ exit = [mode |-> "apply", code |-> 0] => \A k \in Keys : dst[k] # "none"
    /\ exit = [mode |-> "verify", code |-> 0] /\ mode = "idle" =>
          \A k \in Keys \ With({"plannedCopy"}) : Same(k, dst[k], row[k].was)

BucketCutoverSound ==
    /\ NeverOverwritten
    /\ VerifiedIsSame
    /\ ExitMeansCopied
=============================================================================

------------------------------ MODULE Evaluation ------------------------------
(***************************************************************************)
(* The prompts of the job evaluator (PromptService) and the two calls that *)
(* AiJobEvaluatorService makes with them: the gate and, when it lets the   *)
(* post through, the evaluation.  The prompt in force is cached for a      *)
(* minute; editing and activating drop the cache after their transaction.  *)
(* A prompt is known by its row, and rows are numbered as they are created.*)
(***************************************************************************)
EXTENDS Integers, FiniteSets

CONSTANTS Requests, Evaluators,
          MaxRows,       \* bound of the rows of the table
          MaxRequests,   \* bound of the operators' calls
          MaxReads,      \* bound of the evaluations
          MaxFaults      \* bound of the failing queries and lost answers

VARIABLES prompt,    \* the Prompt rows: type, isActive
          cache,     \* PromptService.cache by type
          req,       \* operators' calls between their read and their write
          eval,      \* evaluations at work
          begun, reads, faults,
          crossed    \* history: types of which two calls overlapped

vars == <<prompt, cache, req, eval, begun, reads, faults, crossed>>

Types == {"gate", "eval"}
Rows == 1..MaxRows
Fallback == 0        \* JOB_GATEKEEPER_PROMPT, JOB_EVALUATION_PROMPT
Absent == [type |-> "none", active |-> "no"]
Spent == [type |-> "none", active |-> "gone"]    \* a row that was deleted
NotCached == [value |-> Fallback, from |-> "nowhere"]
Idle == [pc |-> "idle"]
Rest == [pc |-> "rest"]

Exists(id) == prompt[id].type # "none"
ActiveRows(t) == {id \in Rows : prompt[id] = [type |-> t, active |-> "yes"]}

\* Of several active rows the one created last counts.
InForce(t) ==
    IF ActiveRows(t) = {} THEN Fallback
    ELSE CHOOSE id \in ActiveRows(t) : \A other \in ActiveRows(t) : other <= id

\* The number of a deleted row is not used again.
NewRow == CHOOSE id \in Rows : prompt[id] = Absent /\ \A other \in Rows : other < id => prompt[other] # Absent
HasRoom == \E id \in Rows : prompt[id] = Absent

Init ==
    /\ prompt = [id \in Rows |-> CASE id = 1 -> [type |-> "gate", active |-> "yes"]
                                   [] id = 2 -> [type |-> "eval", active |-> "yes"]
                                   [] OTHER  -> Absent]
    /\ cache = [t \in Types |-> NotCached]
    /\ req = [r \in Requests |-> Idle]
    /\ eval = [e \in Evaluators |-> Rest]
    /\ begun = 0 /\ reads = 0 /\ faults = 0 /\ crossed = {}

-----------------------------------------------------------------------------
(* Operators: createPrompt, updatePrompt, activatePrompt, deletePrompt.    *)

Begin(r, rec) ==
    /\ req[r].pc = "idle" /\ begun < MaxRequests /\ begun' = begun + 1
    /\ req' = [req EXCEPT ![r] = rec]
    /\ UNCHANGED <<prompt, cache, eval, reads, faults, crossed>>

\* A new prompt is inactive.
Create(t) ==
    /\ begun < MaxRequests /\ begun' = begun + 1 /\ HasRoom
    /\ prompt' = [prompt EXCEPT ![NewRow] = [type |-> t, active |-> "no"]]
    /\ UNCHANGED <<cache, req, eval, reads, faults, crossed>>

\* The existing row as it is read, and for activation the rows its first
\* statement sees active.
UpdateBegins(r, id) ==
    /\ Exists(id)
    /\ Begin(r, [pc |-> "update", id |-> id, type |-> prompt[id].type, seen |-> ActiveRows(prompt[id].type),
                 active |-> prompt[id].active, stale |-> FALSE])
ActivateBegins(r, id) ==
    /\ Exists(id)
    /\ Begin(r, [pc |-> "activate", id |-> id, type |-> prompt[id].type, seen |-> ActiveRows(prompt[id].type),
                 active |-> prompt[id].active, stale |-> FALSE])
\* Mutant: the prompt in force may be deleted.
DeletableAny(id) == Exists(id)
Deletable(id) == prompt[id].active = "no"
DeleteBegins(r, id) ==
    /\ Exists(id) /\ Deletable(id)
    /\ Begin(r, [pc |-> "delete", id |-> id, type |-> prompt[id].type, seen |-> {},
                 active |-> "no", stale |-> FALSE])

\* A commit: other calls and reads at work on the type are behind it.  The
\* answer of the transaction may get lost; then the cache is not dropped.
Commit(r, then) ==
    LET t == req[r].type
        Behind(q) == IF "type" \in DOMAIN q /\ q.type = t THEN [q EXCEPT !.stale = TRUE] ELSE q IN
    /\ crossed' = crossed \union (IF req[r].stale THEN {t} ELSE {})
    /\ \/ /\ req' = [q \in Requests |-> IF q = r THEN then ELSE Behind(req[q])]
          /\ eval' = [e \in Evaluators |-> IF eval[e].pc = "store" THEN Behind(eval[e]) ELSE eval[e]]
          /\ UNCHANGED <<cache, faults>>
       \/ /\ faults < MaxFaults /\ faults' = faults + 1 /\ then.pc = "clear"
          /\ req' = [q \in Requests |-> IF q = r THEN Idle ELSE Behind(req[q])]
          /\ eval' = [e \in Evaluators |-> IF eval[e].pc = "store" THEN Behind(eval[e]) ELSE eval[e]]
          /\ cache' = [cache EXCEPT ![t] = IF @ = NotCached THEN @ ELSE [@ EXCEPT !.from = "lost"]]
    /\ UNCHANGED <<begun, reads>>

Gone(r) ==
    /\ req' = [req EXCEPT ![r] = Idle]
    /\ UNCHANGED <<prompt, cache, eval, begun, reads, faults, crossed>>

Clear == [pc |-> "clear"]

\* The text of the prompt in force is replaced by a new row in one transaction.
\* Mutant: the row that is replaced stays active.
ReplacedKept(id) == [prompt EXCEPT ![NewRow] = [type |-> prompt[id].type, active |-> "yes"]]
Replaced(id) == [prompt EXCEPT ![id].active = "no",
                               ![NewRow] = [type |-> prompt[id].type, active |-> "yes"]]
Update(r) ==
    /\ req[r].pc = "update" /\ HasRoom
    /\ LET id == req[r].id IN
       IF req[r].active = "yes"
       THEN IF Exists(id)
            THEN prompt' = Replaced(id) /\ Commit(r, Clear)
            ELSE Gone(r)
       ELSE /\ prompt' = [prompt EXCEPT ![NewRow] = [type |-> req[r].type, active |-> "no"]]
            /\ req' = [req EXCEPT ![r] = Idle]
            /\ UNCHANGED <<cache, eval, begun, reads, faults, crossed>>

\* Only the rows that the first statement saw are switched off.
Activate(r) ==
    /\ req[r].pc = "activate"
    /\ LET id == req[r].id IN
       IF Exists(id)
       THEN /\ prompt' = [other \in Rows |->
                            IF other = id THEN [prompt[id] EXCEPT !.active = "yes"]
                            ELSE IF other \in req[r].seen /\ Exists(other) THEN [prompt[other] EXCEPT !.active = "no"]
                            ELSE prompt[other]]
            /\ Commit(r, Clear)
       ELSE Gone(r)

Delete(r) ==
    /\ req[r].pc = "delete"
    /\ IF Exists(req[r].id)
       THEN prompt' = [prompt EXCEPT ![req[r].id] = Spent] /\ Commit(r, Clear)
       ELSE Gone(r)

\* The whole cache goes, whatever type was changed.
\* Mutant: it stays.
Kept == cache
Dropped == [t \in Types |-> NotCached]
ClearCache(r) ==
    /\ req[r].pc = "clear"
    /\ cache' = Dropped
    /\ req' = [req EXCEPT ![r] = Idle]
    /\ UNCHANGED <<prompt, eval, begun, reads, faults, crossed>>

Expire(t) ==
    /\ cache[t] # NotCached /\ cache' = [cache EXCEPT ![t] = NotCached]
    /\ UNCHANGED <<prompt, req, eval, begun, reads, faults, crossed>>

-----------------------------------------------------------------------------
(* An evaluation: the prompt, the call, the answer; first for the gate,    *)
(* then for the evaluation.                                                *)

To(e, rec) == eval' = [eval EXCEPT ![e] = rec]
Call(t) == [pc |-> "call", stage |-> t]

\* getActiveOrFallback.
Ask(e, t) ==
    To(e, IF cache[t] # NotCached THEN Call(t) ELSE [pc |-> "query", stage |-> t])

EvaluateBegins(e) ==
    /\ eval[e].pc = "rest" /\ reads < MaxReads /\ reads' = reads + 1
    /\ Ask(e, "gate")
    /\ UNCHANGED <<prompt, cache, req, begun, faults, crossed>>

QueryPrompt(e) ==
    /\ eval[e].pc = "query"
    /\ To(e, [pc |-> "store", type |-> eval[e].stage, value |-> InForce(eval[e].stage), stale |-> FALSE])
    /\ UNCHANGED <<prompt, cache, req, begun, reads, faults, crossed>>

\* A query that fails caches the fallback all the same.
QueryPromptFails(e) ==
    /\ eval[e].pc = "query" /\ faults < MaxFaults /\ faults' = faults + 1
    /\ cache' = [cache EXCEPT ![eval[e].stage] = [value |-> Fallback, from |-> "error"]]
    /\ To(e, Call(eval[e].stage))
    /\ UNCHANGED <<prompt, req, begun, reads, crossed>>

StorePrompt(e) ==
    /\ eval[e].pc = "store"
    /\ cache' = [cache EXCEPT ![eval[e].type] =
                   [value |-> eval[e].value, from |-> IF eval[e].stale THEN "late" ELSE "table"]]
    /\ To(e, Call(eval[e].type))
    /\ UNCHANGED <<prompt, req, begun, reads, faults, crossed>>

\* What the API may answer, as far as the parsers look at it.
GateAnswers == [stop : {"end", "max_tokens"}, block : {"text", "none"}, object : {"whole", "partial"},
                fit : {"yes", "no"}, confidence : {5, 9, 11}]
EvalAnswers == [stop : {"end", "max_tokens"}, block : {"tool", "none"}, summary : {"given", "blank"},
                decision : {"approve", "maybe", "decline", "unknown"},
                priority : {"high"}, score : {"number", "nan"}]

\* extractStructuredPayload: the tool's input, or else a text that is JSON.
Readable(a) == a.stop # "max_tokens" /\ a.block \in {"tool", "text"}

\* parseGatekeeperInput; tenths of a confidence of 0..1, the reason is part of the object.
GateValid(a) == Readable(a) /\ a.object = "whole" /\ a.confidence \in 0..10
\* A doubtful no still goes on to the evaluation.
GateRejects(a) == a.fit = "no" /\ a.confidence >= 9

\* parseEvaluatorInput refuses words it does not know and a score that is no
\* number; a score out of range is clamped, and every other field is optional.
EvalValid(a) ==
    /\ Readable(a) /\ a.summary = "given" /\ a.score = "number"
    /\ a.decision \in {"approve", "maybe", "decline"} /\ a.priority \in {"high", "medium", "low"}

Ended(how) == [pc |-> "rest", verdict |-> how]

Gate(e, a) ==
    /\ eval[e].pc = "call" /\ eval[e].stage = "gate"
    /\ IF ~GateValid(a) THEN To(e, Ended("failed"))
       ELSE IF GateRejects(a) THEN To(e, Ended("decline"))
       ELSE Ask(e, "eval")
    /\ UNCHANGED <<prompt, cache, req, begun, reads, faults, crossed>>

Evaluate(e, a) ==
    /\ eval[e].pc = "call" /\ eval[e].stage = "eval"
    /\ To(e, Ended(IF EvalValid(a) THEN a.decision ELSE "failed"))
    /\ UNCHANGED <<prompt, cache, req, begun, reads, faults, crossed>>

\* The API refuses, or is not reached.
CallFails(e) ==
    /\ eval[e].pc = "call"
    /\ To(e, Ended("retry"))
    /\ UNCHANGED <<prompt, cache, req, begun, reads, faults, crossed>>

Next ==
    \/ \E t \in Types : Create(t) \/ Expire(t)
    \/ \E r \in Requests : Update(r) \/ Activate(r) \/ Delete(r) \/ ClearCache(r)
    \/ \E r \in Requests, id \in Rows : UpdateBegins(r, id) \/ ActivateBegins(r, id) \/ DeleteBegins(r, id)
    \/ \E e \in Evaluators : EvaluateBegins(e) \/ QueryPrompt(e) \/ QueryPromptFails(e) \/ StorePrompt(e) \/ CallFails(e)
    \/ \E e \in Evaluators, a \in GateAnswers : Gate(e, a)
    \/ \E e \in Evaluators, a \in EvalAnswers : Evaluate(e, a)

Spec == Init /\ [][Next]_vars

-----------------------------------------------------------------------------
\* Every variable has its type.
TypeOK ==
    /\ prompt \in [Rows -> [type : Types, active : {"yes", "no"}] \union {Absent, Spent}]
    /\ cache \in [Types -> [value : {Fallback} \union Rows,
                            from : {"nowhere", "table", "late", "error", "lost"}]]
    /\ \A r \in Requests : req[r].pc \in {"idle", "update", "activate", "delete", "clear"}
    /\ \A e \in Evaluators :
         eval[e].pc = "rest" => eval[e] \in {Rest} \union
             {Ended(v) : v \in {"approve", "maybe", "decline", "failed", "retry"}}
    /\ crossed \subseteq Types

\* While no two calls on a type overlap, exactly one of its prompts is in force
\* (updatePrompt, activatePrompt, deletePrompt).
OneInForce == \A t \in Types \ crossed : Cardinality(ActiveRows(t)) = 1

\* Without a call that still has to drop the cache, what the evaluator finds
\* there is the prompt in force, unless its read overlapped a change, failed,
\* or the answer of a change got lost (getActiveOrFallback, cache.clear).
CacheCurrent ==
    (\A r \in Requests : req[r].pc # "clear")
        => \A t \in Types : cache[t].from = "table" => cache[t].value = InForce(t)

\* The prompts that the evaluator uses are those the operators have put in force.
PromptsSound ==
    /\ OneInForce
    /\ CacheCurrent
=============================================================================

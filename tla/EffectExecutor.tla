--------------------------- MODULE EffectExecutor ---------------------------
(***************************************************************************)
(* The effect boundary of src/core/runtime: RuntimeEffectExecutor.execute  *)
(* runs the handler of an effect, records it in effect_executions, and     *)
(* shares the result of a succeeded effect between all executions with its *)
(* idempotency key, those of later processes included.                     *)
(*                                                                         *)
(* An execution runs alone up to the await of its handler, and again from  *)
(* the handler's answer to its own; each row and event write commits on    *)
(* its own and is an action. Any of them may throw: the try that awaits    *)
(* the handler covers the row and the event of its success too, so a throw *)
(* of either is recorded as a failure; a throw elsewhere leaves execute(). *)
(*                                                                         *)
(* Abstracted: the actor, plugin and effect type (the policy service and   *)
(* the registry answer anything), timestamps, the wording of errors.       *)
(***************************************************************************)
CONSTANTS
  Effects,    \* effect execution ids, each used by one execute()
  KeyOf,      \* the idempotency key of an effect, or None
  InputOf,    \* the input of an effect, None when it is null or undefined
  Keys, Inputs,
  Results,    \* what handlers return
  JsonOf,     \* what a result is after a round trip through its JSON column
  None

ASSUME EffectAssumption ==
  /\ KeyOf \in [Effects -> Keys \cup {None}]
  /\ InputOf \in [Effects -> Inputs \cup {None}]
  /\ JsonOf \in [Results -> Results]
  /\ \A r \in Results : JsonOf[JsonOf[r]] = JsonOf[r]
  /\ None \notin Keys \cup Inputs \cup Results

Errors    == {"IDEMPOTENCY_CONFLICT", "SQLITE_CONSTRAINT", "PERMISSION_DENIED",
              "EFFECT_HANDLER_NOT_FOUND", "EFFECT_FAILED", "DATABASE_ERROR"}
EventTypes == {"started", "succeeded", "failed"}
Statuses  == {"absent", "running", "succeeded", "failed"}
Locations == {"idle", "appendStarted", "gate", "inHandler", "appendEnd", "done"}

ASSUME ErrorsAreNoResults == None \notin Errors /\ Results \cap Errors = {}

VARIABLES
  effect,   \* effect_executions.status; input and key never change
  output,   \* output_summary_json
  events,   \* the effect.* events, as pairs of effect and type
  pc,       \* where the execution of an effect stands
  verdict,  \* what it is about to return or throw
  answer,   \* what execute() returned or threw to the step
  entered   \* history: the effects whose handler was called

database == <<effect, output, events>>
vars     == <<database, pc, verdict, answer, entered>>

SyncSections == {"appendStarted", "gate", "appendEnd"}
At(e, location)   == pc[e] = location /\ \A f \in Effects \ {e} : pc[f] \notin SyncSections
GoTo(e, location) == pc' = [pc EXCEPT ![e] = location]

Init ==
  /\ effect = [e \in Effects |-> "absent"]
  /\ output = [e \in Effects |-> None]
  /\ events = {} /\ entered = {}
  /\ pc = [e \in Effects |-> "idle"]
  /\ verdict = [e \in Effects |-> None]
  /\ answer = [e \in Effects |-> None]

-----------------------------------------------------------------------------
(* The rows getEffectExecutionByIdempotencyKey finds: one at most, because  *)
(* of the unique index.                                                     *)
WithKeyOf(e) ==
  {f \in Effects : effect[f] # "absent" /\ KeyOf[f] = KeyOf[e] /\ KeyOf[e] # None}

(* A step's context creates a new effect id for every execute(). *)
Answer(e, value) ==
  /\ answer' = [answer EXCEPT ![e] = value]
  /\ GoTo(e, "done")

SameInput(e, f) == InputOf[f] = None \/ InputOf[f] = InputOf[e]

(* The key has succeeded: its result answers an execution of the same input. *)
Reuse(e) ==
  /\ At(e, "idle")
  /\ \E f \in WithKeyOf(e) :
       effect[f] = "succeeded" /\ SameInput(e, f) /\ Answer(e, output[f])
  /\ UNCHANGED <<database, verdict, entered>>

Conflict(e) ==
  /\ At(e, "idle")
  /\ \E f \in WithKeyOf(e) : effect[f] = "succeeded" /\ ~SameInput(e, f)
  /\ Answer(e, "IDEMPOTENCY_CONFLICT")
  /\ UNCHANGED <<database, verdict, entered>>

(* A row of the key that has not succeeded is passed over by the lookup and *)
(* violates the unique index of the insert.                                 *)
Duplicate(e) ==
  /\ At(e, "idle")
  /\ \E f \in WithKeyOf(e) : effect[f] # "succeeded"
  /\ Answer(e, "SQLITE_CONSTRAINT")
  /\ UNCHANGED <<database, verdict, entered>>

(* Mutant: "insert or replace", so that a failed effect can be retried. *)
CreateOrReplace(e) ==
  /\ At(e, "idle")
  /\ \A f \in WithKeyOf(e) : effect[f] = "failed"
  /\ effect' = [f \in Effects |-> IF f = e THEN "running"
                                 ELSE IF f \in WithKeyOf(e) THEN "absent" ELSE effect[f]]
  /\ GoTo(e, "appendStarted")
  /\ UNCHANGED <<output, events, verdict, answer, entered>>

Create(e) ==
  /\ At(e, "idle")
  /\ WithKeyOf(e) = {}
  /\ effect' = [effect EXCEPT ![e] = "running"]
  /\ GoTo(e, "appendStarted")
  /\ UNCHANGED <<output, events, verdict, answer, entered>>

AppendStarted(e) ==
  /\ At(e, "appendStarted")
  /\ events' = events \cup {<<e, "started">>}
  /\ GoTo(e, "gate")
  /\ UNCHANGED <<effect, output, verdict, answer, entered>>

-----------------------------------------------------------------------------
(* Mutant: the failure is only reported. *)
FailUnrecorded(e, code) ==
  /\ verdict' = [verdict EXCEPT ![e] = code]
  /\ GoTo(e, "appendEnd")
  /\ UNCHANGED <<effect, output, events, answer, entered>>

(* Record a failure: row, then event, then throw. *)
Fail(e, code) ==
  /\ effect' = [effect EXCEPT ![e] = "failed"]
  /\ output' = [output EXCEPT ![e] = None]
  /\ verdict' = [verdict EXCEPT ![e] = code]
  /\ GoTo(e, "appendEnd")
  /\ UNCHANGED <<events, answer, entered>>

(* The policy service denies the effect, or nothing handles its type. *)
Refuse(e) ==
  /\ At(e, "gate")
  /\ \E code \in {"PERMISSION_DENIED", "EFFECT_HANDLER_NOT_FOUND"} : Fail(e, code)

EnterHandler(e) ==
  /\ At(e, "gate")
  /\ entered' = entered \cup {e}
  /\ GoTo(e, "inHandler")
  /\ UNCHANGED <<database, verdict, answer>>

HandlerReturns(e) ==
  /\ At(e, "inHandler")
  /\ effect' = [effect EXCEPT ![e] = "succeeded"]
  /\ \E r \in Results :
       output' = [output EXCEPT ![e] = JsonOf[r]] /\ verdict' = [verdict EXCEPT ![e] = r]
  /\ GoTo(e, "appendEnd")
  /\ UNCHANGED <<events, answer, entered>>

(* The handler throws, or the write of its success. *)
HandlerThrows(e) ==
  /\ At(e, "inHandler")
  /\ Fail(e, "EFFECT_FAILED")

AppendEnd(e) ==
  /\ At(e, "appendEnd")
  /\ events' = events \cup {<<e, IF verdict[e] \in Results THEN "succeeded" ELSE "failed">>}
  /\ Answer(e, verdict[e])
  /\ UNCHANGED <<effect, output, verdict, entered>>

(* The append of effect.succeeded throws into the catch: the row that says   *)
(* succeeded is written again, as failed and without its output.             *)
AppendThrows(e) ==
  /\ At(e, "appendEnd") /\ verdict[e] \in Results
  /\ Fail(e, "EFFECT_FAILED")

(* Any other write throws, those of the catch included: nothing catches it. *)
WriteThrows(e) ==
  /\ pc[e] # "done" /\ At(e, pc[e])
  /\ Answer(e, "DATABASE_ERROR")
  /\ UNCHANGED <<database, verdict, entered>>

(* The process dies: its executions are gone, nothing looks at their rows.  *)
Restart ==
  /\ \E e \in Effects : pc[e] \notin {"idle", "done"}
  /\ pc' = [e \in Effects |-> IF pc[e] = "idle" THEN "idle" ELSE "done"]
  /\ UNCHANGED <<database, verdict, answer, entered>>

(* What an execution does once it has begun. *)
ExecutionStep(e) ==
  \/ AppendStarted(e) \/ Refuse(e) \/ EnterHandler(e)
  \/ HandlerReturns(e) \/ HandlerThrows(e) \/ AppendEnd(e) \/ AppendThrows(e)

Next ==
  \/ \E e \in Effects :
       Reuse(e) \/ Conflict(e) \/ Duplicate(e) \/ Create(e) \/ ExecutionStep(e) \/ WriteThrows(e)
  \/ Restart

Spec == Init /\ [][Next]_vars

-----------------------------------------------------------------------------
(* Rows and executions are in the states the code knows. *)
TypeOK ==
  /\ effect \in [Effects -> Statuses]
  /\ output \in [Effects -> Results \cup {None}]
  /\ events \in SUBSET (Effects \X EventTypes) /\ entered \in SUBSET Effects
  /\ pc \in [Effects -> Locations]
  /\ verdict \in [Effects -> Results \cup Errors \cup {None}]
  /\ answer \in [Effects -> Results \cup Errors \cup {None}]

SameKey(e, f) == KeyOf[e] = KeyOf[f] /\ KeyOf[e] # None

(***************************************************************************)
(* At most one handler is ever called for a key, whatever executions of it *)
(* overlap, fail or die with the process.                                  *)
(***************************************************************************)
HandlerOncePerKey == \A e, f \in entered : SameKey(e, f) => e = f

(***************************************************************************)
(* Executions that return for one key return one result, and only to the   *)
(* input it was computed from (or when that had none).                     *)
(***************************************************************************)
ReusedResultFits ==
  \A e, f \in Effects :
    SameKey(e, f) /\ answer[e] \in Results =>
      /\ answer[f] \in Results => JsonOf[answer[e]] = JsonOf[answer[f]]
      /\ f \in entered => InputOf[f] \in {None, InputOf[e]}

(***************************************************************************)
(* A result is handed out only once it is recorded as succeeded, so that a *)
(* restart cannot forget it.                                               *)
(***************************************************************************)
ReturnedIsRecorded ==
  \A e \in Effects :
    answer[e] \in Results =>
      \E f \in Effects :
        /\ f = e \/ SameKey(e, f)
        /\ effect[f] = "succeeded" /\ output[f] = JsonOf[answer[e]]

Told(e, type) == <<e, type>> \in events

(***************************************************************************)
(* No event of an effect contradicts its row, also when the append of      *)
(* effect.succeeded threw and the row was written again; and what          *)
(* execute() returned or threw is told by the event of its verdict, unless *)
(* a write threw that nothing catches.                                     *)
(***************************************************************************)
EventsFollowRow ==
  \A e \in Effects :
    /\ Told(e, "started") => effect[e] # "absent"
    /\ e \in entered \/ Told(e, "succeeded") \/ Told(e, "failed") => Told(e, "started")
    /\ Told(e, "succeeded") => effect[e] = "succeeded"
    /\ Told(e, "failed") => effect[e] = "failed"
    /\ e \in entered /\ answer[e] \in Results => Told(e, "succeeded")
    /\ answer[e] \in {"PERMISSION_DENIED", "EFFECT_HANDLER_NOT_FOUND", "EFFECT_FAILED"} => Told(e, "failed")

(* What was recorded for an effect is not overwritten once its execution has *)
(* ended, and a failure never.                                               *)
RecordIsFinal ==
  [][\A e \in Effects :
       pc[e] = "done" \/ effect[e] = "failed" =>
         effect'[e] = effect[e] /\ output'[e] = output[e]]_vars

(***************************************************************************)
(* The executor, its rows and their restarts implement the promise of      *)
(* EffectOnce: done is the history of handlers called, and what is kept of *)
(* an effect is its output column.                                         *)
(***************************************************************************)
Once == INSTANCE EffectOnce WITH done <- entered, kept <- output

KeepsThePromise == Once!Spec
=============================================================================

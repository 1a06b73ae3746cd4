--------------------------- MODULE WorkflowRuntime ---------------------------
(***************************************************************************)
(* The workflow runtime of src/core/runtime: start() and resume() run the  *)
(* steps of a workflow definition and record instances, run attempts and   *)
(* step states in SQLite.                                                  *)
(*                                                                         *)
(* The process is single threaded: between two awaits a call runs alone,   *)
(* so calls interleave only while a step's run() is awaited.  Each row     *)
(* write commits on its own, so the process can die between any two of     *)
(* them.  One action is therefore one committed write of a call, and an    *)
(* action of another call is enabled only when no call is in the middle of *)
(* a synchronous section (CpuFree).                                        *)
(*                                                                         *)
(* Abstracted: payloads, timestamps, workspace and actor; a definition has *)
(* NumSteps steps and a shorter one completes early.                       *)
(***************************************************************************)
EXTENDS Naturals

CONSTANTS
  Definitions,    \* workflow definitions of the registry
  Instances,      \* workflow instance ids
  Attempts,       \* run attempt ids, each used by one start() or resume()
  DefinitionOf,   \* the definition an instance is created for
  NumSteps,       \* steps of a definition
  None            \* no instance, no wait

ConcurrencyPolicies == {"reject_if_running", "queue_if_running",
                        "skip_if_running", "allow_readonly_parallel"}
Steps == 1 .. NumSteps

ASSUME RuntimeAssumption ==
  /\ NumSteps \in Nat \ {0}                      \* a definition has a step
  /\ DefinitionOf \in [Instances -> Definitions]
  /\ None \notin Instances                       \* the null of an id column
  /\ None \notin Attempts \X Steps

InstanceStatuses == {"absent", "running", "waiting", "queued", "succeeded", "failed"}
AttemptStatuses  == {"absent", "queued", "running", "waiting", "succeeded", "failed",
                     "interrupted"}
StepStatuses     == {"absent", "running", "waiting", "succeeded", "failed", "skipped"}
Outcomes         == {"queued", "waiting", "succeeded", "failed"}
FinishEvents     == {"absent", "attempt.waiting", "attempt.completed", "attempt.failed"}

VARIABLES
  policy,           \* the registry: concurrency policy of each definition
  instance,         \* workflow_instances.status
  attempt,          \* run_attempts.status
  attemptInstance,  \* run_attempts.workflow_instance_id, set by the call
  step,             \* step_states.status of each attempt and step
  finishEvent,      \* the attempt.* event appended by finish()
  pc,               \* where the call of an attempt stands
  at,               \* index of the step the call is at
  outcome,          \* the status the call is about to write
  resumedFrom,      \* resume(): the waiting step state the signal answers
  executed          \* history: the steps whose run() was called, by attempt

database == <<instance, attempt, attemptInstance, step, finishEvent>>
memory   == <<pc, at, outcome, resumedFrom>>
vars     == <<policy, database, memory, executed>>

(***************************************************************************)
(* The program counter of a call.  In a synchronous section no other call  *)
(* runs; a call "inStep" awaits the step's run().                          *)
(***************************************************************************)
SyncSections == {"checkPolicy", "closeInstance", "consumeWait", "markResumed",
                 "startStep", "stepGate", "finishAttempt", "finishInstance",
                 "appendEvent"}
Locations == SyncSections \cup {"idle", "inStep", "done"}

CpuFree(a) == \A b \in Attempts \ {a} : pc[b] \notin SyncSections

At(a, location)  == pc[a] = location /\ CpuFree(a)
GoTo(a, location) == pc' = [pc EXCEPT ![a] = location]

-----------------------------------------------------------------------------
(***************************************************************************)
(* Row writes of the runtime store.                                        *)
(***************************************************************************)
WriteInstance(i, status) == instance' = [instance EXCEPT ![i] = status]
WriteAttempt(a, status)  == attempt' = [attempt EXCEPT ![a] = status]
WriteStep(a, s, status)  == step' = [step EXCEPT ![a][s] = status]

(* Mutant: an attempt that waits for a signal does not count as running. *)
ActiveAttemptsWithoutWaiting(d) ==
  {a \in Attempts : /\ attempt[a] \in {"queued", "running"}
                    /\ DefinitionOf[attemptInstance[a]] = d}

(* listRunningAttemptsForDefinition: attempts that count as running. *)
ActiveAttempts(d) ==
  {a \in Attempts : /\ attempt[a] \in {"queued", "running", "waiting"}
                    /\ DefinitionOf[attemptInstance[a]] = d}

(* listWaitingStepStates of an instance. *)
WaitingSteps(i) ==
  {w \in Attempts \X Steps : attemptInstance[w[1]] = i /\ step[w[1]][w[2]] = "waiting"}

Init ==
  /\ policy \in [Definitions -> ConcurrencyPolicies]
  /\ instance = [i \in Instances |-> "absent"]
  /\ attempt = [a \in Attempts |-> "absent"]
  /\ attemptInstance = [a \in Attempts |-> None]
  /\ step = [a \in Attempts |-> [s \in Steps |-> "absent"]]
  /\ finishEvent = [a \in Attempts |-> "absent"]
  /\ pc = [a \in Attempts |-> "idle"]
  /\ at = [a \in Attempts |-> 1]
  /\ outcome = [a \in Attempts |-> "failed"]
  /\ resumedFrom = [a \in Attempts |-> None]
  /\ executed = {}

-----------------------------------------------------------------------------
(***************************************************************************)
(* start(): instance row, concurrency policy, attempt row.                 *)
(***************************************************************************)
Start(a, i) ==
  /\ At(a, "idle")
  /\ instance[i] = "absent"
  /\ WriteInstance(i, "running")
  /\ attemptInstance' = [attemptInstance EXCEPT ![a] = i]
  /\ GoTo(a, "checkPolicy")
  /\ UNCHANGED <<policy, attempt, step, finishEvent, at, outcome, resumedFrom, executed>>

(* What the policy makes of an attempt that finds another one active. *)
BlockedStatus(p) ==
  CASE p = "reject_if_running" -> "failed"
    [] p = "queue_if_running"  -> "queued"
    [] p = "skip_if_running"   -> "succeeded"

Blocked(a) ==
  LET d == DefinitionOf[attemptInstance[a]] IN
  policy[d] # "allow_readonly_parallel" /\ ActiveAttempts(d) # {}

(* The attempt row is written with its final status at once. *)
BlockAttempt(a) ==
  LET status == BlockedStatus(policy[DefinitionOf[attemptInstance[a]]]) IN
  /\ At(a, "checkPolicy")
  /\ Blocked(a)
  /\ WriteAttempt(a, status)
  /\ outcome' = [outcome EXCEPT ![a] = status]
  /\ GoTo(a, "closeInstance")
  /\ UNCHANGED <<policy, instance, attemptInstance, step, finishEvent, at, resumedFrom, executed>>

CloseInstance(a) ==
  /\ At(a, "closeInstance")
  /\ WriteInstance(attemptInstance[a], outcome[a])
  /\ GoTo(a, "done")
  /\ UNCHANGED <<policy, attempt, attemptInstance, step, finishEvent, at, outcome, resumedFrom,
                 executed>>

AdmitAttempt(a) ==
  /\ At(a, "checkPolicy")
  /\ ~Blocked(a)
  /\ WriteAttempt(a, "running")
  /\ GoTo(a, "startStep")
  /\ UNCHANGED <<policy, instance, attemptInstance, step, finishEvent, at, outcome, resumedFrom,
                 executed>>

-----------------------------------------------------------------------------
(***************************************************************************)
(* The step loop, shared by start() and resume().                          *)
(***************************************************************************)
StartStep(a) ==
  /\ At(a, "startStep")
  /\ at[a] \in Steps
  /\ WriteStep(a, at[a], "running")
  /\ GoTo(a, "stepGate")
  /\ UNCHANGED <<policy, instance, attempt, attemptInstance, finishEvent, at, outcome, resumedFrom,
                 executed>>

(* Leave the loop with a verdict. *)
Conclude(a, verdict) ==
  /\ outcome' = [outcome EXCEPT ![a] = verdict]
  /\ GoTo(a, "finishAttempt")

StepsExhausted(a) ==
  /\ At(a, "startStep")
  /\ at[a] \notin Steps
  /\ Conclude(a, "succeeded")
  /\ UNCHANGED <<policy, database, at, resumedFrom, executed>>

(* Mutant: a denied step is left out and the loop goes on. *)
DenyStepAndGoOn(a) ==
  /\ At(a, "stepGate")
  /\ WriteStep(a, at[a], "skipped")
  /\ at' = [at EXCEPT ![a] = @ + 1]
  /\ GoTo(a, "startStep")
  /\ UNCHANGED <<policy, instance, attempt, attemptInstance, finishEvent, outcome, resumedFrom,
                 executed>>

(* The policy service, when there is one, denies the step to the actor. *)
DenyStep(a) ==
  /\ At(a, "stepGate")
  /\ WriteStep(a, at[a], "skipped")
  /\ Conclude(a, "failed")
  /\ UNCHANGED <<policy, instance, attempt, attemptInstance, finishEvent, at, resumedFrom, executed>>

EnterStep(a) ==
  /\ At(a, "stepGate")
  /\ executed' = executed \cup {<<a, at[a]>>}
  /\ GoTo(a, "inStep")
  /\ UNCHANGED <<policy, database, at, outcome, resumedFrom>>

(* The step's run() asks to go on. *)
StepContinues(a) ==
  /\ At(a, "inStep")
  /\ WriteStep(a, at[a], "succeeded")
  /\ at' = [at EXCEPT ![a] = @ + 1]
  /\ GoTo(a, "startStep")
  /\ UNCHANGED <<policy, instance, attempt, attemptInstance, finishEvent, outcome, resumedFrom,
                 executed>>

(* It settles the attempt: kind "complete", "wait" or "fail". *)
StepSettles(a, verdict) ==
  /\ At(a, "inStep")
  /\ WriteStep(a, at[a], verdict)
  /\ Conclude(a, verdict)
  /\ UNCHANGED <<policy, instance, attempt, attemptInstance, finishEvent, at, resumedFrom, executed>>

(* Mutant: no catch in start() either. *)
StepThrowsUncaught(a) ==
  /\ At(a, "inStep")
  /\ GoTo(a, "done")
  /\ UNCHANGED <<policy, database, at, outcome, resumedFrom, executed>>

(* It throws: start() records a failed step, resume() lets the error escape *)
(* and leaves its rows as they are.                                         *)
StepThrows(a) ==
  /\ At(a, "inStep")
  /\ \/ /\ resumedFrom[a] = None
        /\ WriteStep(a, at[a], "failed")
        /\ Conclude(a, "failed")
     \/ /\ resumedFrom[a] # None
        /\ GoTo(a, "done")
        /\ UNCHANGED <<step, outcome>>
  /\ UNCHANGED <<policy, instance, attempt, attemptInstance, finishEvent, at, resumedFrom, executed>>

-----------------------------------------------------------------------------
FinishAttempt(a) ==
  /\ At(a, "finishAttempt")
  /\ WriteAttempt(a, outcome[a])
  /\ GoTo(a, "finishInstance")
  /\ UNCHANGED <<policy, instance, attemptInstance, step, finishEvent, at, outcome, resumedFrom,
                 executed>>

FinishInstance(a) ==
  /\ At(a, "finishInstance")
  /\ WriteInstance(attemptInstance[a], outcome[a])
  /\ GoTo(a, "appendEvent")
  /\ UNCHANGED <<policy, attempt, attemptInstance, step, finishEvent, at, outcome, resumedFrom,
                 executed>>

EventOf(status) ==
  CASE status = "succeeded" -> "attempt.completed"
    [] status = "waiting"   -> "attempt.waiting"
    [] status = "failed"    -> "attempt.failed"

AppendFinishEvent(a) ==
  /\ At(a, "appendEvent")
  /\ finishEvent' = [finishEvent EXCEPT ![a] = EventOf(outcome[a])]
  /\ GoTo(a, "done")
  /\ UNCHANGED <<policy, instance, attempt, attemptInstance, step, at, outcome, resumedFrom, executed>>

-----------------------------------------------------------------------------
(***************************************************************************)
(* resume(): a signal that matches the wait condition creates a new        *)
(* attempt, which takes over behind the waiting step.  A signal that does  *)
(* not match, or finds no waiting step, throws before any write.           *)
(***************************************************************************)
Resume(a, i) ==
  /\ At(a, "idle")
  /\ instance[i] = "waiting"
  /\ \E w \in WaitingSteps(i) : resumedFrom' = [resumedFrom EXCEPT ![a] = w]
  /\ WriteAttempt(a, "running")
  /\ attemptInstance' = [attemptInstance EXCEPT ![a] = i]
  /\ GoTo(a, "consumeWait")
  /\ UNCHANGED <<policy, instance, step, finishEvent, at, outcome, executed>>

(* Mutant: the signal is matched but not consumed. *)
ConsumeWaitNot(a) ==
  /\ At(a, "consumeWait")
  /\ GoTo(a, "markResumed")
  /\ UNCHANGED <<policy, database, at, outcome, resumedFrom, executed>>

ConsumeWait(a) ==
  LET w == resumedFrom[a] IN
  /\ At(a, "consumeWait")
  /\ WriteStep(w[1], w[2], "succeeded")
  /\ GoTo(a, "markResumed")
  /\ UNCHANGED <<policy, instance, attempt, attemptInstance, finishEvent, at, outcome, resumedFrom,
                 executed>>

(* Mutant: the resumed attempt enters the loop at the waiting step. *)
MarkResumedAtWait(a) ==
  LET s == resumedFrom[a][2] IN
  /\ At(a, "markResumed")
  /\ WriteStep(a, s, "succeeded")
  /\ at' = [at EXCEPT ![a] = s]
  /\ GoTo(a, "startStep")
  /\ UNCHANGED <<policy, instance, attempt, attemptInstance, finishEvent, outcome, resumedFrom,
                 executed>>

(* The waiting step gets a state of the new attempt and is not run again. *)
MarkResumed(a) ==
  LET s == resumedFrom[a][2] IN
  /\ At(a, "markResumed")
  /\ WriteStep(a, s, "succeeded")
  /\ at' = [at EXCEPT ![a] = s + 1]
  /\ GoTo(a, "startStep")
  /\ UNCHANGED <<policy, instance, attempt, attemptInstance, finishEvent, outcome, resumedFrom,
                 executed>>

-----------------------------------------------------------------------------
(***************************************************************************)
(* The process dies anywhere and boots again: calls are gone, and          *)
(* markRunningAttemptsInterrupted() runs before any new call.              *)
(***************************************************************************)
(* Mutant (of Interrupted): a restart also interrupts what waits. *)
InterruptedWaits(status) == IF status \in {"running", "waiting"} THEN "interrupted" ELSE status
Interrupted(status) == IF status = "running" THEN "interrupted" ELSE status

Restart ==
  /\ \E a \in Attempts : pc[a] \notin {"idle", "done"} \/ attempt[a] = "running"
  /\ attempt' = [a \in Attempts |-> Interrupted(attempt[a])]
  /\ pc' = [a \in Attempts |-> IF pc[a] = "idle" THEN "idle" ELSE "done"]
  /\ UNCHANGED <<policy, instance, attemptInstance, step, finishEvent, at, outcome, resumedFrom,
                 executed>>

(* What the process does on its own once a call is in progress. *)
CallStep(a) ==
  \/ BlockAttempt(a) \/ CloseInstance(a) \/ AdmitAttempt(a)
  \/ StartStep(a) \/ StepsExhausted(a) \/ DenyStep(a) \/ EnterStep(a)
  \/ StepContinues(a) \/ StepThrows(a)
  \/ \E verdict \in {"succeeded", "waiting", "failed"} : StepSettles(a, verdict)
  \/ FinishAttempt(a) \/ FinishInstance(a) \/ AppendFinishEvent(a)
  \/ ConsumeWait(a) \/ MarkResumed(a)

Next ==
  \/ \E a \in Attempts :
       \/ \E i \in Instances : Start(a, i) \/ Resume(a, i)
       \/ CallStep(a)
  \/ Restart

Spec == Init /\ [][Next]_vars

(***************************************************************************)
(* A synchronous section runs to its next await, and a step's run() is     *)
(* assumed to settle: the runtime sets it no timeout.                      *)
(***************************************************************************)
Fairness == \A a \in Attempts : WF_vars(CallStep(a))
FairSpec == Spec /\ Fairness
-----------------------------------------------------------------------------
(* Every row and every call is in a state the code knows. *)
TypeOK ==
  /\ policy \in [Definitions -> ConcurrencyPolicies]
  /\ instance \in [Instances -> InstanceStatuses]
  /\ attempt \in [Attempts -> AttemptStatuses]
  /\ attemptInstance \in [Attempts -> Instances \cup {None}]
  /\ step \in [Attempts -> [Steps -> StepStatuses]]
  /\ finishEvent \in [Attempts -> FinishEvents]
  /\ pc \in [Attempts -> Locations]
  /\ at \in [Attempts -> 1 .. NumSteps + 1]
  /\ outcome \in [Attempts -> Outcomes]
  /\ resumedFrom \in [Attempts -> (Attempts \X Steps) \cup {None}]
  /\ executed \in SUBSET (Attempts \X Steps)

SameInstance(a, b)   == attemptInstance[a] = attemptInstance[b]
SameDefinition(a, b) ==
  DefinitionOf[attemptInstance[a]] = DefinitionOf[attemptInstance[b]]
Exclusive(a) ==
  policy[DefinitionOf[attemptInstance[a]]] # "allow_readonly_parallel"

(***************************************************************************)
(* The concurrency policy: whatever starts, signals and restarts arrive,   *)
(* at most one attempt of an instance is running, and at most one of all   *)
(* instances of a definition that is not allow_readonly_parallel.          *)
(***************************************************************************)
MutualExclusion ==
  \A a, b \in Attempts :
    attempt[a] = "running" /\ attempt[b] = "running" =>
      /\ SameInstance(a, b) => a = b
      /\ SameDefinition(a, b) /\ Exclusive(a) => a = b

(***************************************************************************)
(* No two attempts of an instance run the same step: neither a repeated    *)
(* signal nor a restart makes resume() redo work. (Within an attempt the   *)
(* loop over the steps only goes forward.)                                 *)
(***************************************************************************)
StepsRunOnce ==
  \A e, f \in executed : SameInstance(e[1], f[1]) /\ e[2] = f[2] => e = f

(* A resumed attempt took over once it recorded the waiting step as its own. *)
TookOver(a) == resumedFrom[a] # None /\ step[a][resumedFrom[a][2]] = "succeeded"

(***************************************************************************)
(* A waiting step is answered by one signal: of the attempts that resumed  *)
(* from it at most one took over, the others died before.                  *)
(***************************************************************************)
SignalAnsweredOnce ==
  \A a, b \in Attempts :
    TookOver(a) /\ TookOver(b) /\ resumedFrom[a] = resumedFrom[b] => a = b

(***************************************************************************)
(* The status of an instance is never ahead of its attempts, even when the *)
(* process dies between the two writes: an instance that waits, is queued  *)
(* or has ended has an attempt of that status.                             *)
(***************************************************************************)
InstanceBackedByAttempt ==
  \A i \in Instances :
    instance[i] \in Outcomes =>
      \E a \in Attempts : attemptInstance[a] = i /\ attempt[a] = instance[i]

(***************************************************************************)
(* The event stream tells facts: the attempt.* event of finish() is there  *)
(* only when the rows say the same, and an attempt with a failed or denied *)
(* step never counts as completed (FAILED_PATH_FORBIDDEN_EVENTS).          *)
(***************************************************************************)
FactsFollowState ==
  \A a \in Attempts :
    /\ finishEvent[a] # "absent" =>
         /\ attempt[a] \in {"succeeded", "waiting", "failed"}
         /\ finishEvent[a] = EventOf(attempt[a])
         /\ attempt[a] # "waiting" => instance[attemptInstance[a]] = attempt[a]
    /\ (\E s \in Steps : step[a][s] \in {"failed", "skipped"}) =>
         attempt[a] # "succeeded" /\ finishEvent[a] # "attempt.completed"

(***************************************************************************)
(* A verdict is final: no later signal, start or restart changes the       *)
(* status of an attempt that left "running", nor that of an instance that  *)
(* succeeded or failed.                                                    *)
(***************************************************************************)
VerdictIsFinal ==
  [][/\ \A a \in Attempts :
          attempt[a] \notin {"absent", "running"} => attempt'[a] = attempt[a]
     /\ \A i \in Instances :
          instance[i] \in {"succeeded", "failed"} => instance'[i] = instance[i]]_vars

(***************************************************************************)
(* An attempt admitted by start() leaves "running", whether its steps      *)
(* continue, settle, throw or are cut off by a restart.                    *)
(***************************************************************************)
StartedAttemptSettles ==
  \A a \in Attempts :
    (attempt[a] = "running" /\ resumedFrom[a] = None) ~> attempt[a] # "running"

-----------------------------------------------------------------------------
(***************************************************************************)
(* What the concurrency error says, "Another attempt is already running":  *)
(* an attempt is rejected, queued or skipped only while another attempt of *)
(* the definition belongs to an instance that has not ended.               *)
(***************************************************************************)
BlockedOnlyByLiveWork ==
  [][\A a \in Attempts :
       attempt[a] = "absent" /\ attempt'[a] \in {"failed", "queued", "succeeded"} =>
         \E b \in ActiveAttempts(DefinitionOf[attemptInstance[a]]) :
           instance[attemptInstance[b]] \notin {"succeeded", "failed"}]_vars

=============================================================================

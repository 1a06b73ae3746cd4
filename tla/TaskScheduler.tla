---------------------------- MODULE TaskScheduler ----------------------------
(***************************************************************************)
(* The scheduler of src/features/scheduler: what the runs of one task do   *)
(* to it, to each other and to the people who are told of its failures.    *)
(* Runs are started by the task's timer or by the run-now command, while   *)
(* other commands pause, edit and remove the task.                         *)
(*                                                                         *)
(* The process is single threaded.  A run is cut by its awaits: for the    *)
(* workflow runner, for a card to be sent, for the runs log; an action is  *)
(* all it does from one await to the next.  TaskRegistry.update() changes  *)
(* its map and the tasks table before its first await, so both are `task'. *)
(*                                                                         *)
(* Abstracted: a run outside the active hours or of a disabled task, which *)
(* touches nothing; lastRun; the failureTarget of the configuration, found *)
(* set or unset at each read; timers, which follow every registry write;   *)
(* the diagnostic bundle, memory candidate and control action of a         *)
(* failure; the value of the undelivered counter.                          *)
(***************************************************************************)
EXTENDS Integers

CONSTANTS
  Runs,         \* executions that can be in progress at the same time
  TimerRuns,    \* those the timer starts; the others are run-now commands
  Wired,        \* the scheduler was constructed with a workflowRunner
  Throttle,     \* the thirty minutes between two failure cards, in ticks
  Edits,        \* bound: the error policies /cron edit sets, all in principle
  MaxFailures,  \* bound on the failure count a run may start from
  MaxClock,     \* bound on the clock
  None

ASSUME SchedulerAssumption ==
  /\ TimerRuns \subseteq Runs
  /\ Wired \in BOOLEAN
  /\ Edits \subseteq {"always", "on-change", "silent"}
  /\ Throttle \in Nat /\ MaxFailures \in Nat /\ MaxClock \in Nat
  /\ None \notin Nat

Policies  == {"always", "on-change", "silent"}
Waiting   == {"inWorkflow", "unwired", "sendingRecovery", "appendingOk",
              "appendingFailed", "diagnosing", "sendingFailure"}
Ended     == {"idle", "failed", "undelivered", "rejected"}
Locations == {"appendingSkip"} \cup Waiting \cup Ended

Tasks  == [enabled : BOOLEAN, policy : Policies, failures : Nat, notified : Nat \cup {None}]
Locals == [forced : BOOLEAN, task : Tasks, at : Nat, alone : BOOLEAN]
Cards  == [at : Nat, alone : BOOLEAN]

ASSUME NoneIsNull == None \notin Tasks \cup Locals \cup Cards

VARIABLES
  task,     \* the row of the task, None once it is removed
  lock,     \* SingleFlight holds the task
  clock,    \* deps.clock.now()
  pc,       \* what a run waits for, or how the last one ended: "idle" after
            \* success, after a skip, and when it was lost in a restart
  run,      \* of a run in progress: --force, the task as it was read and when,
            \* and whether no other run was beside it
  card      \* history: the run that sent the last failure card since a success

vars  == <<task, lock, clock, pc, run, card>>

InProgress == {r \in Runs : pc[r] \in Waiting}

Init ==
  /\ \E policy \in Policies :
       task = [enabled |-> TRUE, policy |-> policy, failures |-> 0, notified |-> None]
  /\ lock = FALSE /\ clock = 0
  /\ pc = [r \in Runs |-> "idle"]
  /\ run = [r \in Runs |-> None]
  /\ card = None

-----------------------------------------------------------------------------
(***************************************************************************)
(* The start of execute(): read the task, take the lock or skip.           *)
(***************************************************************************)
Local(force) ==
  [forced |-> force, task |-> task, at |-> clock, alone |-> InProgress = {}]

ReadTask(r) ==
  /\ pc[r] \in Ended
  /\ task # None /\ task.enabled
  /\ task.failures <= MaxFailures

(* Runs in progress are alone no more. *)
Overlapped == [q \in Runs |-> IF q \in InProgress THEN [run[q] EXCEPT !.alone = FALSE]
                              ELSE run[q]]

(* Where execute() goes on with the lock: to the workflow runner or, without *)
(* one, to the error it throws; that throw has a step of its own here.       *)
FirstAwait == IF Wired THEN "inWorkflow" ELSE "unwired"

(* A forced run, which only a command starts, does not ask for the lock. *)
Begin(r, force) ==
  /\ ReadTask(r)
  /\ force \/ ~lock
  /\ force => r \notin TimerRuns
  /\ lock' = (lock \/ ~force)
  /\ run' = [Overlapped EXCEPT ![r] = Local(force)]
  /\ pc' = [pc EXCEPT ![r] = FirstAwait]
  /\ UNCHANGED <<task, clock, card>>

Skip(r) ==
  /\ ReadTask(r)
  /\ lock
  /\ run' = [run EXCEPT ![r] = Local(FALSE)]
  /\ pc' = [pc EXCEPT ![r] = "appendingSkip"]
  /\ UNCHANGED <<task, lock, clock, card>>

-----------------------------------------------------------------------------
Await(r, location) ==
  /\ pc' = [pc EXCEPT ![r] = location]
  /\ UNCHANGED <<lock, run>>

(* Mutant: the lock goes with every run. *)
EndUnlocked(r, verdict) ==
  /\ pc' = [pc EXCEPT ![r] = verdict]
  /\ run' = [run EXCEPT ![r] = None]
  /\ lock' = FALSE

(* execute() returns or throws; its finally releases the lock. *)
End(r, verdict) ==
  /\ pc' = [pc EXCEPT ![r] = verdict]
  /\ run' = [run EXCEPT ![r] = None]
  /\ lock' = (lock /\ run[r].forced)

(***************************************************************************)
(* The process ends and boots again: runs and lock are gone, the registry  *)
(* is read again from the table.                                           *)
(***************************************************************************)
Reboot ==
  /\ lock' = FALSE
  /\ run' = [r \in Runs |-> None]

(* A timer's run is not awaited by anybody: when it rejects, node ends. *)
Die(r) == Reboot /\ pc' = [q \in Runs |-> IF q = r THEN "rejected" ELSE "idle"]

(* Mutant: no finally. *)
EscapeLocked(r) ==
  IF r \in TimerRuns THEN Die(r)
  ELSE pc' = [pc EXCEPT ![r] = "rejected"] /\ run' = [run EXCEPT ![r] = None] /\ UNCHANGED lock

(* An error leaves execute(); run-now reports it. *)
Escape(r) == IF r \in TimerRuns THEN Die(r) ELSE End(r, "rejected")

(* Mutant: the patch is put on the task as the run read it. *)
PatchedSnapshot(r, failures, notified) ==
  [run[r].task EXCEPT !.failures = failures, !.notified = notified]

(* update() puts the patch of a run on the current task. *)
Patched(r, failures, notified) ==
  [task EXCEPT !.failures = failures, !.notified = notified]

(* TaskStore.upsert *)
Upsert(row) == task' = row

(* applyFailure() up to the runs log.  It throws for a task that is gone. *)
RecordFailed(r) ==
  \/ /\ task # None
     /\ Upsert(Patched(r, run[r].task.failures + 1, task.notified))
     /\ Await(r, "appendingFailed")
     /\ UNCHANGED card
  \/ /\ task = None
     /\ Escape(r)
     /\ UNCHANGED <<task, card>>

(* Mutant: a success keeps the count of failures. *)
RecordOkKeepsCount(r) ==
  \/ /\ task # None
     /\ Upsert(Patched(r, task.failures, None))
     /\ card' = None
     /\ Await(r, "appendingOk")
  \/ task = None /\ RecordFailed(r)

(* applySuccess() up to the runs log.  What it throws is caught as a        *)
(* failure of the task, whose record throws again.                          *)
RecordOk(r) ==
  \/ /\ task # None
     /\ Upsert(Patched(r, 0, None))
     /\ card' = None
     /\ Await(r, "appendingOk")
  \/ task = None /\ RecordFailed(r)

-----------------------------------------------------------------------------
(* The workflow runner answers "succeeded": if the task had failed and      *)
(* there is a failureTarget, a recovery card is sent first.                 *)
WorkflowSucceeds(r) ==
  /\ pc[r] = "inWorkflow"
  /\ \/ /\ run[r].task.failures > 0
        /\ Await(r, "sendingRecovery")
        /\ UNCHANGED <<task, card>>
     \/ RecordOk(r)
  /\ UNCHANGED clock

(* It answers "failed" or throws, or there is none. *)
WorkflowFails(r) ==
  /\ pc[r] \in {"inWorkflow", "unwired"}
  /\ RecordFailed(r)
  /\ UNCHANGED clock

RecoverySent(r) ==
  /\ pc[r] = "sendingRecovery"
  /\ RecordOk(r)
  /\ UNCHANGED clock

RecoveryNotSent(r) ==
  /\ pc[r] = "sendingRecovery"
  /\ RecordFailed(r)
  /\ UNCHANGED clock

OkAppended(r) ==
  /\ pc[r] = "appendingOk"
  /\ End(r, "idle")
  /\ UNCHANGED <<task, clock, card>>

OkNotAppended(r) ==
  /\ pc[r] = "appendingOk"
  /\ RecordFailed(r)
  /\ UNCHANGED clock

FailedAppended(r) ==
  /\ pc[r] = "appendingFailed"
  /\ Await(r, "diagnosing")
  /\ UNCHANGED <<task, clock, card>>

FailedNotAppended(r) ==
  /\ pc[r] = "appendingFailed"
  /\ Escape(r)
  /\ UNCHANGED <<task, clock, card>>

(* A run that only skips holds no lock: neither here nor in the finally. *)
EndSkip(r, verdict) ==
  /\ pc' = [pc EXCEPT ![r] = verdict]
  /\ run' = [run EXCEPT ![r] = None]
  /\ UNCHANGED lock

SkipAppended(r) ==
  /\ pc[r] = "appendingSkip"
  /\ EndSkip(r, "idle")
  /\ UNCHANGED <<task, clock, card>>

SkipNotAppended(r) ==
  /\ pc[r] = "appendingSkip"
  /\ IF r \in TimerRuns THEN Die(r) ELSE EndSkip(r, "rejected")
  /\ UNCHANGED <<task, clock, card>>

-----------------------------------------------------------------------------
Throttled(r) ==
  run[r].task.notified # None /\ run[r].at - run[r].task.notified < Throttle

(* decideShouldNotifyFailure, on the task as the run read it. *)
ShouldNotify(r) ==
  /\ run[r].task.policy # "silent"
  /\ run[r].task.policy = "always" \/ run[r].task.failures = 0 \/ ~Throttled(r)

(* recordRuntimeFailureArtifacts() is through: decide whom to tell. *)
Diagnosed(r) ==
  /\ pc[r] = "diagnosing"
  /\ \/ ~ShouldNotify(r) /\ End(r, "failed")
     \/ ShouldNotify(r) /\ End(r, "undelivered")        \* no failureTarget
     \/ ShouldNotify(r) /\ Await(r, "sendingFailure")
  /\ UNCHANGED <<task, clock, card>>

(* It throws: the diagnostic bundle cannot be written. *)
DiagnosisThrows(r) ==
  /\ pc[r] = "diagnosing"
  /\ Escape(r)
  /\ UNCHANGED <<task, clock, card>>

(* The failure card is sent; the time of it is written to the task, and if *)
(* that is gone, the card counts as undelivered.                           *)
FailureSent(r) ==
  /\ pc[r] = "sendingFailure"
  /\ card' = [at |-> run[r].at, alone |-> run[r].alone]
  /\ \/ /\ task # None
        /\ Upsert(Patched(r, task.failures, run[r].at))
        /\ End(r, "failed")
     \/ /\ task = None
        /\ End(r, "undelivered")
        /\ UNCHANGED task
  /\ UNCHANGED clock

(* Mutant: the error of the card is only logged. *)
FailureNotSentLogged(r) ==
  /\ pc[r] = "sendingFailure"
  /\ End(r, "failed")
  /\ UNCHANGED <<task, clock, card>>

FailureNotSent(r) ==
  /\ pc[r] = "sendingFailure"
  /\ End(r, "undelivered")
  /\ UNCHANGED <<task, clock, card>>

-----------------------------------------------------------------------------
(* The commands on the task: pause, resume, edit the policy, remove. *)
SetEnabled(enabled) ==
  /\ task # None
  /\ Upsert([task EXCEPT !.enabled = enabled])
  /\ UNCHANGED <<lock, clock, pc, run, card>>

SetPolicy(policy) ==
  /\ task # None
  /\ Upsert([task EXCEPT !.policy = policy])
  /\ UNCHANGED <<lock, clock, pc, run, card>>

Remove ==
  /\ task # None
  /\ task' = None
  /\ UNCHANGED <<lock, clock, pc, run, card>>

Tick ==
  /\ clock < MaxClock
  /\ clock' = clock + 1
  /\ UNCHANGED <<task, lock, pc, run, card>>

Crash ==
  /\ \E r \in Runs : pc[r] \notin Ended
  /\ Reboot
  /\ pc' = [r \in Runs |-> "idle"]
  /\ UNCHANGED <<task, clock, card>>

(* What a run does once it has begun. *)
RunStep(r) ==
  \/ WorkflowSucceeds(r) \/ WorkflowFails(r)
  \/ RecoverySent(r) \/ RecoveryNotSent(r)
  \/ OkAppended(r) \/ OkNotAppended(r)
  \/ FailedAppended(r) \/ FailedNotAppended(r)
  \/ SkipAppended(r) \/ SkipNotAppended(r)
  \/ Diagnosed(r) \/ DiagnosisThrows(r)
  \/ FailureSent(r) \/ FailureNotSent(r)

Command ==
  \/ \E enabled \in BOOLEAN : SetEnabled(enabled)
  \/ \E policy \in Edits : SetPolicy(policy)
  \/ Remove

Next ==
  \/ \E r \in Runs :
       \/ \E force \in BOOLEAN : Begin(r, force)
       \/ Skip(r)
       \/ RunStep(r)
  \/ Command \/ Tick \/ Crash

Spec == Init /\ [][Next]_vars

(* The workflow runner, the notification port and the file system answer:   *)
(* the scheduler sets none of them a timeout.                               *)
Fairness == \A r \in Runs : WF_vars(RunStep(r))
FairSpec == Spec /\ Fairness
-----------------------------------------------------------------------------
(* The task and its runs are in states the code knows. *)
TypeOK ==
  /\ task \in Tasks \cup {None}
  /\ lock \in BOOLEAN /\ clock \in Nat
  /\ pc \in [Runs -> Locations]
  /\ run \in [Runs -> Locals \cup {None}]
  /\ \A r \in Runs : run[r] = None <=> pc[r] \in Ended
  /\ card \in Cards \cup {None}

(***************************************************************************)
(* Single flight: at most one unforced run of the task is in progress, and *)
(* the lock is held exactly then, whatever throws, is forced, is removed   *)
(* or dies in between; a lock left behind would stop the task for good.    *)
(***************************************************************************)
SingleFlight ==
  LET holders == {r \in InProgress : ~run[r].forced} IN
  /\ \A q, r \in holders : q = r
  /\ lock <=> holders # {}

(***************************************************************************)
(* A run that no other overlapped leaves the count its verdict calls for:  *)
(* none after task.completed, one more than it found after task.failed.    *)
(***************************************************************************)
CountFollowsVerdict ==
  [][\A r \in InProgress :
       run[r].alone /\ task' # None =>
         /\ pc[r] = "appendingOk" /\ pc'[r] = "idle" => task'.failures = 0 /\ task'.notified = None
         /\ pc'[r] \in {"failed", "undelivered"} =>
              task'.failures = run[r].task.failures + 1]_vars

(***************************************************************************)
(* What the owner commands while a run is in progress sticks: no run       *)
(* resumes a paused task, revives a removed one or undoes an edit.         *)
(***************************************************************************)
RunsKeepCommands ==
  [][\A r \in Runs :
       pc'[r] # pc[r] =>
         /\ task' = None <=> task = None
         /\ task # None => task'.enabled = task.enabled /\ task'.policy = task.policy]_vars

(***************************************************************************)
(* Under "on-change" two failure cards of runs that nothing overlapped,    *)
(* with no success between them, are at least the throttle apart.          *)
(***************************************************************************)
CardsAreThrottled ==
  [][\A r \in InProgress :
       /\ card # None /\ card.alone
       /\ run[r].alone /\ run[r].task.policy = "on-change"
       /\ pc[r] = "diagnosing" /\ pc'[r] = "sendingFailure"
       => run[r].at - card.at >= Throttle]_vars

(***************************************************************************)
(* A failure that its policy does not silence or throttle is heard of: the *)
(* run ends with its card sent, or counted as undelivered.                 *)
(***************************************************************************)
FailureIsHeard ==
  [][\A r \in InProgress :
       pc'[r] = "failed" /\ ShouldNotify(r) =>
         card' = [at |-> run[r].at, alone |-> run[r].alone]]_vars

(* A task does not stay locked: the next timer finds it free. *)
LockIsReleased == lock ~> ~lock

-----------------------------------------------------------------------------
=============================================================================

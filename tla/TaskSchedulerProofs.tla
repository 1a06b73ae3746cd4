------------------------- MODULE TaskSchedulerProofs -------------------------
(***************************************************************************)
(* What is proved of the scheduler and of the work of its tasks.           *)
(*                                                                         *)
(* The scheduler, for any number of runs, any throttle and any bounds:     *)
(* SInv is inductive, and the action properties follow from it. The work   *)
(* of the kinds (TaskKinds), for any issues, stocks, chats, runs, commands *)
(* and bounds: FollowInv and StockInv are inductive, each over the part of *)
(* the state that its kind of task has.                                    *)
(***************************************************************************)
EXTENDS TaskScheduler, TaskKinds, TLAPS

USE DEF Upsert

(* Of two runs in progress none is alone. *)
OverlapIsSeen == \A q, r \in InProgress : q # r => ~run[q].alone

(* What a run that is alone has recorded is still there. *)
RecordStays ==
  \A r \in InProgress :
    run[r].alone /\ task # None =>
      /\ pc[r] = "appendingOk" => task.failures = 0 /\ task.notified = None
      /\ pc[r] \in {"appendingFailed", "diagnosing", "sendingFailure"} =>
           task.failures = run[r].task.failures + 1

(* A task is notified when its last card was sent; a first failure has no *)
(* card before it, but for one of runs that overlapped.                   *)
Agrees(t) == card # None => t.notified = card.at /\ (t.failures = 0 => ~card.alone)

TaskAgrees == task # None => Agrees(task)
RunsAgree  == \A r \in InProgress : run[r].alone => Agrees(run[r].task)

SInv == TypeOK /\ SingleFlight /\ OverlapIsSeen /\ RecordStays /\ TaskAgrees /\ RunsAgree

-----------------------------------------------------------------------------
(* The part of TypeOK a run has to itself. *)
RunsTyped ==
  /\ lock \in BOOLEAN
  /\ pc \in [Runs -> Locations]
  /\ run \in [Runs -> Locals \cup {None}]
  /\ \A r \in Runs : run[r] = None <=> pc[r] \in Ended

LEMMA LocalsTyped ==
  ASSUME TypeOK, NEW r \in Runs, pc[r] \notin Ended
  PROVE  /\ run[r] \in Locals /\ run[r].task \in Tasks /\ run[r].at \in Nat
         /\ run[r].forced \in BOOLEAN /\ run[r].alone \in BOOLEAN
<1>1. run[r] \in Locals
  BY DEF TypeOK
<1>. QED  BY <1>1 DEF Locals

LEMMA AwaitTyped ==
  ASSUME TypeOK, NEW r \in Runs, pc[r] \notin Ended, NEW location \in Waiting, Await(r, location)
  PROVE  RunsTyped'
  BY DEF TypeOK, Await, RunsTyped, Waiting, Ended, Locations

LEMMA EndTyped ==
  ASSUME TypeOK, NEW r \in Runs, pc[r] \notin Ended, NEW verdict \in Ended,
         End(r, verdict) \/ EndSkip(r, verdict)
  PROVE  RunsTyped'
  BY LocalsTyped DEF TypeOK, End, EndSkip, RunsTyped, Waiting, Ended, Locations

LEMMA DieTyped ==
  ASSUME TypeOK, NEW r \in Runs, Die(r)
  PROVE  RunsTyped'
  BY DEF TypeOK, Die, Reboot, RunsTyped, Ended, Locations

LEMMA EscapeTyped ==
  ASSUME TypeOK, NEW r \in Runs, pc[r] \notin Ended, Escape(r)
  PROVE  RunsTyped'
  BY EndTyped, DieTyped DEF Escape, Ended

LEMMA PatchedTyped ==
  ASSUME task \in Tasks, NEW r \in Runs, NEW failures \in Nat, NEW notified \in Nat \cup {None}
  PROVE  /\ Patched(r, failures, notified) \in Tasks
         /\ Patched(r, failures, notified).failures = failures
         /\ Patched(r, failures, notified).notified = notified
         /\ Patched(r, failures, notified).enabled = task.enabled
         /\ Patched(r, failures, notified).policy = task.policy
  BY DEF Patched, Tasks

LEMMA LocalTyped ==
  ASSUME task \in Tasks, clock \in Nat, NEW force \in BOOLEAN
  PROVE  Local(force) \in Locals /\ Local(force) # None
<1>1. (InProgress = {}) \in BOOLEAN
  OBVIOUS
<1>2. Local(force) \in Locals
  BY <1>1 DEF Local, Locals
<1>. QED  BY <1>2, NoneIsNull

-----------------------------------------------------------------------------
LEMMA InitSInv == Init => SInv
<1>. SUFFICES ASSUME Init PROVE SInv
  OBVIOUS
<1>1. TypeOK
  <2>1. task \in Tasks
    BY DEF Init, Tasks
  <2>. QED  BY <2>1 DEF Init, TypeOK, Locations, Ended
<1>2. InProgress = {}
  BY DEF Init, InProgress, Waiting
<1>. QED
  BY <1>1, <1>2 DEF Init, SInv, SingleFlight, OverlapIsSeen, RecordStays, TaskAgrees, RunsAgree,
                    Agrees

(* A run that ends leaves the others as they are. *)
LEMMA EndStep ==
  ASSUME SInv, NEW r \in InProgress, NEW verdict \in Ended, End(r, verdict),
         UNCHANGED <<task, clock, card>>
  PROVE  SInv'
<1>. USE DEF SInv
<1>0. r \in Runs /\ pc[r] \notin Ended
  BY DEF InProgress, Waiting, Ended
<1>1. TypeOK'
  BY <1>0, EndTyped DEF TypeOK, RunsTyped
<1>2. InProgress' = InProgress \ {r}
  BY <1>0 DEF End, InProgress, TypeOK, Waiting, Ended
<1>3. \A q \in InProgress' : pc'[q] = pc[q] /\ run'[q] = run[q] /\ q \in InProgress /\ q # r
  BY <1>0, <1>2 DEF End, InProgress, TypeOK
<1>4. SingleFlight'
  BY <1>0, <1>2, <1>3, LocalsTyped DEF SingleFlight, End
<1>5. OverlapIsSeen' /\ RecordStays' /\ TaskAgrees' /\ RunsAgree'
  BY <1>3 DEF OverlapIsSeen, RecordStays, TaskAgrees, RunsAgree, Agrees
<1>. QED  BY <1>1, <1>4, <1>5

(* After a restart no run is in progress. *)
LEMMA RebootStep ==
  ASSUME SInv, NEW r \in Runs, Die(r) \/ Crash, UNCHANGED <<task, clock, card>>
  PROVE  SInv'
<1>. USE DEF SInv
<1>1. TypeOK'
  BY DEF TypeOK, Die, Crash, Reboot, Ended, Locations
<1>2. InProgress' = {}
  BY DEF Die, Crash, InProgress, Waiting
<1>3. SingleFlight'
  BY <1>2 DEF SingleFlight, Die, Crash, Reboot
<1>4. OverlapIsSeen' /\ RecordStays' /\ TaskAgrees' /\ RunsAgree'
  BY <1>2 DEF OverlapIsSeen, RecordStays, TaskAgrees, RunsAgree, Agrees
<1>. QED  BY <1>1, <1>3, <1>4

LEMMA EscapeStep ==
  ASSUME SInv, NEW r \in InProgress, Escape(r), UNCHANGED <<task, clock, card>>
  PROVE  SInv'
  BY EndStep, RebootStep DEF Escape, Ended, InProgress

(* A run that goes on without a write, its record being made before. *)
LEMMA AwaitStep ==
  ASSUME SInv, NEW r \in InProgress, NEW location \in Waiting, Await(r, location),
         UNCHANGED <<task, clock, card>>,
         \/ location = "sendingRecovery"
         \/ /\ location \in {"diagnosing", "sendingFailure"}
            /\ pc[r] \in {"appendingFailed", "diagnosing"}
  PROVE  SInv'
<1>. USE DEF SInv
<1>0. r \in Runs /\ pc[r] \notin Ended
  BY DEF InProgress, Waiting, Ended
<1>1. TypeOK'
  BY <1>0, AwaitTyped DEF TypeOK, RunsTyped
<1>2. InProgress' = InProgress
  BY <1>0 DEF Await, InProgress, TypeOK
<1>3. SingleFlight' /\ OverlapIsSeen' /\ TaskAgrees' /\ RunsAgree'
  BY <1>2 DEF SingleFlight, OverlapIsSeen, TaskAgrees, RunsAgree, Agrees, Await
<1>4. RecordStays'
  BY <1>0, <1>2 DEF RecordStays, Await, TypeOK, InProgress
<1>. QED  BY <1>1, <1>3, <1>4

(* A run that records a failure. *)
LEMMA RecordFailedStep ==
  ASSUME SInv, NEW r \in InProgress, RecordFailed(r), UNCHANGED clock
  PROVE  SInv'
<1>. USE DEF SInv
<1>0. r \in Runs /\ pc[r] \notin Ended
  BY DEF InProgress, Waiting, Ended
<1>1. CASE task = None
  BY <1>1, EscapeStep DEF RecordFailed
<1>2. CASE task # None
  <2>1. /\ task' = Patched(r, run[r].task.failures + 1, task.notified)
        /\ Await(r, "appendingFailed") /\ UNCHANGED card
    BY <1>2 DEF RecordFailed
  <2>2. task \in Tasks /\ task.notified \in Nat \cup {None}
    BY <1>2 DEF TypeOK, Tasks
  <2>3. run[r].task.failures \in Nat
    BY <1>0, LocalsTyped DEF Tasks
  <2>4. /\ task' \in Tasks /\ task'.failures = run[r].task.failures + 1
        /\ task'.notified = task.notified
    <3>1. run[r].task.failures + 1 \in Nat
      BY <2>3
    <3>. QED  BY <1>0, <2>1, <2>2, <3>1, PatchedTyped
  <2>5. TypeOK'
    BY <1>0, <2>1, <2>4, AwaitTyped DEF TypeOK, RunsTyped, Waiting
  <2>6. InProgress' = InProgress /\ run' = run /\ lock' = lock
    BY <1>0, <2>1 DEF Await, InProgress, TypeOK, Waiting
  <2>7. SingleFlight' /\ OverlapIsSeen' /\ RunsAgree'
    BY <2>1, <2>6 DEF SingleFlight, OverlapIsSeen, RunsAgree, Agrees
  <2>8. RecordStays'
    BY <1>0, <2>1, <2>4, <2>6 DEF RecordStays, OverlapIsSeen, Await, TypeOK, InProgress
  <2>9. TaskAgrees'
    BY <1>2, <2>1, <2>3, <2>4 DEF TaskAgrees, Agrees
  <2>. QED  BY <2>5, <2>7, <2>8, <2>9
<1>. QED  BY <1>1, <1>2

(* A run that records a success. *)
LEMMA RecordOkStep ==
  ASSUME SInv, NEW r \in InProgress, RecordOk(r), UNCHANGED clock
  PROVE  SInv'
<1>. USE DEF SInv
<1>0. r \in Runs /\ pc[r] \notin Ended
  BY DEF InProgress, Waiting, Ended
<1>1. CASE task = None
  BY <1>1, RecordFailedStep DEF RecordOk
<1>2. CASE task # None
  <2>1. task' = Patched(r, 0, None) /\ card' = None /\ Await(r, "appendingOk")
    BY <1>2 DEF RecordOk
  <2>2. task \in Tasks
    BY <1>2 DEF TypeOK
  <2>3. task' \in Tasks /\ task'.failures = 0 /\ task'.notified = None
    <3>1. 0 \in Nat /\ None \in Nat \cup {None}
      OBVIOUS
    <3>. QED  BY <1>0, <2>1, <2>2, <3>1, PatchedTyped
  <2>4. TypeOK'
    BY <1>0, <2>1, <2>3, AwaitTyped DEF TypeOK, RunsTyped, Waiting
  <2>5. InProgress' = InProgress /\ run' = run /\ lock' = lock
    BY <1>0, <2>1 DEF Await, InProgress, TypeOK, Waiting
  <2>6. SingleFlight' /\ OverlapIsSeen' /\ TaskAgrees' /\ RunsAgree'
    BY <2>1, <2>5 DEF SingleFlight, OverlapIsSeen, TaskAgrees, RunsAgree, Agrees
  <2>7. RecordStays'
    BY <1>0, <2>1, <2>3, <2>5 DEF RecordStays, OverlapIsSeen, Await, TypeOK, InProgress
  <2>. QED  BY <2>4, <2>6, <2>7
<1>. QED  BY <1>1, <1>2

-----------------------------------------------------------------------------
(* A new run makes every other overlapped, and takes the lock if it must. *)
LEMMA BeginStep ==
  ASSUME SInv, NEW r \in Runs, NEW force \in BOOLEAN, Begin(r, force)
  PROVE  SInv'
<1>. USE DEF SInv
<1>0. task \in Tasks /\ pc[r] \in Ended /\ r \notin InProgress
  BY DEF Begin, ReadTask, TypeOK, InProgress, Waiting, Ended
<1>1. Local(force) \in Locals /\ Local(force) # None
  BY <1>0, LocalTyped DEF TypeOK
<1>2. \A q \in InProgress : [run[q] EXCEPT !.alone = FALSE] \in Locals
  BY LocalsTyped DEF Locals, InProgress, Waiting, Ended
<1>3. Overlapped \in [Runs -> Locals \cup {None}]
  BY <1>2 DEF Overlapped, TypeOK
<1>4. /\ run' = [Overlapped EXCEPT ![r] = Local(force)]
      /\ pc' = [pc EXCEPT ![r] = FirstAwait] /\ lock' = (lock \/ ~force)
      /\ UNCHANGED <<task, clock, card>> /\ (force \/ ~lock)
    BY DEF Begin
<1>a. FirstAwait \in Waiting /\ FirstAwait \notin Ended
  BY DEF FirstAwait, Waiting, Ended
<1>5. InProgress' = InProgress \cup {r}
  BY <1>4, <1>a DEF InProgress, TypeOK
<1>6. run'[r] = Local(force) /\ pc'[r] = FirstAwait
  BY <1>3, <1>4 DEF TypeOK
<1>7. \A q \in InProgress :
        /\ q # r /\ pc'[q] = pc[q] /\ run'[q] = [run[q] EXCEPT !.alone = FALSE]
        /\ run'[q].forced = run[q].forced /\ run'[q].alone = FALSE
        /\ run'[q].task = run[q].task
  <2>. SUFFICES ASSUME NEW q \in InProgress
                PROVE  /\ q # r /\ pc'[q] = pc[q] /\ run'[q] = [run[q] EXCEPT !.alone = FALSE]
                       /\ run'[q].forced = run[q].forced /\ run'[q].alone = FALSE
                       /\ run'[q].task = run[q].task
    OBVIOUS
  <2>1. q \in Runs /\ q # r /\ run[q] \in Locals
    BY <1>0, LocalsTyped DEF InProgress, Waiting, Ended
  <2>2. pc'[q] = pc[q] /\ run'[q] = [run[q] EXCEPT !.alone = FALSE]
    BY <1>3, <1>4, <2>1 DEF Overlapped, TypeOK
  <2>. QED  BY <2>1, <2>2 DEF Locals
<1>8. TypeOK'
  <2>1. run' \in [Runs -> Locals \cup {None}]
    BY <1>1, <1>3, <1>4
  <2>2. pc' \in [Runs -> Locations]
    BY <1>4, <1>a DEF TypeOK, Locations
  <2>3. ASSUME NEW q \in Runs
        PROVE  run'[q] = None <=> pc'[q] \in Ended
    <3>1. CASE q = r
      BY <1>1, <1>6, <1>a, <3>1
    <3>2. CASE q \in InProgress
      <4>1. pc'[q] = pc[q] /\ run'[q] = [run[q] EXCEPT !.alone = FALSE]
        BY <1>7, <3>2
      <4>2. run'[q] \in Locals
        BY <1>2, <3>2, <4>1
      <4>3. run'[q] # None
        BY <4>2, NoneIsNull
      <4>4. pc[q] \notin Ended
        BY <3>2 DEF InProgress, Waiting, Ended
      <4>. QED  BY <4>1, <4>3, <4>4
    <3>3. CASE q # r /\ q \notin InProgress
      BY <1>3, <1>4, <3>3 DEF Overlapped, TypeOK
    <3>. QED  BY <3>1, <3>2, <3>3
  <2>. QED  BY <1>4, <2>1, <2>2, <2>3 DEF TypeOK
<1>9. Local(force).forced = force /\ (Local(force).alone <=> InProgress = {})
      /\ Local(force).task = task
  BY DEF Local
<1>10. SingleFlight'
  <2>1. {q \in InProgress' : ~run'[q].forced} =
          {q \in InProgress : ~run[q].forced} \cup (IF force THEN {} ELSE {r})
    BY <1>0, <1>5, <1>6, <1>7, <1>9
  <2>2. lock' <=> lock \/ ~force
    BY <1>4
  <2>. QED  BY <1>4, <2>1, <2>2 DEF SingleFlight
<1>11. OverlapIsSeen'
  BY <1>5, <1>6, <1>7, <1>9 DEF OverlapIsSeen
<1>12. RecordStays'
  BY <1>5, <1>6, <1>7 DEF RecordStays, FirstAwait
<1>13. TaskAgrees' /\ RunsAgree'
  BY <1>0, <1>4, <1>5, <1>6, <1>7, <1>9, NoneIsNull DEF TaskAgrees, RunsAgree, Agrees
<1>. QED  BY <1>8, <1>10, <1>11, <1>12, <1>13

(* A run that skips is not in progress, before and after. *)
LEMMA SkipStep ==
  ASSUME SInv, NEW r \in Runs, Skip(r) \/ SkipAppended(r) \/ SkipNotAppended(r)
  PROVE  SInv'
<1>. USE DEF SInv
<1>1. CASE Skip(r)
  <2>1. task \in Tasks /\ pc[r] \in Ended
    BY <1>1 DEF Skip, ReadTask, TypeOK
  <2>2. Local(FALSE) \in Locals /\ Local(FALSE) # None
    BY <2>1, LocalTyped DEF TypeOK
  <2>3. TypeOK'
    BY <1>1, <2>2 DEF Skip, TypeOK, Locations, Ended
  <2>4. InProgress' = InProgress /\ \A q \in InProgress : pc'[q] = pc[q] /\ run'[q] = run[q]
    BY <1>1, <2>1 DEF Skip, InProgress, TypeOK, Waiting, Ended
  <2>5. UNCHANGED <<task, lock, clock, card>>
    BY <1>1 DEF Skip
  <2>6. SingleFlight'
    BY <2>4, <2>5 DEF SingleFlight
  <2>7. OverlapIsSeen' /\ RecordStays' /\ TaskAgrees' /\ RunsAgree'
    BY <2>4, <2>5 DEF OverlapIsSeen, RecordStays, TaskAgrees, RunsAgree, Agrees
  <2>. QED  BY <2>3, <2>6, <2>7
<1>2. ASSUME NEW verdict \in Ended, pc[r] = "appendingSkip", EndSkip(r, verdict),
             UNCHANGED <<task, clock, card>>
      PROVE  SInv'
  <2>1. TypeOK'
    BY <1>2, EndTyped DEF TypeOK, RunsTyped, Ended
  <2>2. InProgress' = InProgress /\ \A q \in InProgress : pc'[q] = pc[q] /\ run'[q] = run[q]
    BY <1>2 DEF EndSkip, InProgress, TypeOK, Waiting, Ended
  <2>. QED
    BY <1>2, <2>1, <2>2
    DEF EndSkip, SingleFlight, OverlapIsSeen, RecordStays, TaskAgrees, RunsAgree, Agrees
<1>3. CASE SkipAppended(r)
  BY <1>2, <1>3 DEF SkipAppended, Ended
<1>4. CASE SkipNotAppended(r)
  BY <1>2, <1>4, RebootStep DEF SkipNotAppended, Ended
<1>. QED  BY <1>1, <1>3, <1>4

(* The card of a failure is sent. *)
LEMMA FailureSentStep ==
  ASSUME SInv, NEW r \in InProgress, FailureSent(r)
  PROVE  SInv'
<1>. USE DEF SInv
<1>0. r \in Runs /\ pc[r] = "sendingFailure" /\ pc[r] \notin Ended /\ UNCHANGED clock
  BY DEF InProgress, FailureSent, Ended
<1>1. run[r] \in Locals /\ run[r].task \in Tasks /\ run[r].at \in Nat /\ run[r].alone \in BOOLEAN
  BY <1>0, LocalsTyped
<1>2. /\ card' = [at |-> run[r].at, alone |-> run[r].alone] /\ card' \in Cards
      /\ card'.at = run[r].at /\ card'.alone = run[r].alone
  BY <1>1 DEF FailureSent, Cards
<1>3. PICK verdict \in Ended : End(r, verdict)
  BY DEF FailureSent, Ended
<1>4. /\ task = None => task' = None
      /\ task # None => /\ task \in Tasks /\ task' \in Tasks
                        /\ task'.failures = task.failures /\ task'.notified = run[r].at
  <2>1. CASE task = None
    BY <2>1 DEF FailureSent
  <2>2. CASE task # None
    <3>1. task \in Tasks /\ task.failures \in Nat
      BY <2>2 DEF TypeOK, Tasks
    <3>2. task' = Patched(r, task.failures, run[r].at)
      BY <2>2 DEF FailureSent
    <3>. QED  BY <1>0, <1>1, <2>2, <3>1, <3>2, PatchedTyped
  <2>. QED  BY <2>1, <2>2
<1>5. TypeOK'
  BY <1>0, <1>2, <1>3, <1>4, EndTyped DEF TypeOK, RunsTyped
<1>6. InProgress' = InProgress \ {r}
  BY <1>0, <1>3 DEF End, InProgress, TypeOK, Waiting, Ended
<1>7. \A q \in InProgress' : pc'[q] = pc[q] /\ run'[q] = run[q] /\ q \in InProgress /\ q # r
  BY <1>0, <1>3, <1>6 DEF End, InProgress, TypeOK
<1>8. SingleFlight'
  BY <1>0, <1>3, <1>6, <1>7, LocalsTyped DEF SingleFlight, End
<1>9. OverlapIsSeen'
  BY <1>7 DEF OverlapIsSeen
<1>10. RecordStays' /\ RunsAgree'
  BY <1>7 DEF OverlapIsSeen, RecordStays, RunsAgree
<1>11. TaskAgrees'
  <2>. SUFFICES ASSUME task' # None PROVE Agrees(task)'
    BY DEF TaskAgrees
  <2>1. task # None
    BY <1>4
  <2>2. run[r].alone => task.failures = run[r].task.failures + 1 /\ run[r].task.failures \in Nat
    BY <1>0, <1>1, <2>1 DEF RecordStays, Tasks
  <2>. QED  BY <1>2, <1>4, <2>1, <2>2 DEF Agrees
<1>. QED  BY <1>5, <1>8, <1>9, <1>10, <1>11

(* The commands keep what the runs have written; the clock is nobody's. *)
LEMMA CommandStep ==
  ASSUME SInv, Command \/ Tick
  PROVE  SInv'
<1>. USE DEF SInv
<1>1. UNCHANGED <<lock, pc, run, card>> /\ clock' \in Nat
  BY DEF Command, SetEnabled, SetPolicy, Remove, Tick, TypeOK
<1>2. task' = None \/ (/\ task # None /\ task \in Tasks /\ task' \in Tasks
                       /\ task'.failures = task.failures /\ task'.notified = task.notified)
  BY SchedulerAssumption
  DEF Command, SetEnabled, SetPolicy, Remove, Tick, TypeOK, Tasks, Policies
<1>3. TypeOK'
  BY <1>1, <1>2 DEF TypeOK
<1>4. InProgress' = InProgress
  BY <1>1 DEF InProgress
<1>. QED
  BY <1>1, <1>2, <1>3, <1>4
  DEF SingleFlight, OverlapIsSeen, RecordStays, TaskAgrees, RunsAgree, Agrees

LEMMA StepSInv == SInv /\ [Next]_vars => SInv'
<1>. SUFFICES ASSUME SInv, [Next]_vars PROVE SInv'
  OBVIOUS
<1>1. ASSUME NEW r \in Runs, RunStep(r)
      PROVE  SInv'
  <2>0. pc[r] \in Waiting => r \in InProgress
    BY DEF InProgress
  <2>1. CASE WorkflowSucceeds(r)
    BY <2>0, <2>1, AwaitStep, RecordOkStep DEF WorkflowSucceeds, Waiting
  <2>2. CASE WorkflowFails(r) \/ RecoveryNotSent(r) \/ OkNotAppended(r)
    BY <2>0, <2>2, RecordFailedStep DEF WorkflowFails, RecoveryNotSent, OkNotAppended, Waiting
  <2>3. CASE RecoverySent(r)
    BY <2>0, <2>3, RecordOkStep DEF RecoverySent, Waiting
  <2>4. CASE OkAppended(r) \/ FailureNotSent(r)
    BY <2>0, <2>4, EndStep DEF OkAppended, FailureNotSent, Waiting, Ended
  <2>5. CASE FailedAppended(r)
    BY <2>0, <2>5, AwaitStep DEF FailedAppended, Waiting
  <2>6. CASE FailedNotAppended(r) \/ DiagnosisThrows(r)
    BY <2>0, <2>6, EscapeStep DEF FailedNotAppended, DiagnosisThrows, Waiting
  <2>7. CASE SkipAppended(r) \/ SkipNotAppended(r)
    BY <2>7, SkipStep
  <2>8. CASE Diagnosed(r)
    BY <2>0, <2>8, EndStep, AwaitStep DEF Diagnosed, Waiting, Ended
  <2>9. CASE FailureSent(r)
    BY <2>0, <2>9, FailureSentStep DEF FailureSent, Waiting
  <2>. QED
    BY <1>1, <2>1, <2>2, <2>3, <2>4, <2>5, <2>6, <2>7, <2>8, <2>9 DEF RunStep
<1>2. CASE Crash
  <2>1. PICK r \in Runs : pc[r] \notin Ended
    BY <1>2 DEF Crash
  <2>. QED  BY <1>2, <2>1, RebootStep DEF Crash
<1>3. CASE UNCHANGED vars
  BY <1>3
  DEF vars, SInv, TypeOK, SingleFlight, OverlapIsSeen, RecordStays, TaskAgrees, RunsAgree, Agrees,
      InProgress
<1>. QED  BY <1>1, <1>2, <1>3, BeginStep, SkipStep, CommandStep DEF Next

(* Whatever the scheduler reaches satisfies SInv. *)
THEOREM SchedulerInvariance == Spec => []SInv
<1>. QED  BY InitSInv, StepSInv, PTL DEF Spec

(* The task and its runs are in states the code knows. *)
THEOREM SchedulerTypeCorrect == Spec => []TypeOK
<1>1. SInv => TypeOK
  BY DEF SInv
<1>. QED  BY <1>1, SchedulerInvariance, PTL

(* At most one unforced run, and the lock is held exactly while it runs. *)
THEOREM OneRunAtATime == Spec => []SingleFlight
<1>1. SInv => SingleFlight
  BY DEF SInv
<1>. QED  BY <1>1, SchedulerInvariance, PTL

-----------------------------------------------------------------------------
(* The bodies of the action properties. *)
CountStands ==
  \A r \in InProgress :
    run[r].alone /\ task' # None =>
      /\ pc[r] = "appendingOk" /\ pc'[r] = "idle" => task'.failures = 0 /\ task'.notified = None
      /\ pc'[r] \in {"failed", "undelivered"} => task'.failures = run[r].task.failures + 1

CommandsStand ==
  \A r \in Runs :
    pc'[r] # pc[r] =>
      /\ task' = None <=> task = None
      /\ task # None => task'.enabled = task.enabled /\ task'.policy = task.policy

CardsStand ==
  \A r \in InProgress :
    /\ card # None /\ card.alone
    /\ run[r].alone /\ run[r].task.policy = "on-change"
    /\ pc[r] = "diagnosing" /\ pc'[r] = "sendingFailure"
    => run[r].at - card.at >= Throttle

HeardStands ==
  \A r \in InProgress :
    pc'[r] = "failed" /\ ShouldNotify(r) => card' = [at |-> run[r].at, alone |-> run[r].alone]

(* What a step may do to the runs: one run moves, others at most die. *)
LEMMA OneMoves ==
  ASSUME TypeOK, NEW q \in Runs, RunStep(q), NEW r \in Runs, pc'[r] # pc[r]
  PROVE  r = q \/ (pc'[r] \in {"idle", "rejected"} /\ UNCHANGED <<task, card>>)
<1>. USE DEF TypeOK
<1>1. ASSUME NEW location, Await(q, location)
      PROVE  r = q
  BY <1>1 DEF Await
<1>2. ASSUME NEW verdict, End(q, verdict) \/ EndSkip(q, verdict)
      PROVE  r = q
  BY <1>2 DEF End, EndSkip
<1>3. ASSUME Die(q)
      PROVE  pc'[r] \in {"idle", "rejected"}
  BY <1>3 DEF Die
<1>4. ASSUME Escape(q)
      PROVE  r = q \/ pc'[r] \in {"idle", "rejected"}
  BY <1>2, <1>3, <1>4 DEF Escape
<1>5. ASSUME RecordFailed(q) \/ RecordOk(q)
      PROVE  r = q \/ (pc'[r] \in {"idle", "rejected"} /\ UNCHANGED <<task, card>>)
  BY <1>1, <1>4, <1>5 DEF RecordFailed, RecordOk
<1>6. CASE WorkflowSucceeds(q) \/ WorkflowFails(q) \/ RecoverySent(q) \/ RecoveryNotSent(q)
           \/ OkNotAppended(q)
  BY <1>1, <1>5, <1>6
  DEF WorkflowSucceeds, WorkflowFails, RecoverySent, RecoveryNotSent, OkNotAppended
<1>7. CASE OkAppended(q) \/ FailureSent(q) \/ FailureNotSent(q) \/ SkipAppended(q) \/ Diagnosed(q)
           \/ FailedAppended(q)
  BY <1>1, <1>2, <1>7
  DEF OkAppended, FailureSent, FailureNotSent, SkipAppended, Diagnosed, FailedAppended
<1>8. CASE FailedNotAppended(q) \/ DiagnosisThrows(q) \/ SkipNotAppended(q)
  BY <1>2, <1>3, <1>4, <1>8 DEF FailedNotAppended, DiagnosisThrows, SkipNotAppended
<1>. QED  BY <1>6, <1>7, <1>8 DEF RunStep

(* Where a run can be after its own step. *)
LEMMA MovesTo ==
  ASSUME TypeOK, NEW r \in Runs, RunStep(r)
  PROVE  /\ pc'[r] = "failed" => FailureSent(r) \/ (Diagnosed(r) /\ ~ShouldNotify(r))
         /\ pc'[r] = "undelivered" =>
              FailureSent(r) \/ (pc[r] \in {"diagnosing", "sendingFailure"} /\ UNCHANGED task)
         /\ pc'[r] = "idle" /\ pc[r] = "appendingOk" => UNCHANGED task
         /\ pc'[r] = "sendingFailure" => Diagnosed(r) /\ ShouldNotify(r)
<1>. USE DEF TypeOK
<1>1. ASSUME NEW location, Await(r, location)
      PROVE  pc'[r] = location
  BY <1>1 DEF Await
<1>2. ASSUME NEW verdict, End(r, verdict) \/ EndSkip(r, verdict)
      PROVE  pc'[r] = verdict
  BY <1>2 DEF End, EndSkip
<1>3. ASSUME Die(r) \/ Escape(r)
      PROVE  pc'[r] = "rejected"
  BY <1>2, <1>3 DEF Die, Escape
<1>5. ASSUME RecordFailed(r) \/ RecordOk(r)
      PROVE  pc'[r] \in {"rejected", "appendingFailed", "appendingOk"}
  BY <1>1, <1>3, <1>5 DEF RecordFailed, RecordOk
<1>6. CASE WorkflowSucceeds(r) \/ WorkflowFails(r) \/ RecoverySent(r) \/ RecoveryNotSent(r)
           \/ OkNotAppended(r)
  BY <1>1, <1>5, <1>6
  DEF WorkflowSucceeds, WorkflowFails, RecoverySent, RecoveryNotSent, OkNotAppended
<1>7. CASE OkAppended(r) \/ FailureNotSent(r) \/ SkipAppended(r) \/ FailedAppended(r)
  BY <1>1, <1>2, <1>7 DEF OkAppended, FailureNotSent, SkipAppended, FailedAppended
<1>8. CASE FailedNotAppended(r) \/ DiagnosisThrows(r) \/ SkipNotAppended(r)
  BY <1>2, <1>3, <1>8 DEF FailedNotAppended, DiagnosisThrows, SkipNotAppended
<1>9. CASE FailureSent(r)
  <2>1. pc'[r] \in {"failed", "undelivered"}
    BY <1>2, <1>9 DEF FailureSent
  <2>. QED  BY <1>9, <2>1
<1>10. CASE Diagnosed(r)
  <2>1. CASE ~ShouldNotify(r) /\ End(r, "failed")
    BY <1>2, <1>10, <2>1
  <2>2. CASE ShouldNotify(r) /\ End(r, "undelivered")
    BY <1>2, <1>10, <2>2 DEF Diagnosed
  <2>3. CASE ShouldNotify(r) /\ Await(r, "sendingFailure")
    BY <1>1, <1>10, <2>3
  <2>. QED  BY <1>10, <2>1, <2>2, <2>3 DEF Diagnosed
<1>. QED  BY <1>6, <1>7, <1>8, <1>9, <1>10 DEF RunStep

(* What a run writes to the task are its own fields. *)
LEMMA OwnFields ==
  ASSUME SInv, NEW r \in Runs, RunStep(r)
  PROVE  /\ task' = None <=> task = None
         /\ task # None => task'.enabled = task.enabled /\ task'.policy = task.policy
<1>. USE DEF SInv
<1>1. CASE task = None
  BY <1>1
  DEF RunStep, WorkflowSucceeds, WorkflowFails, RecoverySent, RecoveryNotSent, OkAppended,
      OkNotAppended, FailedAppended, FailedNotAppended, SkipAppended, SkipNotAppended, Diagnosed,
      DiagnosisThrows, FailureSent, FailureNotSent, RecordOk, RecordFailed
<1>2. CASE task # None
  <2>1. task \in Tasks /\ task.failures \in Nat /\ task.notified \in Nat \cup {None}
    BY <1>2 DEF TypeOK, Tasks
  <2>2. \/ UNCHANGED task
        \/ /\ pc[r] \notin Ended
           /\ \E failures \in Nat, notified \in Nat \cup {None} :
                task' = Patched(r, failures, notified)
    <3>1. CASE pc[r] \in Ended
      BY <3>1
      DEF RunStep, WorkflowSucceeds, WorkflowFails, RecoverySent, RecoveryNotSent, OkAppended,
          OkNotAppended, FailedAppended, FailedNotAppended, SkipAppended, SkipNotAppended,
          Diagnosed, DiagnosisThrows, FailureSent, FailureNotSent, Ended
    <3>2. CASE pc[r] \notin Ended
      <4>1. run[r].task.failures + 1 \in Nat /\ run[r].at \in Nat /\ 0 \in Nat
        BY <3>2, LocalsTyped DEF Tasks
      <4>. QED
        BY <1>2, <2>1, <3>2, <4>1
        DEF RunStep, WorkflowSucceeds, WorkflowFails, RecoverySent, RecoveryNotSent, OkAppended,
            OkNotAppended, FailedAppended, FailedNotAppended, SkipAppended, SkipNotAppended,
            Diagnosed, DiagnosisThrows, FailureSent, FailureNotSent, RecordOk, RecordFailed
    <3>. QED  BY <3>1, <3>2
  <2>3. CASE UNCHANGED task
    BY <2>3
  <2>4. ASSUME NEW failures \in Nat, NEW notified \in Nat \cup {None},
               task' = Patched(r, failures, notified)
        PROVE  task' # None /\ task'.enabled = task.enabled /\ task'.policy = task.policy
    BY <2>1, <2>4, PatchedTyped, NoneIsNull
  <2>. QED  BY <1>2, <2>2, <2>3, <2>4
<1>. QED  BY <1>1, <1>2

(* A failure card leaves the count of the task. *)
LEMMA CardKeepsCount ==
  ASSUME SInv, NEW r \in Runs, FailureSent(r), task' # None
  PROVE  task # None /\ task'.failures = task.failures
<1>1. task # None /\ task \in Tasks /\ task.failures \in Nat
  BY DEF FailureSent, SInv, TypeOK, Tasks
<1>2. task' = Patched(r, task.failures, run[r].at) /\ run[r].at \in Nat
  BY <1>1, LocalsTyped DEF FailureSent, SInv, Ended
<1>. QED  BY <1>1, <1>2, PatchedTyped

LEMMA NextStands ==
  ASSUME SInv, [Next]_vars
  PROVE  CountStands /\ CommandsStand /\ CardsStand /\ HeardStands
<1>. USE DEF SInv
<1>1. CASE UNCHANGED vars \/ Command \/ Tick
  <2>1. UNCHANGED pc
    BY <1>1 DEF vars, Command, SetEnabled, SetPolicy, Remove, Tick
  <2>. QED
    BY <2>1 DEF CountStands, CommandsStand, CardsStand, HeardStands, InProgress, Waiting
<1>2. CASE Crash
  BY <1>2 DEF Crash, Reboot, CountStands, CommandsStand, CardsStand, HeardStands, InProgress,
              Waiting, RecordStays
<1>3. ASSUME NEW q \in Runs, \/ \E force \in BOOLEAN : Begin(q, force)
                             \/ Skip(q)
      PROVE  CountStands /\ CommandsStand /\ CardsStand /\ HeardStands
  <2>1. UNCHANGED task /\ \A r \in InProgress : pc'[r] = pc[r]
    BY <1>3 DEF Begin, Skip, ReadTask, InProgress, Waiting, Ended, TypeOK
  <2>. QED
    BY <2>1 DEF CountStands, CommandsStand, CardsStand, HeardStands, InProgress, Waiting
<1>4. ASSUME NEW q \in Runs, RunStep(q)
      PROVE  CountStands /\ CommandsStand /\ CardsStand /\ HeardStands
  <2>1. CommandsStand
    BY <1>4, OwnFields DEF CommandsStand
  <2>2. CountStands
    <3>. SUFFICES ASSUME NEW r \in InProgress, run[r].alone, task' # None
                  PROVE  /\ pc[r] = "appendingOk" /\ pc'[r] = "idle" =>
                              task'.failures = 0 /\ task'.notified = None
                         /\ pc'[r] \in {"failed", "undelivered"} =>
                              task'.failures = run[r].task.failures + 1
      BY DEF CountStands
    <3>1. r \in Runs /\ pc[r] \in Waiting
      BY DEF InProgress
    <3>2. CASE r # q
      BY <1>4, <3>1, <3>2, OneMoves DEF RecordStays, Waiting
    <3>3. CASE r = q
      <4>1. CASE FailureSent(r)
        <5>1. pc[r] = "sendingFailure"
          BY <4>1 DEF FailureSent
        <5>. QED  BY <3>1, <4>1, <5>1, CardKeepsCount DEF RecordStays
      <4>2. CASE ~FailureSent(r)
        <5>1. pc'[r] = "failed" => pc[r] = "diagnosing" /\ UNCHANGED task
          BY <1>4, <3>1, <3>3, <4>2, MovesTo DEF Diagnosed
        <5>. QED  BY <1>4, <3>1, <3>3, <4>2, <5>1, MovesTo DEF RecordStays
      <4>. QED  BY <4>1, <4>2
    <3>. QED  BY <3>2, <3>3
  <2>3. CardsStand
    <3>. SUFFICES ASSUME NEW r \in InProgress, card # None, card.alone, run[r].alone,
                         run[r].task.policy = "on-change",
                         pc[r] = "diagnosing", pc'[r] = "sendingFailure"
                  PROVE  run[r].at - card.at >= Throttle
      BY DEF CardsStand
    <3>1. r \in Runs /\ r = q
      BY <1>4, OneMoves DEF InProgress
    <3>2. ShouldNotify(r)
      BY <1>4, <3>1, MovesTo
    <3>3. run[r].task.failures # 0 /\ run[r].task.notified = card.at
      BY DEF RunsAgree, Agrees
    <3>4. card.at \in Nat /\ run[r].at \in Nat
      BY <3>1, LocalsTyped DEF TypeOK, Cards, Ended
    <3>. QED  BY <3>2, <3>3, <3>4, SchedulerAssumption DEF ShouldNotify, Throttled
  <2>4. HeardStands
    <3>. SUFFICES ASSUME NEW r \in InProgress, pc'[r] = "failed", ShouldNotify(r)
                  PROVE  card' = [at |-> run[r].at, alone |-> run[r].alone]
      BY DEF HeardStands
    <3>1. r \in Runs /\ r = q
      BY <1>4, OneMoves DEF InProgress, Waiting
    <3>2. FailureSent(r)
      BY <1>4, <3>1, MovesTo
    <3>. QED  BY <3>2 DEF FailureSent
  <2>. QED  BY <2>1, <2>2, <2>3, <2>4
<1>. QED  BY <1>1, <1>2, <1>3, <1>4 DEF Next

(* A run that nothing overlaps counts its verdict exactly. *)
THEOREM CountIsExact == Spec => CountFollowsVerdict
<1>1. SInv /\ [Next]_vars => [CountStands]_vars
  BY NextStands
<1>2. [][CountStands]_vars => CountFollowsVerdict
  BY PTL DEF CountFollowsVerdict, CountStands
<1>. QED  BY <1>1, <1>2, SchedulerInvariance, PTL DEF Spec

(* No run undoes a command. *)
THEOREM CommandsStick == Spec => RunsKeepCommands
<1>1. SInv /\ [Next]_vars => [CommandsStand]_vars
  BY NextStands
<1>2. [][CommandsStand]_vars => RunsKeepCommands
  BY PTL DEF RunsKeepCommands, CommandsStand
<1>. QED  BY <1>1, <1>2, SchedulerInvariance, PTL DEF Spec

(* Under "on-change" the cards of a streak of failures are the throttle apart. *)
THEOREM ThrottleHolds == Spec => CardsAreThrottled
<1>1. SInv /\ [Next]_vars => [CardsStand]_vars
  BY NextStands
<1>2. [][CardsStand]_vars => CardsAreThrottled
  BY PTL DEF CardsAreThrottled, CardsStand
<1>. QED  BY <1>1, <1>2, SchedulerInvariance, PTL DEF Spec

(* No failure that should be told of ends in silence. *)
THEOREM FailureHeard == Spec => FailureIsHeard
<1>1. SInv /\ [Next]_vars => [HeardStands]_vars
  BY NextStands
<1>2. [][HeardStands]_vars => FailureIsHeard
  BY PTL DEF FailureIsHeard, HeardStands
<1>. QED  BY <1>1, <1>2, SchedulerInvariance, PTL DEF Spec

-----------------------------------------------------------------------------
(* The work of the tasks (TaskKinds): the entries of gitlab-follow.        *)

FollowMove ==
  \/ \E r \in Ticks : Starts(r) \/ SearchFails(r) \/ FollowStep(r)
  \/ \E i \in Issues : DevelopmentEnds(i)
  \/ \E i \in Issues, note \in UserNotes : Comment(i, note)
  \/ GitLabDies
StockMove ==
  \/ \E c \in Calls : StockCommand(c) \/ Reply(c)
  \/ \E chat \in Chats, code \in Codes : BindAgain(chat, code)
  \/ \E r \in Watchers : Begins(r) \/ Watch(r)
  \/ NewDay \/ StockDies

LEMMA KindsMoves ==
  ASSUME [KindsNext]_kindsVars
  PROVE  /\ UNCHANGED room
         /\ \/ FollowMove /\ UNCHANGED stockVars
            \/ StockMove /\ UNCHANGED gitlabVars
            \/ UNCHANGED <<gitlabVars, stockVars>>
<1>. USE KindsAssumption DEF Follows, Stocks, Free, Counted
<1>1. CASE UNCHANGED kindsVars
  BY <1>1 DEF kindsVars
<1>2. CASE TimerTicks \/ ForcedTick \/ RunFails \/ (\E r \in Ticks : RunGoesOn(r))
  BY <1>2 DEF TimerTicks, ForcedTick, RunFails, RunGoesOn, FollowMove
<1>3. CASE Develops \/ UserActs \/ FollowDies
  BY <1>3 DEF Develops, UserActs, FollowDies, FollowMove
<1>4. CASE CommandBegins \/ CommandGoesOn \/ BindsAgain
  BY <1>4 DEF CommandBegins, CommandGoesOn, BindsAgain, StockMove
<1>5. CASE WatchBegins \/ WatchGoesOn \/ DayTurns \/ StockCrash
  BY <1>5 DEF WatchBegins, WatchGoesOn, DayTurns, StockCrash, StockMove
<1>. QED
  BY <1>1, <1>2, <1>3, <1>4, <1>5 DEF KindsNext

Places == {"idle", "searching", "next", "cloning", "reading", "analyzing", "postingPlan",
           "planPosted", "readingReply", "naming", "postingBranch", "branchPosted", "readingChoice",
           "addingWorktree", "added", "pushing", "pushed"}
Todos  == UNION {[some -> Statuses] : some \in SUBSET Issues}

FollowTyped ==
  /\ status \in [Issues -> Statuses] /\ notes \in [Issues -> Seq(BotNotes \cup UserNotes)]
  /\ room \in [Issues -> Rooms]
  /\ clone \in [Issues -> {"none", "partial", "whole"}] /\ begun \in [Issues -> Nat]
  /\ worktree \subseteq Issues /\ working \subseteq Issues
  /\ pushed \subseteq Issues /\ finished \subseteq Issues
  /\ tick \in [Ticks -> [pc : Places, todo : Todos, issue : Issues \cup {NoIssue}]]
  /\ \A r \in Ticks : tick[r].pc \notin {"idle", "searching", "next"} => tick[r].issue \in Issues

LEMMA RestingIsTyped ==
  Resting \in [pc : Places, todo : Todos, issue : Issues \cup {NoIssue}] /\ DOMAIN Resting.todo = {}
<1>1. <<>> \in [{} -> Statuses]
  OBVIOUS
<1>2. <<>> \in Todos
  BY <1>1 DEF Todos
<1>3. DOMAIN <<>> = {}
  OBVIOUS
<1>. QED
  BY <1>2, <1>3 DEF Resting, Places

LEMMA AwaitIsAPlace == \A s : AwaitOf(s) \in Places
BY DEF AwaitOf, Places

LEMMA LessToDo ==
  ASSUME NEW f \in Todos, NEW i
  PROVE  /\ Without(f, i) \in Todos /\ DOMAIN Without(f, i) = DOMAIN f \ {i} /\ DOMAIN f \subseteq Issues
         /\ \A j \in DOMAIN f : f[j] \in Statuses
         /\ \A j \in DOMAIN f \ {i} : Without(f, i)[j] = f[j]
<1>1. PICK some \in SUBSET Issues : f \in [some -> Statuses]
  BY DEF Todos
<1>2. Without(f, i) \in [some \ {i} -> Statuses]
  BY <1>1 DEF Without
<1>. QED
  BY <1>1, <1>2 DEF Without, Todos

(* The runs go on from place to place. *)
LEMMA GoIsTyped ==
  ASSUME FollowTyped, NEW r \in Ticks, NEW place \in Places, Go(r, place),
         place \in {"idle", "searching", "next"} \/ Issue(r) \in Issues
  PROVE  /\ tick' \in [Ticks -> [pc : Places, todo : Todos, issue : Issues \cup {NoIssue}]]
         /\ \A q \in Ticks : tick'[q].pc \notin {"idle", "searching", "next"} => tick'[q].issue \in Issues
         /\ tick'[r].pc = place
         /\ \A q \in Ticks : tick'[q].todo = tick[q].todo /\ tick'[q].issue = tick[q].issue
         /\ \A q \in Ticks \ {r} : tick'[q] = tick[q]
BY DEF FollowTyped, Go, Issue

LEMMA SetIsTyped ==
  ASSUME FollowTyped, NEW i \in Issues, NEW s \in Statuses, Set(i, s)
  PROVE  status' \in [Issues -> Statuses] /\ status'[i] = s /\ \A j \in Issues \ {i} : status'[j] = status[j]
BY DEF FollowTyped, Set

LEMMA FollowInit == KindsInit => FollowTyped
<1>. SUFFICES ASSUME KindsInit PROVE FollowTyped
  OBVIOUS
<1>1. <<>> \in Seq(BotNotes \cup UserNotes)
  OBVIOUS
<1>2. "none" \in Statuses /\ 0 \in Nat
  BY DEF Statuses
<1>3. Resting.pc = "idle"
  BY DEF Resting
<1>. QED
  BY <1>1, <1>2, <1>3, RestingIsTyped DEF KindsInit, GitLabInit, FollowTyped

LEMMA FollowStepTyped ==
  ASSUME FollowTyped, FollowMove, UNCHANGED room
  PROVE  FollowTyped'
<1>. USE DEF remoteVars, diskVars, workVars
<1>s. Statuses = {"none", "discovered", "cloning", "analyzing", "proposed", "branch_proposed",
             "executing", "pushing", "done", "rejected", "failed"}
  BY DEF Statuses
<1>1. ASSUME NEW r \in Ticks, Starts(r) \/ SearchFails(r)
      PROVE  FollowTyped'
  <2>1. \E place \in {"searching", "idle"} : Go(r, place)
    BY <1>1 DEF Starts, SearchFails
  <2>2. PICK place \in {"searching", "idle"} : Go(r, place)
    BY <2>1
  <2>3. UNCHANGED <<status, notes, clone, begun, worktree, working, pushed, finished>>
    BY <1>1 DEF Starts, SearchFails
  <2>4. place \in Places
    BY DEF Places
  <2>. QED
    BY <2>2, <2>3, <2>4, GoIsTyped DEF FollowTyped
<1>2. ASSUME NEW r \in Ticks, NEW found \in SUBSET Issues, Found(r, found)
      PROVE  FollowTyped'
  <2>1. status' \in [Issues -> Statuses]
    BY <1>2, <1>s DEF Found, Ensured, FollowTyped
  <2>2. [i \in Active(status') |-> status'[i]] \in Todos
    <3>1. Active(status') \in SUBSET Issues
      BY DEF Active
    <3>2. \A i \in Active(status') : status'[i] \in Statuses
      BY <2>1, <3>1
    <3>3. [i \in Active(status') |-> status'[i]] \in [Active(status') -> Statuses]
      BY <3>2
    <3>. QED
      BY <3>1, <3>3 DEF Todos
  <2>3. [pc |-> "next", issue |-> NoIssue, todo |-> [i \in Active(status') |-> status'[i]]]
          \in [pc : Places, todo : Todos, issue : Issues \cup {NoIssue}]
    BY <2>2 DEF Places
  <2>. QED
    BY <1>2, <2>1, <2>3 DEF Found, FollowTyped
<1>3. ASSUME NEW r \in Ticks, RunEnds(r)
      PROVE  FollowTyped'
  BY <1>3, RestingIsTyped DEF RunEnds, FollowTyped, Resting
<1>4. ASSUME NEW r \in Ticks, NEW s \in Statuses, Issue(r) \in Issues, Leave(r, s),
             UNCHANGED <<notes, clone, worktree, pushed, finished>>,
             working' \subseteq Issues, begun' \in [Issues -> Nat]
      PROVE  FollowTyped'
  <2>1. "next" \in Places
    BY DEF Places
  <2>. QED
    BY <1>4, <2>1, GoIsTyped, SetIsTyped DEF Leave, FollowTyped
<1>5. ASSUME NEW r \in Ticks, tick[r].pc \notin {"idle", "searching", "next"}
      PROVE  Issue(r) \in Issues
  BY <1>5 DEF FollowTyped, Issue
<1>6. ASSUME NEW r \in Ticks, NEW place \in Places, Issue(r) \in Issues, Go(r, place), UNCHANGED <<begun, working, finished>>,
             status' \in [Issues -> Statuses], notes' \in [Issues -> Seq(BotNotes \cup UserNotes)],
             clone' \in [Issues -> {"none", "partial", "whole"}], worktree' \subseteq Issues, pushed' \subseteq Issues
      PROVE  FollowTyped'
  BY <1>6, GoIsTyped DEF FollowTyped
<1>7. ASSUME NEW i \in Issues, NEW note \in BotNotes \cup UserNotes, Says(i, note)
      PROVE  notes' \in [Issues -> Seq(BotNotes \cup UserNotes)]
  BY <1>7 DEF Says, FollowTyped
<1>8. ASSUME NEW r \in Ticks, StepThrows(r)
      PROVE  FollowTyped'
  <2>1. "failed" \in Statuses
    BY <1>s
  <2>. QED
    BY <1>8, <1>4, <1>5, <2>1 DEF StepThrows, FollowTyped
<1>9. ASSUME NEW r \in Ticks, Cloned(r)
      PROVE  FollowTyped'
  <2>1. Issue(r) \in Issues
    BY <1>9, <1>5 DEF Cloned, At
  <2>2. clone' \in [Issues -> {"none", "partial", "whole"}]
    BY <1>9 DEF Cloned, FollowTyped
  <2>3. Go(r, "next") /\ status' \in [Issues -> Statuses]
    BY <1>9, <2>1, SetIsTyped, <1>s DEF Cloned, Leave
  <2>4. "next" \in Places
    BY DEF Places
  <2>. QED
    BY <1>9, <2>1, <2>2, <2>3, <2>4, <1>6 DEF Cloned, FollowTyped
<1>10. ASSUME NEW r \in Ticks, Analyze(r) \/ Answers(r) \/ NoteArrives(r)
       PROVE  FollowTyped'
  <2>1. Issue(r) \in Issues
    BY <1>10, <1>5 DEF Analyze, Answers, NoteArrives, At
  <2>2. status' \in [Issues -> Statuses]
    BY <1>10, <2>1, SetIsTyped, <1>s DEF Analyze, Answers, NoteArrives, FollowTyped
  <2>3. "plan" \in BotNotes \cup UserNotes /\ "branch" \in BotNotes \cup UserNotes
    BY DEF BotNotes
  <2>4. notes' \in [Issues -> Seq(BotNotes \cup UserNotes)]
    BY <1>10, <2>1, <1>7, <2>3 DEF Analyze, Answers, NoteArrives, FollowTyped
  <2>5. \E place \in Places : Go(r, place)
    BY <1>10 DEF Analyze, Answers, NoteArrives, Places
  <2>. QED
    BY <1>10, <1>6, <2>1, <2>2, <2>4, <2>5 DEF Analyze, Answers, NoteArrives, FollowTyped
<1>11. ASSUME NEW r \in Ticks, Posted(r) \/ PushReturns(r)
       PROVE  FollowTyped'
  <2>1. Issue(r) \in Issues
    BY <1>11, <1>5 DEF Posted, PushReturns, At
  <2>2. \E s \in Statuses : Leave(r, s)
    BY <1>11, <1>s DEF Posted, PushReturns
  <2>. QED
    BY <1>11, <1>4, <2>1, <2>2 DEF Posted, PushReturns, FollowTyped
<1>12. ASSUME NEW r \in Ticks, CheckProposed(r) \/ CheckBranch(r)
       PROVE  FollowTyped'
  <2>1. Issue(r) \in Issues
    BY <1>12, <1>5 DEF CheckProposed, CheckBranch, Heard, At
  <2>2. status' \in [Issues -> Statuses]
    BY <1>12, <2>1, SetIsTyped, <1>s DEF CheckProposed, CheckBranch, Heard, Leave, FollowTyped
  <2>3. \E place \in Places : Go(r, place)
    BY <1>12 DEF CheckProposed, CheckBranch, Heard, Leave, Places
  <2>. QED
    BY <1>12, <1>6, <2>1, <2>2, <2>3 DEF CheckProposed, CheckBranch, Heard, FollowTyped
<1>13. ASSUME NEW r \in Ticks, WorktreeAdded(r) \/ PushArrives(r)
       PROVE  FollowTyped'
  <2>1. Issue(r) \in Issues
    BY <1>13, <1>5 DEF WorktreeAdded, PushArrives, At
  <2>2. \E place \in Places : Go(r, place)
    BY <1>13 DEF WorktreeAdded, PushArrives, Places
  <2>. QED
    BY <1>13, <1>6, <2>1, <2>2 DEF WorktreeAdded, PushArrives, FollowTyped
<1>14. ASSUME NEW r \in Ticks, Execute(r)
       PROVE  FollowTyped'
  <2>1. Issue(r) \in Issues
    BY <1>14, <1>5 DEF Execute, At
  <2>2. \E s \in Statuses : Leave(r, s)
    BY <1>14, <1>s DEF Execute
  <2>3. working' \subseteq Issues /\ begun' \in [Issues -> Nat]
    <3>1. working' \in {working, working \cup {Issue(r)}} /\ begun' \in {begun, [begun EXCEPT ![Issue(r)] = @ + 1]}
      BY <1>14 DEF Execute
    <3>2. working \subseteq Issues /\ begun \in [Issues -> Nat]
      BY DEF FollowTyped
    <3>. QED
      BY <2>1, <3>1, <3>2
  <2>. QED
    BY <1>14, <1>4, <2>1, <2>2, <2>3 DEF Execute, FollowTyped
<1>15. ASSUME NEW r \in Ticks, NEW i \in Issues, Advance(r, i) \/ AdvanceCloned(r, i) \/ AdvanceInVain(r, i)
       PROVE  FollowTyped'
  <2>1. PICK place \in Places : Takes(r, i, place)
    BY <1>15, AwaitIsAPlace DEF Advance, AdvanceCloned, AdvanceInVain, Places
  <2>2. tick[r].todo \in Todos
    BY DEF FollowTyped
  <2>3. [pc |-> place, todo |-> Without(tick[r].todo, i), issue |-> i] \in [pc : Places, todo : Todos, issue : Issues \cup {NoIssue}]
    BY <2>2, LessToDo
  <2>4. status' \in [Issues -> Statuses]
    BY <1>15, SetIsTyped, <1>s DEF Advance, AdvanceCloned, AdvanceInVain, FollowTyped
  <2>5. /\ tick' \in [Ticks -> [pc : Places, todo : Todos, issue : Issues \cup {NoIssue}]]
        /\ \A q \in Ticks : tick'[q].pc \notin {"idle", "searching", "next"} => tick'[q].issue \in Issues
    BY <2>1, <2>3 DEF Takes, FollowTyped
  <2>. QED
    BY <2>1, <2>4, <2>5 DEF Takes, FollowTyped
<1>16. ASSUME NEW i \in Issues, DevelopmentEnds(i) \/ \E note \in UserNotes : Comment(i, note)
       PROVE  FollowTyped'
  <2>1. CASE DevelopmentEnds(i)
    BY <2>1, SetIsTyped, <1>s DEF DevelopmentEnds, FollowTyped
  <2>2. CASE \E note \in UserNotes : Comment(i, note)
    BY <2>2, <1>7 DEF Comment, FollowTyped
  <2>. QED
    BY <1>16, <2>1, <2>2
<1>17. CASE GitLabDies
  BY <1>17, RestingIsTyped DEF GitLabDies, FollowTyped, Resting
<1>. QED
  BY <1>1, <1>2, <1>3, <1>8, <1>9, <1>10, <1>11, <1>12, <1>13, <1>14, <1>15, <1>16, <1>17
     DEF FollowMove, FollowStep

-----------------------------------------------------------------------------
(* The issues with a plan, a plan that was agreed to, a branch after it, and the answer to that. *)
Planned  == {i \in Issues : \E p \in DOMAIN notes[i] : notes[i][p] = "plan"}
Agreed   == {i \in Issues : \E p, q \in DOMAIN notes[i] : p < q /\ notes[i][p] = "plan" /\ notes[i][q] = "yes"}
Branched == {i \in Issues : \E k \in DOMAIN notes[i] : BranchNamed(i, k)}
Settled  == {i \in Issues : Confirmed(i)}

(* A branch is named after a plan was agreed to. *)
BranchesNamed == \A i \in Issues : \A k \in DOMAIN notes[i] : notes[i][k] = "branch" => BranchNamed(i, k)

(* The statuses an entry can have come to, and the places a run can be at with it. *)
Earned == [i \in Issues |-> {s \in Statuses :
  /\ s = "proposed" => i \in Planned
  /\ s = "branch_proposed" => i \in Branched
  /\ s = "pushing" => i \in Settled \cap finished
  /\ s \notin {"none", "discovered", "rejected", "failed", "done"} => clone[i] # "none"}]
Open == [i \in Issues |-> {place \in Places :
  /\ place \in {"planPosted", "readingReply"} => i \in Planned
  /\ place \in {"naming", "postingBranch"} => i \in Agreed
  /\ place \in {"branchPosted", "readingChoice"} => i \in Branched
  /\ place \in {"addingWorktree", "added", "pushing", "pushed"} => i \in Settled
  /\ place \in {"pushing", "pushed"} => i \in finished
  /\ place = "added" => i \in worktree
  /\ place # "cloning" => clone[i] # "none"}]
Elsewhere == {"idle", "searching", "next"}

EntriesInv ==
  /\ \A i \in Issues : status[i] \in Earned[i]
  /\ \A r \in Ticks : \A i \in DOMAIN tick[r].todo : tick[r].todo[i] \in Earned[i]
  /\ \A r \in Ticks : tick[r].pc \notin Elsewhere => tick[r].pc \in Open[tick[r].issue]
  /\ \A i \in worktree : clone[i] = "whole" /\ i \in Settled
  /\ working \subseteq worktree
  /\ pushed \subseteq Settled \cap finished
  /\ BranchesNamed

(* Nothing that was said, finished or cloned is taken back. *)
Grows ==
  /\ \A i \in Issues : \A k \in DOMAIN notes[i] : k \in DOMAIN notes'[i] /\ notes'[i][k] = notes[i][k]
  /\ UNCHANGED room /\ finished \subseteq finished' /\ worktree \subseteq worktree'
  /\ \A i \in Issues : (clone[i] # "none" => clone'[i] # "none") /\ (clone[i] = "whole" => clone'[i] = "whole")

LEMMA Remains ==
  ASSUME Grows
  PROVE  /\ Planned \subseteq Planned' /\ Agreed \subseteq Agreed'
         /\ Branched \subseteq Branched' /\ Settled \subseteq Settled'
         /\ \A i \in Issues : Earned[i] \subseteq Earned'[i] /\ Open[i] \subseteq Open'[i]
<1>1. Planned \subseteq Planned'
  BY DEF Grows, Planned
<1>2. Agreed \subseteq Agreed'
  BY DEF Grows, Agreed
<1>3. Branched \subseteq Branched'
  BY DEF Grows, Branched, BranchNamed
<1>4. Settled \subseteq Settled'
  BY DEF Grows, Settled, Confirmed, BranchNamed
<1>5. \A i \in Issues : Earned[i] \subseteq Earned'[i]
  BY <1>1, <1>3, <1>4 DEF Grows, Earned
<1>6. \A i \in Issues : Open[i] \subseteq Open'[i]
  BY <1>1, <1>2, <1>3, <1>4 DEF Grows, Open
<1>. QED
  BY <1>1, <1>2, <1>3, <1>4, <1>5, <1>6

LEMMA SaysGrows ==
  ASSUME FollowTyped, NEW i \in Issues, NEW note, Says(i, note)
  PROVE  /\ \A j \in Issues : \A k \in DOMAIN notes[j] : k \in DOMAIN notes'[j] /\ notes'[j][k] = notes[j][k]
         /\ Len(notes[i]) + 1 \in DOMAIN notes'[i] /\ notes'[i][Len(notes[i]) + 1] = note
         /\ DOMAIN notes[i] = 1 .. Len(notes[i])
<1>1. notes[i] \in Seq(BotNotes \cup UserNotes) /\ notes'[i] = Append(notes[i], note)
  BY DEF FollowTyped, Says
<1>2. \A j \in Issues \ {i} : notes'[j] = notes[j]
  BY DEF FollowTyped, Says
<1>3. /\ DOMAIN notes[i] = 1 .. Len(notes[i]) /\ DOMAIN notes'[i] = 1 .. Len(notes[i]) + 1
      /\ notes'[i][Len(notes[i]) + 1] = note
      /\ \A k \in 1 .. Len(notes[i]) : notes'[i][k] = notes[i][k]
  BY <1>1
<1>. QED
  BY <1>1, <1>2, <1>3

LEMMA FollowGrows ==
  ASSUME FollowTyped, FollowMove, UNCHANGED room
  PROVE  Grows
<1>. USE DEF remoteVars, diskVars, workVars
<1>1. ASSUME NEW r \in Ticks, NoteArrives(r)
      PROVE  Grows
  <2>1. Issue(r) \in Issues
    BY <1>1 DEF NoteArrives, At, Issue, FollowTyped
  <2>. QED
    BY <1>1, <2>1, SaysGrows DEF NoteArrives, Grows
<1>2. ASSUME NEW i \in Issues, NEW note, Comment(i, note)
      PROVE  Grows
  BY <1>2, SaysGrows DEF Comment, Grows
<1>3. ASSUME NEW r \in Ticks, Cloned(r) \/ WorktreeAdded(r)
      PROVE  Grows
  BY <1>3 DEF Cloned, WorktreeAdded, Grows, FollowTyped
<1>4. ASSUME NEW i \in Issues, DevelopmentEnds(i)
      PROVE  Grows
  BY <1>4 DEF DevelopmentEnds, Grows
<1>5. CASE GitLabDies
  BY <1>5 DEF GitLabDies, Grows
<1>6. ASSUME UNCHANGED <<notes, finished, worktree, clone>>
      PROVE  Grows
  BY <1>6 DEF Grows
<1>7. ASSUME NEW r \in Ticks, Starts(r) \/ SearchFails(r) \/ (\E found \in SUBSET Issues : Found(r, found)) \/ RunEnds(r) \/ StepThrows(r)
      PROVE  Grows
  BY <1>7, <1>6 DEF Starts, SearchFails, Found, RunEnds, StepThrows
<1>8. ASSUME NEW r \in Ticks, Analyze(r) \/ Answers(r) \/ Posted(r) \/ CheckProposed(r) \/ CheckBranch(r)
      PROVE  Grows
  BY <1>8, <1>6 DEF Analyze, Answers, Posted, CheckProposed, CheckBranch, Heard
<1>9. ASSUME NEW r \in Ticks, Execute(r) \/ PushArrives(r) \/ PushReturns(r)
             \/ \E i \in Issues : Advance(r, i) \/ AdvanceCloned(r, i) \/ AdvanceInVain(r, i)
      PROVE  Grows
  BY <1>9, <1>6 DEF Execute, PushArrives, PushReturns, Advance, AdvanceCloned, AdvanceInVain, Takes
<1>. QED
  BY <1>1, <1>2, <1>3, <1>4, <1>5, <1>7, <1>8, <1>9 DEF FollowMove, FollowStep

LEMMA HeardIsAgreed ==
  ASSUME FollowTyped, BranchesNamed, NEW i \in Issues, HasReply(i), ~ Refused(i)
  PROVE  i \in Agreed /\ (i \in Branched => i \in Settled)
<1>1. PICK k \in DOMAIN notes[i] : notes[i][k] \in UserNotes /\ k <= room[i] /\ \A l \in Posts(i) : l < k
  BY DEF HasReply, Replies, Comments, Page
<1>2. notes[i][k] = "yes"
  BY <1>1 DEF Refused, Replies, Comments, Page, UserNotes
<1>3. \A l \in DOMAIN notes[i] : notes[i][l] \in {"plan", "branch"} /\ l <= room[i] => l < k
  BY <1>1 DEF Posts, Page, BotNotes
<1>4. DOMAIN notes[i] \subseteq Nat /\ room[i] \in Nat
  <2>1. notes[i] \in Seq(BotNotes \cup UserNotes) /\ room[i] \in Rooms
    BY DEF FollowTyped
  <2>2. \A seq \in Seq(BotNotes \cup UserNotes) : DOMAIN seq \subseteq Nat
    OBVIOUS
  <2>. QED
    BY <2>1, <2>2, GitLabAssumption
(* A note of the bot on the page is a plan, or a branch after one. *)
<1>5. PICK l \in DOMAIN notes[i] : notes[i][l] \in {"plan", "branch"} /\ l <= room[i]
  BY DEF HasReply, Posts, Page, BotNotes
<1>6. i \in Agreed
  <2>1. CASE notes[i][l] = "plan"
    BY <1>1, <1>2, <1>3, <1>5, <2>1 DEF Agreed
  <2>2. CASE notes[i][l] = "branch"
    BY <1>5, <2>2 DEF BranchesNamed, BranchNamed, Agreed
  <2>. QED
    BY <1>5, <2>1, <2>2
<1>7. ASSUME NEW u \in DOMAIN notes[i], BranchNamed(i, u)
      PROVE  Confirmed(i)
  <2>1. u > room[i] \/ u < k
    BY <1>3, <1>4, <1>7 DEF BranchNamed
  <2>. QED
    BY <1>2, <1>7, <2>1 DEF Confirmed
<1>. QED
  BY <1>6, <1>7 DEF Branched, Settled

(* A note of the bot, after what was there. *)
LEMMA PostedIsThere ==
  ASSUME FollowTyped, NEW i \in Issues
  PROVE  /\ Says(i, "plan") => i \in Planned'
         /\ Says(i, "branch") /\ i \in Agreed => i \in Branched'
<1>1. ASSUME Says(i, "plan")
      PROVE  i \in Planned'
  BY <1>1, SaysGrows DEF Planned
<1>2. ASSUME Says(i, "branch"), i \in Agreed
      PROVE  i \in Branched'
  <2>1. PICK p, q \in DOMAIN notes[i] : p < q /\ notes[i][p] = "plan" /\ notes[i][q] = "yes"
    BY <1>2 DEF Agreed
  <2>2. q < Len(notes[i]) + 1
    BY <1>2, <2>1, SaysGrows
  <2>3. /\ p \in DOMAIN notes'[i] /\ q \in DOMAIN notes'[i] /\ notes'[i][p] = "plan" /\ notes'[i][q] = "yes"
        /\ Len(notes[i]) + 1 \in DOMAIN notes'[i] /\ notes'[i][Len(notes[i]) + 1] = "branch"
    BY <1>2, <2>1, SaysGrows
  <2>. QED
    BY <2>1, <2>2, <2>3 DEF Branched, BranchNamed
<1>. QED
  BY <1>1, <1>2

(* What is said is said by the bot that goes on from an answer, or by a user. *)
LEMMA NamedStep ==
  ASSUME FollowTyped, EntriesInv, FollowMove
  PROVE  BranchesNamed'
<1>. USE DEF remoteVars, diskVars, workVars
<1>1. ASSUME NEW i \in Issues, NEW note, Says(i, note), note = "branch" => i \in Agreed
      PROVE  BranchesNamed'
  <2>1. /\ notes' = [notes EXCEPT ![i] = Append(@, note)] /\ notes[i] \in Seq(BotNotes \cup UserNotes)
        /\ \A j \in Issues \ {i} : notes'[j] = notes[j]
    BY <1>1 DEF FollowTyped, Says
  <2>2. /\ notes'[i] = Append(notes[i], note) /\ DOMAIN notes[i] = 1 .. Len(notes[i])
        /\ Len(notes[i]) \in Nat /\ DOMAIN notes'[i] = 1 .. Len(notes[i]) + 1
    BY <2>1 DEF FollowTyped
  <2>3. /\ \A k \in 1 .. Len(notes[i]) : notes'[i][k] = notes[i][k]
        /\ notes'[i][Len(notes[i]) + 1] = note
    BY <2>1, <2>2
  <2>4. \A j \in Issues \ {i} : \A k \in DOMAIN notes'[j] : notes'[j][k] = "branch" => BranchNamed(j, k)'
    BY <2>1 DEF EntriesInv, BranchesNamed, BranchNamed
  <2>5. ASSUME NEW k \in DOMAIN notes'[i], notes'[i][k] = "branch"
        PROVE  BranchNamed(i, k)'
    <3>1. PICK p, q \in 1 .. Len(notes[i]) : p < q /\ q < k /\ notes[i][p] = "plan" /\ notes[i][q] = "yes"
      <4>1. CASE k \in 1 .. Len(notes[i])
        <5>1. notes[i][k] = "branch"
          BY <2>3, <2>5, <4>1
        <5>. QED
          BY <2>2, <4>1, <5>1 DEF EntriesInv, BranchesNamed, BranchNamed
      <4>2. CASE k = Len(notes[i]) + 1
        BY <1>1, <2>2, <2>3, <2>5, <4>2 DEF Agreed
      <4>. QED
        BY <2>2, <4>1, <4>2
    <3>. QED
      BY <2>2, <2>3, <2>5, <3>1 DEF BranchNamed
  <2>. QED
    BY <2>4, <2>5 DEF BranchesNamed
<1>2. ASSUME UNCHANGED notes
      PROVE  BranchesNamed'
  BY <1>2 DEF EntriesInv, BranchesNamed, BranchNamed
<1>3. ASSUME NEW r \in Ticks, NoteArrives(r)
      PROVE  BranchesNamed'
  <2>1. PICK i \in Issues : i = Issue(r)
    BY <1>3 DEF NoteArrives, At, Issue, FollowTyped
  <2>2. CASE At(r, "postingPlan") /\ Says(i, "plan")
    BY <2>2, <1>1
  <2>3. CASE At(r, "postingBranch") /\ Says(i, "branch")
    <3>1. "postingBranch" \in Open[i]
      BY <2>1, <2>3 DEF EntriesInv, At, Issue, Elsewhere
    <3>2. i \in Agreed
      BY <3>1 DEF Open
    <3>. QED
      BY <2>3, <3>2, <1>1
  <2>. QED
    BY <1>3, <2>1, <2>2, <2>3 DEF NoteArrives
<1>4. ASSUME NEW i \in Issues, NEW note \in UserNotes, Comment(i, note)
      PROVE  BranchesNamed'
  BY <1>4, <1>1 DEF Comment, UserNotes
<1>5. ASSUME NEW r \in Ticks, Starts(r) \/ SearchFails(r) \/ FollowStep(r), ~ NoteArrives(r)
      PROVE  BranchesNamed'
  <2>1. CASE Starts(r) \/ SearchFails(r) \/ (\E found \in SUBSET Issues : Found(r, found)) \/ RunEnds(r) \/ StepThrows(r)
    BY <2>1, <1>2 DEF Starts, SearchFails, Found, RunEnds, StepThrows
  <2>2. CASE Cloned(r) \/ Analyze(r) \/ Answers(r) \/ Posted(r) \/ CheckProposed(r) \/ CheckBranch(r)
    BY <2>2, <1>2 DEF Cloned, Analyze, Answers, Posted, CheckProposed, CheckBranch, Heard
  <2>3. CASE WorktreeAdded(r) \/ Execute(r) \/ PushArrives(r) \/ PushReturns(r)
             \/ \E i \in Issues : Advance(r, i) \/ AdvanceCloned(r, i) \/ AdvanceInVain(r, i)
    BY <2>3, <1>2 DEF WorktreeAdded, Execute, PushArrives, PushReturns, Advance, AdvanceCloned, AdvanceInVain, Takes
  <2>. QED
    BY <1>5, <2>1, <2>2, <2>3 DEF FollowStep
<1>6. ASSUME GitLabDies \/ \E i \in Issues : DevelopmentEnds(i)
      PROVE  BranchesNamed'
  BY <1>6, <1>2 DEF GitLabDies, DevelopmentEnds
<1>. QED
  BY <1>3, <1>4, <1>5, <1>6 DEF FollowMove

LEMMA EntriesStep ==
  ASSUME FollowTyped, FollowTyped', EntriesInv, FollowMove, UNCHANGED room
  PROVE  EntriesInv'
<1>. USE DEF remoteVars, diskVars, workVars
<1>g. Grows
  BY FollowGrows
<1>n. BranchesNamed'
  BY NamedStep
<1>r. /\ \A i \in Issues : Earned[i] \subseteq Earned'[i] /\ Open[i] \subseteq Open'[i]
      /\ Settled \subseteq Settled' /\ Planned \subseteq Planned' /\ Agreed \subseteq Agreed' /\ Branched \subseteq Branched'
  BY <1>g, Remains
<1>i. /\ \A r \in Ticks : \A i \in DOMAIN tick[r].todo : i \in Issues
      /\ \A r \in Ticks : tick[r].pc \notin Elsewhere => tick[r].issue \in Issues
  <2>1. \A r \in Ticks : tick[r].todo \in Todos
    BY DEF FollowTyped
  <2>. QED
    BY <2>1, LessToDo DEF FollowTyped, Elsewhere
<1>q. \A q \in Ticks : tick[q].pc \notin Elsewhere => tick[q].pc \in Open'[tick[q].issue]
  BY <1>i, <1>r DEF EntriesInv
<1>t. \A q \in Ticks : \A i \in DOMAIN tick[q].todo : tick[q].todo[i] \in Earned'[i]
  BY <1>i, <1>r DEF EntriesInv
<1>st. \A i \in Issues : status[i] \in Earned'[i]
  BY <1>r DEF EntriesInv
<1>w. working \subseteq worktree' /\ \A i \in worktree : clone'[i] = "whole" /\ i \in Settled'
  BY <1>g, <1>r DEF EntriesInv, Grows, FollowTyped
<1>p. pushed \subseteq Settled' \cap finished'
  BY <1>g, <1>r DEF EntriesInv, Grows
<1>go. ASSUME NEW r \in Ticks, \A q \in Ticks \ {r} : tick'[q] = tick[q],
              tick'[r].todo = tick[r].todo \/ \A i \in DOMAIN tick'[r].todo : tick'[r].todo[i] \in Earned'[i],
              tick'[r].pc \in Elsewhere \/ tick'[r].pc \in Open'[tick'[r].issue],
              \A i \in Issues : status'[i] = status[i] \/ status'[i] \in Earned'[i],
              \A i \in worktree' : i \in worktree \/ (clone'[i] = "whole" /\ i \in Settled'),
              working' \subseteq worktree',
              \A i \in pushed' : i \in pushed \/ i \in Settled' \cap finished'
       PROVE  EntriesInv'
  <2>1. \A i \in Issues : status'[i] \in Earned'[i]
    BY <1>st, <1>go
  <2>2. \A q \in Ticks : \A i \in DOMAIN tick'[q].todo : tick'[q].todo[i] \in Earned'[i]
    BY <1>t, <1>go
  <2>3. \A q \in Ticks : tick'[q].pc \notin Elsewhere => tick'[q].pc \in Open'[tick'[q].issue]
    BY <1>q, <1>go
  <2>4. \A i \in worktree' : clone'[i] = "whole" /\ i \in Settled'
    BY <1>w, <1>go
  <2>5. pushed' \subseteq Settled' \cap finished'
    BY <1>p, <1>go
  <2>. QED
    BY <2>1, <2>2, <2>3, <2>4, <2>5, <1>go, <1>n DEF EntriesInv
(* The run leaves an entry, or goes on within it. *)
<1>el. ASSUME NEW r \in Ticks, NEW place \in Elsewhere, Go(r, place),
              \A j \in Issues : status'[j] = status[j] \/ status'[j] \in Earned'[j],
              UNCHANGED <<worktree, pushed>>, working' \subseteq worktree'
       PROVE  EntriesInv'
  <2>0. place \in Places
    BY DEF Elsewhere, Places
  <2>1. /\ tick'[r].pc = place /\ tick'[r].todo = tick[r].todo
        /\ \A q \in Ticks \ {r} : tick'[q] = tick[q]
    BY <1>el, <2>0, GoIsTyped DEF Elsewhere
  <2>. QED
    BY <2>1, <1>el, <1>go
<1>place. ASSUME NEW r \in Ticks, NEW place \in Places, Go(r, place), Issue(r) \in Issues, place \in Open'[Issue(r)],
              \A j \in Issues : status'[j] = status[j] \/ status'[j] \in Earned'[j],
              \A j \in worktree' : j \in worktree \/ (clone'[j] = "whole" /\ j \in Settled'),
              working' \subseteq worktree',
              \A j \in pushed' : j \in pushed \/ j \in Settled' \cap finished'
       PROVE  EntriesInv'
  <2>1. /\ tick'[r].pc = place /\ tick'[r].todo = tick[r].todo /\ tick'[r].issue = tick[r].issue
        /\ \A q \in Ticks \ {r} : tick'[q] = tick[q]
    BY <1>place, GoIsTyped
  <2>2. tick'[r].pc \in Elsewhere \/ tick'[r].pc \in Open'[tick'[r].issue]
    BY <2>1, <1>place DEF Issue
  <2>. QED
    BY <2>1, <2>2, <1>place, <1>go
<1>1. ASSUME NEW r \in Ticks, Starts(r) \/ SearchFails(r)
      PROVE  EntriesInv'
  <2>1. PICK place \in Elsewhere : Go(r, place)
    BY <1>1 DEF Starts, SearchFails, Elsewhere
  <2>2. UNCHANGED <<status, worktree, working, pushed>>
    BY <1>1 DEF Starts, SearchFails
  <2>. QED
    BY <2>1, <2>2, <1>el, <1>w
<1>s. Statuses = {"none", "discovered", "cloning", "analyzing", "proposed", "branch_proposed",
             "executing", "pushing", "done", "rejected", "failed"}
  BY DEF Statuses
<1>e. \A i \in Issues : {"discovered", "failed", "rejected", "done"} \subseteq Earned'[i]
  BY <1>s DEF Earned
<1>2. ASSUME NEW r \in Ticks, NEW found \in SUBSET Issues, Found(r, found)
      PROVE  EntriesInv'
  <2>1. \A i \in Issues : status'[i] = status[i] \/ status'[i] = "discovered"
    BY <1>2 DEF Found, Ensured
  <2>2. \A i \in Issues : status'[i] \in Earned'[i]
    BY <2>1, <1>st, <1>e
  <2>3. tick'[r] = [pc |-> "next", issue |-> NoIssue, todo |-> [i \in Active(status') |-> status'[i]]]
        /\ \A q \in Ticks \ {r} : tick'[q] = tick[q]
    BY <1>2 DEF Found, FollowTyped
  <2>4. \A i \in DOMAIN tick'[r].todo : i \in Issues /\ tick'[r].todo[i] = status'[i]
    BY <2>3 DEF Active
  <2>5. \A i \in DOMAIN tick'[r].todo : tick'[r].todo[i] \in Earned'[i]
    BY <2>2, <2>4
  <2>6. tick'[r].pc \in Elsewhere
    BY <2>3 DEF Elsewhere
  <2>7. UNCHANGED <<worktree, working, pushed>>
    BY <1>2 DEF Found
  <2>. QED
    BY <2>2, <2>3, <2>5, <2>6, <2>7, <1>go, <1>w
<1>3. ASSUME NEW r \in Ticks, RunEnds(r)
      PROVE  EntriesInv'
  <2>1. tick'[r] = Resting /\ \A q \in Ticks \ {r} : tick'[q] = tick[q]
    BY <1>3 DEF RunEnds, FollowTyped
  <2>2. tick'[r].pc \in Elsewhere /\ DOMAIN tick'[r].todo = {}
    BY <2>1, RestingIsTyped DEF Resting, Elsewhere
  <2>3. UNCHANGED <<status, worktree, working, pushed>>
    BY <1>3 DEF RunEnds
  <2>. QED
    BY <2>1, <2>2, <2>3, <1>go, <1>w
(* A step of an entry ends. *)
<1>4. ASSUME NEW r \in Ticks, NEW i \in Issues, i = Issue(r), NEW s \in Statuses, Leave(r, s), s \in Earned'[i],
             UNCHANGED <<worktree, pushed>>, working' \subseteq worktree'
      PROVE  EntriesInv'
  <2>1. \A j \in Issues : status'[j] = status[j] \/ status'[j] \in Earned'[j]
    BY <1>4, SetIsTyped DEF Leave
  <2>2. Go(r, "next") /\ "next" \in Elsewhere
    BY <1>4 DEF Leave, Elsewhere
  <2>. QED
    BY <2>1, <2>2, <1>4, <1>el
<1>5. ASSUME NEW r \in Ticks, NEW place, At(r, place), place \notin Elsewhere
      PROVE  Issue(r) \in Issues /\ place \in Open[Issue(r)] /\ place \in Open'[Issue(r)]
  BY <1>5, <1>i, <1>q DEF EntriesInv, At, Issue
<1>6. ASSUME NEW r \in Ticks, StepThrows(r)
      PROVE  EntriesInv'
  <2>1. Issue(r) \in Issues
    BY <1>6, <1>i DEF StepThrows, Elsewhere, Issue
  <2>. QED
    BY <1>6, <1>4, <2>1, <1>e, <1>s, <1>w DEF StepThrows
<1>7. ASSUME NEW r \in Ticks, Cloned(r)
      PROVE  EntriesInv'
  <2>1. PICK i \in Issues : i = Issue(r)
    BY <1>7, <1>5 DEF Cloned, Elsewhere
  <2>2. clone'[i] = "whole"
    BY <1>7, <2>1 DEF Cloned, FollowTyped
  <2>3. "cloning" \in Earned'[i]
    BY <2>2, <1>s DEF Earned
  <2>. QED
    BY <1>7, <1>4, <2>1, <2>3, <1>s, <1>w DEF Cloned
<1>8. ASSUME NEW r \in Ticks, Analyze(r)
      PROVE  EntriesInv'
  <2>1. PICK i \in Issues : i = Issue(r) /\ "reading" \in Open'[i]
    BY <1>8, <1>5 DEF Analyze, Elsewhere
  <2>2. "analyzing" \in Earned'[i] /\ "analyzing" \in Open'[i]
    BY <2>1, <1>s DEF Earned, Open, Places
  <2>3. \A j \in Issues : status'[j] = status[j] \/ status'[j] \in Earned'[j]
    BY <1>8, <2>1, <2>2, <1>s, SetIsTyped DEF Analyze
  <2>4. "analyzing" \in Places
    BY DEF Places
  <2>. QED
    BY <1>8, <2>1, <2>2, <2>3, <2>4, <1>place, <1>w DEF Analyze
<1>9. ASSUME NEW r \in Ticks, Answers(r)
      PROVE  EntriesInv'
  <2>1. PICK i \in Issues : i = Issue(r)
    BY <1>9, <1>5 DEF Answers, Elsewhere
  <2>2. /\ At(r, "analyzing") => "postingPlan" \in Open'[i]
        /\ At(r, "naming") => "postingBranch" \in Open'[i]
    <3>1. ASSUME At(r, "analyzing")
          PROVE  "postingPlan" \in Open'[i]
      <4>1. "analyzing" \in Open'[i]
        BY <3>1, <2>1, <1>5 DEF Elsewhere
      <4>. QED
        BY <4>1 DEF Open, Places
    <3>2. ASSUME At(r, "naming")
          PROVE  "postingBranch" \in Open'[i]
      <4>1. "naming" \in Open'[i]
        BY <3>2, <2>1, <1>5 DEF Elsewhere
      <4>. QED
        BY <4>1 DEF Open, Places
    <3>. QED
      BY <3>1, <3>2
  <2>3. PICK place \in {"postingPlan", "postingBranch"} : Go(r, place) /\ place \in Open'[i]
    BY <1>9, <2>2 DEF Answers
  <2>4. place \in Places
    BY DEF Places
  <2>. QED
    BY <1>9, <2>1, <2>3, <2>4, <1>place, <1>w DEF Answers
<1>10. ASSUME NEW r \in Ticks, NoteArrives(r)
       PROVE  EntriesInv'
  <2>1. PICK i \in Issues : i = Issue(r)
    BY <1>10, <1>5 DEF NoteArrives, Elsewhere
  <2>2. ASSUME At(r, "postingPlan"), Says(Issue(r), "plan")
        PROVE  "planPosted" \in Open'[i]
    <3>1. i \in Planned'
      BY <2>1, <2>2, PostedIsThere
    <3>2. "postingPlan" \in Open'[i]
      BY <2>1, <2>2, <1>5 DEF Elsewhere
    <3>. QED
      BY <3>1, <3>2 DEF Open, Places
  <2>3. ASSUME At(r, "postingBranch"), Says(Issue(r), "branch")
        PROVE  "branchPosted" \in Open'[i]
    <3>1. "postingBranch" \in Open[i] /\ "postingBranch" \in Open'[i]
      BY <2>1, <2>3, <1>5 DEF Elsewhere
    <3>2. i \in Agreed
      BY <3>1 DEF Open
    <3>3. i \in Branched'
      BY <2>1, <2>3, <3>2, PostedIsThere
    <3>. QED
      BY <3>1, <3>3 DEF Open, Places
  <2>4. PICK place \in {"planPosted", "branchPosted"} : Go(r, place) /\ place \in Open'[i]
    BY <1>10, <2>2, <2>3 DEF NoteArrives
  <2>5. place \in Places
    BY DEF Places
  <2>. QED
    BY <1>10, <2>1, <2>4, <2>5, <1>place, <1>w DEF NoteArrives
<1>11. ASSUME NEW r \in Ticks, Posted(r)
       PROVE  EntriesInv'
  <2>1. PICK i \in Issues : i = Issue(r)
    BY <1>11, <1>5 DEF Posted, Elsewhere
  <2>2. /\ At(r, "planPosted") => "proposed" \in Earned'[i]
        /\ At(r, "branchPosted") => "branch_proposed" \in Earned'[i]
    <3>1. ASSUME At(r, "planPosted")
          PROVE  "proposed" \in Earned'[i]
      <4>1. "planPosted" \in Open'[i]
        BY <3>1, <2>1, <1>5 DEF Elsewhere
      <4>. QED
        BY <4>1, <1>s DEF Open, Earned
    <3>2. ASSUME At(r, "branchPosted")
          PROVE  "branch_proposed" \in Earned'[i]
      <4>1. "branchPosted" \in Open'[i]
        BY <3>2, <2>1, <1>5 DEF Elsewhere
      <4>. QED
        BY <4>1, <1>s DEF Open, Earned
    <3>. QED
      BY <3>1, <3>2
  <2>3. PICK s \in {"proposed", "branch_proposed"} : Leave(r, s) /\ s \in Earned'[i]
    BY <1>11, <2>2 DEF Posted
  <2>. QED
    BY <1>11, <2>1, <2>3, <1>4, <1>s, <1>w DEF Posted
<1>12. ASSUME NEW r \in Ticks, CheckProposed(r) \/ CheckBranch(r)
       PROVE  EntriesInv'
  <2>1. Issue(r) \in Issues /\ UNCHANGED <<worktree, working, pushed>>
    BY <1>12, <1>5 DEF CheckProposed, CheckBranch, Heard, Elsewhere
  <2>i. PICK i \in Issues : i = Issue(r)
    BY <2>1
  <2>2. CASE Go(r, "next") /\ UNCHANGED status
    <3>1. "next" \in Elsewhere
      BY DEF Elsewhere
    <3>. QED
      BY <2>1, <2>2, <3>1, <1>el, <1>w
  <2>3. CASE Leave(r, "rejected")
    BY <2>1, <2>3, <2>i, <1>4, <1>e, <1>s, <1>w
  <2>4. CASE At(r, "readingReply") /\ HasReply(Issue(r)) /\ ~ Refused(Issue(r)) /\ Go(r, "naming") /\ UNCHANGED status
    <3>1. "readingReply" \in Open[i] /\ "readingReply" \in Open'[i]
      BY <2>4, <2>i, <1>5 DEF Elsewhere
    <3>2. i \in Agreed'
      BY <2>4, <2>i, <3>1, <1>r, HeardIsAgreed DEF Open, EntriesInv
    <3>3. "naming" \in Open'[i]
      BY <3>1, <3>2 DEF Open, Places
    <3>4. "naming" \in Places
      BY DEF Places
    <3>. QED
      BY <2>1, <2>4, <2>i, <3>3, <3>4, <1>place, <1>w
  <2>5. CASE At(r, "readingChoice") /\ HasReply(Issue(r)) /\ ~ Refused(Issue(r)) /\ Go(r, "addingWorktree") /\ UNCHANGED status
    <3>1. "readingChoice" \in Open[i] /\ "readingChoice" \in Open'[i]
      BY <2>5, <2>i, <1>5 DEF Elsewhere
    <3>2. i \in Settled'
      BY <2>5, <2>i, <3>1, <1>r, HeardIsAgreed DEF Open, EntriesInv
    <3>3. "addingWorktree" \in Open'[i]
      BY <3>1, <3>2 DEF Open, Places
    <3>4. "addingWorktree" \in Places
      BY DEF Places
    <3>. QED
      BY <2>1, <2>5, <2>i, <3>3, <3>4, <1>place, <1>w
  <2>. QED
    BY <1>12, <2>2, <2>3, <2>4, <2>5 DEF CheckProposed, CheckBranch, Heard
<1>13. ASSUME NEW r \in Ticks, WorktreeAdded(r)
       PROVE  EntriesInv'
  <2>1. PICK i \in Issues : i = Issue(r) /\ "addingWorktree" \in Open'[i]
    BY <1>13, <1>5 DEF WorktreeAdded, Elsewhere
  <2>2. i \in Settled' /\ clone'[i] = "whole" /\ worktree' = worktree \cup {i}
    BY <1>13, <2>1 DEF Open, WorktreeAdded
  <2>3. "added" \in Open'[i]
    BY <2>1, <2>2 DEF Open, Places
  <2>4. "added" \in Places
    BY DEF Places
  <2>. QED
    BY <1>13, <2>1, <2>2, <2>3, <2>4, <1>place, <1>w DEF WorktreeAdded
<1>14. ASSUME NEW r \in Ticks, Execute(r)
       PROVE  EntriesInv'
  <2>1. PICK i \in Issues : i = Issue(r) /\ "added" \in Open'[i]
    BY <1>14, <1>5 DEF Execute, Elsewhere
  <2>2. working' \subseteq worktree' /\ "executing" \in Earned'[i]
    BY <1>14, <1>w, <2>1, <1>s DEF Execute, Open, Earned
  <2>3. PICK s \in {"executing", "failed"} : Leave(r, s)
    BY <1>14 DEF Execute
  <2>. QED
    BY <1>14, <2>1, <2>2, <2>3, <1>4, <1>e, <1>s DEF Execute
<1>15. ASSUME NEW r \in Ticks, PushArrives(r)
       PROVE  EntriesInv'
  <2>1. PICK i \in Issues : i = Issue(r) /\ "pushing" \in Open'[i]
    BY <1>15, <1>5 DEF PushArrives, Elsewhere
  <2>2. "pushed" \in Open'[i] /\ i \in Settled' \cap finished'
    BY <2>1 DEF Open, Places
  <2>3. "pushed" \in Places
    BY DEF Places
  <2>. QED
    BY <1>15, <2>1, <2>2, <2>3, <1>place, <1>w DEF PushArrives
<1>16. ASSUME NEW r \in Ticks, PushReturns(r)
       PROVE  EntriesInv'
  <2>1. PICK i \in Issues : i = Issue(r)
    BY <1>16, <1>5 DEF PushReturns, Elsewhere
  <2>. QED
    BY <1>16, <1>4, <2>1, <1>e, <1>s, <1>w DEF PushReturns
<1>17. ASSUME NEW r \in Ticks, NEW i \in Issues, NEW place, Takes(r, i, place), place \in Elsewhere \/ place \in Open'[i],
              UNCHANGED <<worktree, working, pushed>>,
              \A j \in Issues : status'[j] = status[j] \/ status'[j] \in Earned'[j]
       PROVE  EntriesInv'
  <2>1. tick'[r] = [pc |-> place, todo |-> Without(tick[r].todo, i), issue |-> i] /\ \A q \in Ticks \ {r} : tick'[q] = tick[q]
    BY <1>17 DEF Takes, FollowTyped
  <2>2. tick[r].todo \in Todos
    BY DEF FollowTyped
  <2>3. \A j \in DOMAIN tick'[r].todo : tick'[r].todo[j] \in Earned'[j]
    <3>1. /\ DOMAIN tick'[r].todo = DOMAIN tick[r].todo \ {i}
          /\ \A j \in DOMAIN tick[r].todo \ {i} : tick'[r].todo[j] = tick[r].todo[j]
      <4>1. /\ DOMAIN Without(tick[r].todo, i) = DOMAIN tick[r].todo \ {i}
            /\ \A j \in DOMAIN tick[r].todo \ {i} : Without(tick[r].todo, i)[j] = tick[r].todo[j]
        BY <2>2, LessToDo
      <4>2. tick'[r].todo = Without(tick[r].todo, i)
        BY <2>1
      <4>. QED
        BY <4>1, <4>2
    <3>. QED
      BY <3>1, <1>t
  <2>4. tick'[r].pc \in Elsewhere \/ tick'[r].pc \in Open'[tick'[r].issue]
    BY <2>1, <1>17
  <2>. QED
    BY <1>17, <2>1, <2>3, <2>4, <1>go, <1>w
<1>18. ASSUME NEW r \in Ticks, NEW i \in Issues, Advance(r, i)
       PROVE  EntriesInv'
  <2>1. tick[r].todo[i] \in Earned'[i]
    BY <1>18, <1>t DEF Advance
  <2>2. AwaitOf(tick[r].todo[i]) \in Elsewhere \/ AwaitOf(tick[r].todo[i]) \in Open'[i]
    BY <2>1 DEF Open, Earned, AwaitOf, Elsewhere, Places
  <2>3. UNCHANGED <<status, worktree, working, pushed>> /\ Takes(r, i, AwaitOf(tick[r].todo[i]))
    BY <1>18 DEF Advance, Takes
  <2>. QED
    BY <1>17, <2>2, <2>3
<1>19. ASSUME NEW r \in Ticks, NEW i \in Issues, AdvanceCloned(r, i) \/ AdvanceInVain(r, i)
       PROVE  EntriesInv'
  <2>1. clone[i] # "none" => "cloning" \in Earned'[i]
    BY <1>g, <1>s DEF Earned, Grows
  <2>2. \A j \in Issues : status'[j] = status[j] \/ status'[j] \in Earned'[j]
    BY <1>19, <2>1, <1>e, <1>s, SetIsTyped DEF AdvanceCloned, AdvanceInVain
  <2>3. Takes(r, i, "next") /\ "next" \in Elsewhere
    BY <1>19 DEF AdvanceCloned, AdvanceInVain, Elsewhere
  <2>4. UNCHANGED <<worktree, working, pushed>>
    BY <2>3 DEF Takes
  <2>. QED
    BY <2>2, <2>3, <2>4, <1>17
<1>20. ASSUME UNCHANGED tick, \A i \in Issues : status'[i] = status[i] \/ status'[i] \in Earned'[i],
              UNCHANGED <<worktree, pushed>>, working' \subseteq working
       PROVE  EntriesInv'
  BY <1>20, <1>st, <1>q, <1>t, <1>w, <1>p, <1>n DEF EntriesInv
<1>21. ASSUME NEW i \in Issues, DevelopmentEnds(i)
       PROVE  EntriesInv'
  <2>1. i \in Settled' /\ clone'[i] = "whole"
    BY <1>21, <1>w DEF DevelopmentEnds, EntriesInv
  <2>2. i \in finished' => "pushing" \in Earned'[i]
    BY <2>1, <1>s DEF Earned
  <2>3. \A j \in Issues : status'[j] = status[j] \/ status'[j] \in Earned'[j]
    BY <1>21, <2>2, <1>e, <1>s, SetIsTyped DEF DevelopmentEnds
  <2>. QED
    BY <1>21, <2>3, <1>20 DEF DevelopmentEnds
<1>22. ASSUME NEW i \in Issues, NEW note, Comment(i, note)
       PROVE  EntriesInv'
  BY <1>22, <1>20 DEF Comment
<1>23. CASE GitLabDies
  <2>1. \A r \in Ticks : tick'[r] = Resting
    BY <1>23 DEF GitLabDies
  <2>2. \A r \in Ticks : tick'[r].pc \in Elsewhere /\ DOMAIN tick'[r].todo = {}
    BY <2>1, RestingIsTyped DEF Resting, Elsewhere
  <2>3. UNCHANGED <<status, worktree, pushed>> /\ working' = {}
    BY <1>23 DEF GitLabDies
  <2>. QED
    BY <2>2, <2>3, <1>st, <1>w, <1>p, <1>n DEF EntriesInv
<1>. QED
  BY <1>1, <1>2, <1>3, <1>6, <1>7, <1>8, <1>9, <1>10, <1>11, <1>12, <1>13, <1>14, <1>15, <1>16, <1>18, <1>19, <1>21, <1>22, <1>23
     DEF FollowMove, FollowStep

-----------------------------------------------------------------------------
(* Who made the worktree of an issue has its development to begin, and nobody else. *)
OnceInv ==
  /\ \A i \in Issues : begun[i] <= 1 /\ (i \notin worktree => begun[i] = 0)
  /\ \A r \in Ticks : tick[r].pc = "added" => tick[r].issue \in worktree /\ begun[tick[r].issue] = 0
  /\ \A r, q \in Ticks : tick[r].pc = "added" /\ tick[q].pc = "added" /\ tick[r].issue = tick[q].issue => r = q

LEMMA OnceStep ==
  ASSUME FollowTyped, FollowTyped', OnceInv, FollowMove
  PROVE  OnceInv'
<1>. USE DEF remoteVars, diskVars, workVars
<1>1. ASSUME UNCHANGED <<begun, worktree>>,
             \A q \in Ticks : tick'[q].pc = "added" => tick[q].pc = "added" /\ tick'[q].issue = tick[q].issue
      PROVE  OnceInv'
  BY <1>1 DEF OnceInv, FollowTyped
<1>2. ASSUME NEW r \in Ticks, NEW place \in Places, Go(r, place), place # "added", UNCHANGED <<begun, worktree>>
      PROVE  OnceInv'
  <2>1. tick'[r].pc # "added" /\ \A q \in Ticks \ {r} : tick'[q] = tick[q]
    BY <1>2 DEF Go, FollowTyped
  <2>. QED
    BY <1>1, <1>2, <2>1
<1>3. ASSUME NEW r \in Ticks, NEW new, new.pc # "added", tick' = [tick EXCEPT ![r] = new], UNCHANGED <<begun, worktree>>
      PROVE  OnceInv'
  <2>1. tick'[r].pc # "added" /\ \A q \in Ticks \ {r} : tick'[q] = tick[q]
    BY <1>3 DEF FollowTyped
  <2>. QED
    BY <1>1, <1>3, <2>1
<1>4. ASSUME NEW r \in Ticks, WorktreeAdded(r)
      PROVE  OnceInv'
  <2>1. PICK i \in Issues : i = tick[r].issue
    BY <1>4 DEF WorktreeAdded, At, FollowTyped
  <2>2. /\ tick'[r].pc = "added" /\ tick'[r].issue = i /\ \A q \in Ticks \ {r} : tick'[q] = tick[q]
        /\ i \notin worktree /\ worktree' = worktree \cup {i} /\ begun' = begun
    BY <1>4, <2>1 DEF WorktreeAdded, Go, FollowTyped, Issue
  <2>3. \A q \in Ticks \ {r} : tick'[q].pc = "added" => tick'[q].issue \in worktree
    BY <2>2 DEF OnceInv
  <2>4. \A q \in Ticks : tick'[q].pc = "added" => tick'[q].issue \in worktree' /\ begun'[tick'[q].issue] = 0
    BY <2>2, <2>3 DEF OnceInv
  <2>5. \A q, p \in Ticks : tick'[q].pc = "added" /\ tick'[p].pc = "added" /\ tick'[q].issue = tick'[p].issue => q = p
    BY <2>2, <2>3 DEF OnceInv
  <2>6. \A j \in Issues : begun'[j] <= 1 /\ (j \notin worktree' => begun'[j] = 0)
    BY <2>2 DEF OnceInv
  <2>. QED
    BY <2>4, <2>5, <2>6 DEF OnceInv
<1>5. ASSUME NEW r \in Ticks, Execute(r)
      PROVE  OnceInv'
  <2>1. PICK i \in Issues : i = tick[r].issue
    BY <1>5 DEF Execute, At, FollowTyped
  <2>2. tick'[r].pc = "next" /\ \A q \in Ticks \ {r} : tick'[q] = tick[q]
    BY <1>5 DEF Execute, Leave, Go, FollowTyped
  <2>3. UNCHANGED worktree /\ (UNCHANGED begun \/ begun' = [begun EXCEPT ![i] = @ + 1])
    BY <1>5, <2>1 DEF Execute, Issue
  <2>4. CASE UNCHANGED begun
    BY <2>2, <2>3, <2>4, <1>1
  <2>5. CASE begun' = [begun EXCEPT ![i] = @ + 1]
    <3>1. i \in worktree /\ begun[i] = 0 /\ tick[r].pc = "added"
      BY <1>5, <2>1 DEF OnceInv, Execute, At
    <3>2. begun'[i] = 1 /\ \A j \in Issues \ {i} : begun'[j] = begun[j]
      BY <2>5, <3>1 DEF FollowTyped
    <3>3. \A q \in Ticks : tick'[q].pc = "added" => tick[q].pc = "added" /\ tick'[q].issue = tick[q].issue /\ tick[q].issue # i
      BY <2>1, <2>2, <3>1 DEF OnceInv
    <3>4. \A q \in Ticks : tick'[q].pc = "added" => tick'[q].issue \in worktree' /\ begun'[tick'[q].issue] = 0
      BY <2>3, <3>2, <3>3 DEF OnceInv, FollowTyped
    <3>5. \A j \in Issues : begun'[j] <= 1 /\ (j \notin worktree' => begun'[j] = 0)
      BY <2>3, <3>1, <3>2 DEF OnceInv
    <3>6. \A q, p \in Ticks : tick'[q].pc = "added" /\ tick'[p].pc = "added" /\ tick'[q].issue = tick'[p].issue => q = p
      BY <3>3 DEF OnceInv
    <3>. QED
      BY <3>4, <3>5, <3>6 DEF OnceInv
  <2>. QED
    BY <2>3, <2>4, <2>5
<1>p. Places \ {"added"} = {"idle", "searching", "next", "cloning", "reading", "analyzing", "postingPlan",
           "planPosted", "readingReply", "naming", "postingBranch", "branchPosted", "readingChoice",
           "addingWorktree", "pushing", "pushed"}
  BY DEF Places
<1>6. ASSUME NEW r \in Ticks, Starts(r) \/ SearchFails(r) \/ StepThrows(r) \/ Cloned(r) \/ Analyze(r) \/ Answers(r)
      PROVE  OnceInv'
  <2>1. PICK place \in {"searching", "idle", "next", "analyzing", "postingPlan", "postingBranch"} : Go(r, place)
    BY <1>6 DEF Starts, SearchFails, StepThrows, Cloned, Analyze, Answers, Leave
  <2>2. UNCHANGED <<begun, worktree>>
    BY <1>6 DEF Starts, SearchFails, StepThrows, Cloned, Analyze, Answers
  <2>. QED
    BY <2>1, <2>2, <1>2, <1>p
<1>7. ASSUME NEW r \in Ticks, NoteArrives(r) \/ Posted(r) \/ CheckProposed(r) \/ CheckBranch(r)
      PROVE  OnceInv'
  <2>1. PICK place \in {"planPosted", "branchPosted", "next", "naming", "addingWorktree"} : Go(r, place)
    BY <1>7 DEF NoteArrives, Posted, CheckProposed, CheckBranch, Heard, Leave
  <2>2. UNCHANGED <<begun, worktree>>
    BY <1>7 DEF NoteArrives, Posted, CheckProposed, CheckBranch, Heard
  <2>. QED
    BY <2>1, <2>2, <1>2, <1>p
<1>8. ASSUME NEW r \in Ticks, PushArrives(r) \/ PushReturns(r)
      PROVE  OnceInv'
  <2>1. PICK place \in {"pushed", "next"} : Go(r, place)
    BY <1>8 DEF PushArrives, PushReturns, Leave
  <2>2. UNCHANGED <<begun, worktree>>
    BY <1>8 DEF PushArrives, PushReturns
  <2>. QED
    BY <2>1, <2>2, <1>2, <1>p
<1>9. ASSUME NEW r \in Ticks, (\E found \in SUBSET Issues : Found(r, found)) \/ RunEnds(r)
             \/ \E i \in Issues : Advance(r, i) \/ AdvanceCloned(r, i) \/ AdvanceInVain(r, i)
      PROVE  OnceInv'
  <2>1. \A s : AwaitOf(s) # "added"
    BY DEF AwaitOf
  <2>2. UNCHANGED <<begun, worktree>>
    BY <1>9 DEF Found, RunEnds, Advance, AdvanceCloned, AdvanceInVain, Takes
  <2>3. \E new : new.pc # "added" /\ tick' = [tick EXCEPT ![r] = new]
    BY <1>9, <2>1 DEF Found, RunEnds, Advance, AdvanceCloned, AdvanceInVain, Takes, Resting
  <2>. QED
    BY <2>2, <2>3, <1>3
<1>10. ASSUME NEW i \in Issues, DevelopmentEnds(i) \/ \E note \in UserNotes : Comment(i, note)
       PROVE  OnceInv'
  <2>1. UNCHANGED <<begun, worktree, tick>>
    BY <1>10 DEF DevelopmentEnds, Comment
  <2>. QED
    BY <2>1, <1>1
<1>11. CASE GitLabDies
  <2>1. \A q \in Ticks : tick'[q].pc # "added"
    BY <1>11 DEF GitLabDies, Resting
  <2>. QED
    BY <1>11, <2>1, <1>1 DEF GitLabDies
<1>. QED
  BY <1>4, <1>5, <1>6, <1>7, <1>8, <1>9, <1>10, <1>11 DEF FollowMove, FollowStep

FollowInv == FollowTyped /\ EntriesInv /\ OnceInv

LEMMA FollowBegins == KindsInit => FollowInv
<1>. SUFFICES ASSUME KindsInit PROVE FollowInv
  OBVIOUS
<1>1. FollowTyped
  BY FollowInit
<1>2. \A r \in Ticks : tick[r].pc = "idle" /\ DOMAIN tick[r].todo = {}
  BY RestingIsTyped DEF KindsInit, GitLabInit, Resting
<1>3. \A i \in Issues : status[i] \in Earned[i]
  BY DEF KindsInit, GitLabInit, Earned, Statuses
<1>4. worktree = {} /\ working = {} /\ pushed = {}
  BY DEF KindsInit, GitLabInit
<1>5. EntriesInv
  <2>1. \A i \in Issues : DOMAIN notes[i] = {}
    BY DEF KindsInit, GitLabInit
  <2>. QED
    BY <1>2, <1>3, <1>4, <2>1 DEF EntriesInv, BranchesNamed, Elsewhere
<1>6. \A i \in Issues : begun[i] = 0
  BY DEF KindsInit, GitLabInit
<1>. QED
  BY <1>1, <1>2, <1>5, <1>6 DEF FollowInv, OnceInv

LEMMA FollowKept == FollowInv /\ [KindsNext]_kindsVars => FollowInv'
<1>. SUFFICES ASSUME FollowInv, [KindsNext]_kindsVars PROVE FollowInv'
  OBVIOUS
<1>0. UNCHANGED room
  BY KindsMoves
<1>1. CASE FollowMove
  BY <1>0, <1>1, FollowStepTyped, EntriesStep, OnceStep DEF FollowInv
<1>2. CASE UNCHANGED gitlabVars
  <2>. USE <1>0, <1>2 DEF gitlabVars
  <2>1. FollowTyped'
    BY DEF FollowInv, FollowTyped
  <2>2. Planned' = Planned /\ Agreed' = Agreed /\ Branched' = Branched /\ Settled' = Settled
    BY DEF Planned, Agreed, Branched, Settled, Confirmed, BranchNamed
  <2>3. Earned' = Earned /\ Open' = Open
    BY <2>2 DEF Earned, Open
  <2>4. EntriesInv'
    BY <2>2, <2>3 DEF FollowInv, EntriesInv, BranchesNamed, BranchNamed
  <2>5. OnceInv'
    BY DEF FollowInv, OnceInv
  <2>. QED
    BY <2>1, <2>4, <2>5 DEF FollowInv
<1>. QED
  BY <1>1, <1>2, KindsMoves

LEMMA FollowAlways == KindsSpec => []FollowInv
BY FollowBegins, FollowKept, PTL DEF KindsSpec

(* No worktree is made and nothing is pushed for an issue unless a user agreed to a plan  *)
(* and then to a branch, for any number of issues, of overlapping runs and of deaths      *)
(* (gitlab-follow-kind.ts, stepCheckProposed and stepCheckBranch).                        *)
THEOREM OnlyConfirmedIsDeveloped == KindsSpec => []DevelopedIsConfirmed
<1>1. FollowInv => DevelopedIsConfirmed
  BY DEF FollowInv, EntriesInv, DevelopedIsConfirmed, Settled
<1>. QED
  BY <1>1, FollowAlways, PTL

(* The development of an issue is begun once, whatever runs and deaths overlap: who made *)
(* the worktree begins it, and no worktree is made twice (stepCheckBranch).               *)
THEOREM IsDevelopedOnce == KindsSpec => []DevelopedOnce
<1>1. FollowInv => DevelopedOnce
  BY DEF FollowInv, OnceInv, DevelopedOnce
<1>. QED
  BY <1>1, FollowAlways, PTL

(* What is pushed is what an agent has finished, for any number of issues, of overlapping *)
(* runs and of deaths (runExecution, stepPush).                                            *)
THEOREM OnlyFinishedIsPushed == KindsSpec => []PushedIsFinished
<1>1. FollowInv => PushedIsFinished
  BY DEF FollowInv, EntriesInv, PushedIsFinished
<1>. QED
  BY <1>1, FollowAlways, PTL

-----------------------------------------------------------------------------
(* The work of the tasks (TaskKinds): stocks.                              *)
CallRows == [pc : {"idle", "binding", "unbinding", "setting", "bound", "unbound"},
             chat : Chats \cup {Nothing}, data : Stores \cup {Nothing}]
WatchRows == [pc : {"idle", "quoting", "marking", "sending", "pricing", "saving", "quotingAdvice", "asking", "telling"},
              chat : Chats \cup {Nothing}, date : Days, codes : SUBSET Codes, todo : SUBSET Conditions,
              report : SUBSET Conditions, data : Stores \cup {Nothing}]
StockTyped ==
  /\ store \in Stores /\ disk \in Stores /\ today \in 1 .. MaxDay /\ cut \in BOOLEAN
  /\ monitor \in [Chats -> {"none", "on", "off"}]
  /\ marks \subseteq Marks /\ pruned \subseteq Marks /\ told \in [Marks -> 0 .. 2]
  /\ call \in [Calls -> CallRows] /\ watch \in [Watchers -> WatchRows]
  /\ \A c \in Calls : /\ call[c].pc # "idle" => call[c].data \in Stores
                      /\ call[c].pc \in {"binding", "bound"} => call[c].chat \in Chats
  /\ \A r \in Watchers : /\ watch[r].pc \in {"quoting", "marking", "sending"} => watch[r].chat \in Chats
                         /\ watch[r].pc = "saving" => watch[r].data \in Stores

LEMMA DaysAreNumbers ==
  /\ 1 \in Days /\ 1 \in 1 .. MaxDay /\ \A d \in 1 .. MaxDay : d \in Days /\ d + 1 \in Days
  /\ \A d \in 1 .. MaxDay : d < MaxDay => d + 1 \in 1 .. MaxDay
BY StockAssumption DEF Days

LEMMA NothingIsTyped == NoCall \in CallRows /\ NoRun \in WatchRows
BY DaysAreNumbers DEF NoCall, NoRun, CallRows, WatchRows

LEMMA StockInitTyped == KindsInit => StockTyped
<1>. SUFFICES ASSUME KindsInit PROVE StockTyped
  OBVIOUS
<1>1. \A c \in Calls : call[c] = NoCall
  BY DEF KindsInit, StockInit
<1>2. \A r \in Watchers : watch[r] = NoRun
  BY DEF KindsInit, StockInit
<1>3. call \in [Calls -> CallRows] /\ watch \in [Watchers -> WatchRows]
  BY <1>1, <1>2, NothingIsTyped DEF KindsInit, StockInit
<1>4. (\A c \in Calls : call[c].pc = "idle") /\ \A r \in Watchers : watch[r].pc = "idle"
  BY <1>1, <1>2 DEF NoCall, NoRun
<1>5. /\ store \in Stores /\ disk \in Stores /\ today \in 1 .. MaxDay /\ cut \in BOOLEAN
      /\ monitor \in [Chats -> {"none", "on", "off"}]
      /\ marks \subseteq Marks /\ pruned \subseteq Marks
  BY DaysAreNumbers DEF KindsInit, StockInit
<1>6. told \in [Marks -> 0 .. 2]
  BY DEF KindsInit, StockInit
<1>. QED
  BY <1>3, <1>4, <1>5, <1>6 DEF StockTyped

(* A command changes the memory and has its text to write. *)
LEMMA StockWrites ==
  ASSUME StockTyped, NEW c \in Calls, StockCommand(c)
  PROVE  \E place \in {"binding", "unbinding", "setting"}, chat \in Chats \cup {Nothing}, new \in Stores :
           /\ Writes(c, place, chat, new)
           /\ place = "binding" => chat \in Chats
           /\ place # "binding" => new.subs \subseteq store.subs
<1>s. store.subs \subseteq Codes /\ store.held \in [Codes -> (SUBSET Levels) \cup {Nothing}]
      /\ store = [subs |-> store.subs, held |-> store.held]
  BY DEF StockTyped, Stores
<1>1. ASSUME NEW code \in Codes, NEW chat \in Chats, Bind(c, chat, code)
      PROVE  Writes(c, "binding", chat, [store EXCEPT !.subs = @ \cup {code}])
             /\ [store EXCEPT !.subs = @ \cup {code}] \in Stores
  BY <1>1, <1>s DEF Bind, Stores
<1>2. ASSUME NEW code \in Codes, Unbind(c, code)
      PROVE  /\ Writes(c, "unbinding", Nothing, [store EXCEPT !.subs = @ \ {code}])
             /\ [store EXCEPT !.subs = @ \ {code}] \in Stores
             /\ [store EXCEPT !.subs = @ \ {code}].subs \subseteq store.subs
  BY <1>2, <1>s DEF Unbind, Stores
<1>3. ASSUME NEW code \in Codes, NEW levels \in (SUBSET Levels) \cup {Nothing}
      PROVE  /\ [store EXCEPT !.held[code] = levels] \in Stores
             /\ [store EXCEPT !.held[code] = levels].subs = store.subs
  BY <1>3, <1>s DEF Stores
<1>4. ASSUME NEW code \in Codes, ClearPortfolio(c, code)
      PROVE  Writes(c, "setting", Nothing, [store EXCEPT !.held[code] = Nothing])
  BY <1>4 DEF ClearPortfolio
<1>5. ASSUME NEW code \in Codes, NEW levels \in SUBSET Levels, SetPortfolio(c, code, levels) \/ UnsetField(c, code, levels)
      PROVE  Writes(c, "setting", Nothing, [store EXCEPT !.held[code] = levels])
  BY <1>5 DEF SetPortfolio, UnsetField
<1>6. CASE \E code \in Codes, chat \in Chats : Bind(c, chat, code)
  BY <1>6, <1>1
<1>7. CASE \E code \in Codes : Unbind(c, code)
  BY <1>7, <1>2
<1>8. CASE \E code \in Codes : ClearPortfolio(c, code)
  BY <1>8, <1>4, <1>3
<1>9. CASE \E code \in Codes, levels \in SUBSET Levels : SetPortfolio(c, code, levels) \/ UnsetField(c, code, levels)
  BY <1>9, <1>5, <1>3
<1>. QED
  BY <1>6, <1>7, <1>8, <1>9 DEF StockCommand

LEMMA StockStepTyped ==
  ASSUME StockTyped, StockMove
  PROVE  StockTyped'
<1>. USE DEF shared, records
<1>0. Conditions = Codes \X Levels
  BY DEF Conditions
(* What happens to one command, and to one run. *)
<1>c. ASSUME NEW c \in Calls, NEW new \in CallRows, call' = [call EXCEPT ![c] = new],
             new.pc # "idle" => new.data \in Stores, new.pc \in {"binding", "bound"} => new.chat \in Chats,
             store' \in Stores, disk' \in Stores, monitor' \in [Chats -> {"none", "on", "off"}], cut' \in BOOLEAN,
             UNCHANGED <<marks, today, watch, told, pruned>>
      PROVE  StockTyped'
  BY <1>c DEF StockTyped
<1>r. ASSUME NEW r \in Watchers, NEW new \in WatchRows, watch' = [watch EXCEPT ![r] = new],
             new.pc \in {"quoting", "marking", "sending"} => new.chat \in Chats, new.pc = "saving" => new.data \in Stores,
             disk' \in Stores, marks' \subseteq Marks, pruned' \subseteq Marks, told' \in [Marks -> 0 .. 2],
             UNCHANGED <<store, shared>>
      PROVE  StockTyped'
  BY <1>r DEF StockTyped
<1>t. /\ store \in Stores /\ disk \in Stores /\ cut \in BOOLEAN /\ monitor \in [Chats -> {"none", "on", "off"}]
      /\ marks \subseteq Marks /\ pruned \subseteq Marks /\ told \in [Marks -> 0 .. 2] /\ today \in 1 .. MaxDay
      /\ \A c \in Calls : call[c] \in CallRows
      /\ \A r \in Watchers : watch[r] \in WatchRows
  BY DEF StockTyped
<1>n. /\ NoCall \in CallRows /\ NoRun \in WatchRows /\ NoCall.pc = "idle" /\ NoRun.pc = "idle"
  BY NothingIsTyped DEF NoCall, NoRun
<1>1. ASSUME NEW c \in Calls, StockCommand(c)
      PROVE  StockTyped'
  <2>1. PICK place \in {"binding", "unbinding", "setting"}, chat \in Chats \cup {Nothing}, new \in Stores :
           Writes(c, place, chat, new) /\ (place = "binding" => chat \in Chats)
    BY <1>1, StockWrites
  <2>2. [pc |-> place, chat |-> chat, data |-> new] \in CallRows
    BY DEF CallRows
  <2>. QED
    BY <2>1, <2>2, <1>c, <1>t DEF Writes
<1>2. ASSUME NEW c \in Calls, Lands(c)
      PROVE  StockTyped'
  <2>1. call[c].data \in Stores /\ call[c] \in CallRows
    BY <1>2, <1>t DEF Lands, StockTyped
  <2>2. disk' \in Stores /\ UNCHANGED <<store, monitor, marks, today, watch, told, pruned, cut>>
    BY <1>2, <2>1 DEF Lands
  <2>3. ASSUME NEW place \in {"bound", "unbound"}, call' = [call EXCEPT ![c] = [call[c] EXCEPT !.pc = place]],
               place = "bound" => call[c].chat \in Chats
        PROVE  StockTyped'
    <3>1. [call[c] EXCEPT !.pc = place] \in CallRows /\ [call[c] EXCEPT !.pc = place].pc = place
          /\ [call[c] EXCEPT !.pc = place].data \in Stores /\ [call[c] EXCEPT !.pc = place].chat = call[c].chat
      BY <2>1 DEF CallRows
    <3>. QED
      BY <2>2, <2>3, <3>1, <1>c, <1>t
  <2>4. CASE call[c].pc = "binding"
    <3>1. call' = [call EXCEPT ![c] = [call[c] EXCEPT !.pc = "bound"]]
      BY <1>2, <2>4 DEF Lands
    <3>. QED
      BY <3>1, <2>3, <2>4 DEF StockTyped
  <2>5. CASE call[c].pc = "unbinding"
    <3>1. call' = [call EXCEPT ![c] = [call[c] EXCEPT !.pc = "unbound"]]
      BY <1>2, <2>5 DEF Lands
    <3>. QED
      BY <3>1, <2>3
  <2>6. CASE call[c].pc = "setting"
    <3>1. call' = [call EXCEPT ![c] = NoCall]
      BY <1>2, <2>6 DEF Lands
    <3>. QED
      BY <3>1, <2>2, <1>c, <1>n, <1>t
  <2>. QED
    BY <1>2, <2>4, <2>5, <2>6 DEF Lands
<1>3. ASSUME NEW c \in Calls, Written(c) \/ WriteFails(c)
      PROVE  StockTyped'
  <2>1. monitor' \in [Chats -> {"none", "on", "off"}]
    BY <1>3, <1>t DEF Written, WriteFails, MonitorAfter, Enabled, Disabled
  <2>2. call' = [call EXCEPT ![c] = NoCall] /\ UNCHANGED <<store, disk, marks, today, watch, told, pruned>> /\ cut' \in BOOLEAN
    BY <1>3, <1>t DEF Written, WriteFails, Returns
  <2>. QED
    BY <2>1, <2>2, <1>c, <1>n, <1>t
<1>4. ASSUME NEW chat \in Chats, NEW code \in Codes, BindAgain(chat, code)
      PROVE  StockTyped'
  BY <1>4 DEF BindAgain, Enabled, StockTyped
<1>5. ASSUME NEW r \in Watchers, Begins(r)
      PROVE  StockTyped'
  <2>1. ASSUME NEW chat \in Chats, Monitors(r, chat)
        PROVE  StockTyped'
    <3>1. DateOf(chat) \in Days /\ store.subs \subseteq Codes
      BY <1>t, DaysAreNumbers DEF DateOf, Stores
    <3>2. [NoRun EXCEPT !.chat = chat, !.pc = "quoting", !.date = DateOf(chat), !.codes = store.subs] \in WatchRows
      BY <3>1, <1>n DEF WatchRows
    <3>3. [NoRun EXCEPT !.chat = chat, !.pc = "quoting", !.date = DateOf(chat), !.codes = store.subs].chat = chat
          /\ [NoRun EXCEPT !.chat = chat, !.pc = "quoting", !.date = DateOf(chat), !.codes = store.subs].pc = "quoting"
      BY DEF NoRun
    <3>. QED
      BY <2>1, <3>2, <3>3, <1>r, <1>t DEF Monitors
  <2>2. ASSUME NEW place \in {"pricing", "quotingAdvice"}, Looks(r, place)
        PROVE  StockTyped'
    <3>1. [NoRun EXCEPT !.pc = place, !.codes = Held] \in WatchRows
      BY <1>n DEF WatchRows, Held
    <3>2. [NoRun EXCEPT !.pc = place, !.codes = Held].pc = place
      BY DEF NoRun
    <3>. QED
      BY <2>2, <3>1, <3>2, <1>r, <1>t DEF Looks
  <2>3. CASE Prompts(r)
    <3>1. [NoRun EXCEPT !.pc = "asking"] \in WatchRows /\ [NoRun EXCEPT !.pc = "asking"].pc = "asking"
      BY <1>n DEF WatchRows, NoRun
    <3>. QED
      BY <2>3, <3>1, <1>r, <1>t DEF Prompts
  <2>. QED
    BY <1>5, <2>1, <2>2, <2>3 DEF Begins, Snapshots, Advises
<1>6. ASSUME NEW r \in Watchers,
             (Goes(r, "sending") /\ watch[r].pc = "marking") \/ Goes(r, "asking") \/ Goes(r, "telling") \/ Ends(r),
             disk' \in Stores, marks' \subseteq Marks, pruned' \subseteq Marks, told' \in [Marks -> 0 .. 2],
             UNCHANGED <<store, shared>>
      PROVE  StockTyped'
  <2>1. CASE Ends(r)
    BY <1>6, <2>1, <1>n, <1>r DEF Ends
  <2>2. ASSUME NEW place \in {"sending", "asking", "telling"}, Goes(r, place), watch[r].pc = "marking" \/ place # "sending"
        PROVE  StockTyped'
    <3>1. [watch[r] EXCEPT !.pc = place] \in WatchRows /\ [watch[r] EXCEPT !.pc = place].pc = place
          /\ [watch[r] EXCEPT !.pc = place].chat = watch[r].chat
      BY <1>t DEF WatchRows
    <3>2. watch' = [watch EXCEPT ![r] = [watch[r] EXCEPT !.pc = place]]
      BY <2>2 DEF Goes
    <3>. QED
      BY <1>6, <2>2, <3>1, <3>2, <1>r DEF StockTyped
  <2>. QED
    BY <1>6, <2>1, <2>2
<1>7. ASSUME NEW r \in Watchers, NEW met \in SUBSET Conditions, Meets(r, met)
      PROVE  StockTyped'
  <2>1. watch' = [watch EXCEPT ![r] = [watch[r] EXCEPT !.pc = "marking", !.todo = met]]
    BY <1>7, <1>t DEF Meets, StockTyped
  <2>2. [watch[r] EXCEPT !.pc = "marking", !.todo = met] \in WatchRows
        /\ [watch[r] EXCEPT !.pc = "marking", !.todo = met].chat = watch[r].chat
        /\ [watch[r] EXCEPT !.pc = "marking", !.todo = met].pc = "marking"
    BY <1>t DEF WatchRows
  <2>3. watch[r].chat \in Chats
    BY <1>7 DEF Meets, StockTyped
  <2>. QED
    BY <1>7, <2>1, <2>2, <2>3, <1>r, <1>t DEF Meets
<1>m. ASSUME NEW r \in Watchers, NEW condition \in Conditions, watch[r].chat \in Chats
      PROVE  MarkOf(r, condition) \in Marks
  BY <1>m, <1>t DEF MarkOf, Marks, WatchRows
<1>8. ASSUME NEW r \in Watchers, NEW condition \in Conditions, Mark(r, condition)
      PROVE  StockTyped'
  <2>1. watch[r].chat \in Chats /\ watch[r].pc = "marking"
    BY <1>8 DEF Mark, StockTyped
  <2>2. marks' \subseteq Marks /\ pruned' \subseteq Marks
    BY <1>8, <2>1, <1>m, <1>t DEF Mark, OfDate
  <2>3. PICK report \in SUBSET Conditions :
          watch' = [watch EXCEPT ![r].todo = @ \ {condition}, ![r].report = report]
    BY <1>8, <1>t DEF Mark, WatchRows
  <2>4. watch' = [watch EXCEPT ![r] = [watch[r] EXCEPT !.todo = @ \ {condition}, !.report = report]]
    BY <2>3, <1>t DEF StockTyped
  <2>5. [watch[r] EXCEPT !.todo = @ \ {condition}, !.report = report] \in WatchRows
        /\ [watch[r] EXCEPT !.todo = @ \ {condition}, !.report = report].pc = "marking"
        /\ [watch[r] EXCEPT !.todo = @ \ {condition}, !.report = report].chat = watch[r].chat
    BY <2>1, <1>t DEF WatchRows
  <2>. QED
    BY <1>8, <2>1, <2>2, <2>4, <2>5, <1>r, <1>t DEF Mark
<1>9. ASSUME NEW r \in Watchers, Marked(r) \/ Advised(r) \/ Answered(r) \/ Told(r) \/ Throws(r)
      PROVE  StockTyped'
  <2>1. (Goes(r, "sending") /\ watch[r].pc = "marking") \/ Goes(r, "asking") \/ Goes(r, "telling") \/ Ends(r)
    BY <1>9 DEF Marked, Advised, Answered, Told, Throws
  <2>2. UNCHANGED <<store, disk, shared, records>>
    BY <1>9 DEF Marked, Advised, Answered, Told, Throws
  <2>. QED
    BY <2>1, <2>2, <1>6, <1>t
<1>10. ASSUME NEW r \in Watchers, Sent(r)
       PROVE  StockTyped'
  <2>1. told' \in [Marks -> 0 .. 2]
    BY <1>10, <1>t DEF Sent
  <2>. QED
    BY <1>10, <2>1, <1>n, <1>r, <1>t DEF Sent, Ends
<1>11. ASSUME NEW r \in Watchers, Priced(r)
       PROVE  StockTyped'
  <2>1. watch' = [watch EXCEPT ![r] = [watch[r] EXCEPT !.pc = "saving", !.data = store]]
    BY <1>11, <1>t DEF Priced, StockTyped
  <2>2. [watch[r] EXCEPT !.pc = "saving", !.data = store] \in WatchRows
        /\ [watch[r] EXCEPT !.pc = "saving", !.data = store].data = store
        /\ [watch[r] EXCEPT !.pc = "saving", !.data = store].pc = "saving"
    BY <1>t DEF WatchRows
  <2>. QED
    BY <1>11, <2>1, <2>2, <1>r, <1>t DEF Priced
<1>12. ASSUME NEW r \in Watchers, Saved(r)
       PROVE  StockTyped'
  <2>1. [NoRun EXCEPT !.pc = "telling"] \in WatchRows /\ [NoRun EXCEPT !.pc = "telling"].pc = "telling"
    BY <1>n DEF WatchRows, NoRun
  <2>2. watch[r].data \in Stores
    BY <1>12 DEF Saved, StockTyped
  <2>. QED
    BY <1>12, <2>1, <2>2, <1>r, <1>t DEF Saved
<1>13. CASE NewDay
  BY <1>13, DaysAreNumbers DEF NewDay, StockTyped
<1>14. CASE StockDies
  <2>1. cut' \in BOOLEAN
    BY <1>14 DEF StockDies
  <2>2. (\A c \in Calls : call'[c] = NoCall) /\ \A r \in Watchers : watch'[r] = NoRun
    BY <1>14 DEF StockDies
  <2>3. call' \in [Calls -> CallRows] /\ watch' \in [Watchers -> WatchRows]
    BY <1>14, <1>n DEF StockDies
  <2>4. (\A c \in Calls : call'[c].pc = "idle") /\ \A r \in Watchers : watch'[r].pc = "idle"
    BY <2>2, <1>n
  <2>. QED
    BY <1>14, <2>1, <2>3, <2>4, <1>t DEF StockDies, StockTyped
<1>15. ASSUME NEW c \in Calls, Reply(c)
       PROVE  StockTyped'
  BY <1>15, <1>2, <1>3 DEF Reply
<1>16. ASSUME NEW r \in Watchers, Watch(r)
       PROVE  StockTyped'
  BY <1>16, <1>7, <1>8, <1>9, <1>10, <1>11, <1>12 DEF Watch
<1>. QED
  BY <1>1, <1>4, <1>5, <1>13, <1>14, <1>15, <1>16 DEF StockMove

(* What is subscribed to has the task of a chat, or a command that is about to enable it. *)
WatchedInv ==
  ~ cut /\ store.subs # {} =>
    \/ \E chat \in Chats : monitor[chat] = "on"
    \/ \E c \in Calls : call[c].pc \in {"binding", "bound"}

LEMMA WatchedStep ==
  ASSUME StockTyped, WatchedInv, StockMove
  PROVE  WatchedInv'
<1>. USE DEF shared, records
<1>1. ASSUME NEW c \in Calls, StockCommand(c)
      PROVE  WatchedInv'
  <2>1. PICK place \in {"binding", "unbinding", "setting"}, chat \in Chats \cup {Nothing}, new \in Stores :
           Writes(c, place, chat, new) /\ (place # "binding" => new.subs \subseteq store.subs)
    BY <1>1, StockWrites
  <2>2. /\ call[c].pc = "idle" /\ store' = new /\ UNCHANGED <<monitor, cut>>
        /\ call'[c].pc = place /\ \A d \in Calls \ {c} : call'[d] = call[d]
    BY <2>1 DEF Writes, StockTyped
  <2>3. CASE place = "binding"
    BY <2>2, <2>3 DEF WatchedInv
  <2>4. CASE place # "binding"
    BY <2>1, <2>2, <2>4 DEF WatchedInv
  <2>. QED
    BY <2>3, <2>4
<1>2. ASSUME NEW c \in Calls, Lands(c)
      PROVE  WatchedInv'
  <2>1. UNCHANGED <<store, monitor, cut>> /\ \A d \in Calls \ {c} : call'[d] = call[d]
    BY <1>2 DEF Lands, StockTyped
  <2>2. call[c].pc = "binding" => call'[c].pc = "bound"
    <3>. SUFFICES ASSUME call[c].pc = "binding" PROVE call'[c].pc = "bound"
      OBVIOUS
    <3>1. call' = [call EXCEPT ![c] = [call[c] EXCEPT !.pc = "bound"]]
      BY <1>2 DEF Lands
    <3>. QED
      BY <3>1 DEF StockTyped, CallRows
  <2>3. call[c].pc # "bound"
    BY <1>2 DEF Lands
  <2>. QED
    BY <2>1, <2>2, <2>3 DEF WatchedInv
<1>3. ASSUME NEW c \in Calls, Written(c)
      PROVE  WatchedInv'
  <2>1. UNCHANGED <<store, cut>> /\ \A d \in Calls \ {c} : call'[d] = call[d]
    BY <1>3 DEF Written, Returns, StockTyped
  <2>2. CASE call[c].pc = "bound"
    <3>1. call[c].chat \in Chats /\ monitor' = Enabled(call[c].chat)
      BY <1>3, <2>2 DEF Written, MonitorAfter, StockTyped
    <3>2. monitor'[call[c].chat] = "on"
      BY <3>1 DEF Enabled, StockTyped
    <3>. QED
      BY <3>1, <3>2 DEF WatchedInv
  <2>3. CASE call[c].pc = "unbound"
    <3>1. store.subs # {} => monitor' = monitor
      BY <1>3, <2>3 DEF Written, MonitorAfter
    <3>. QED
      BY <2>1, <2>3, <3>1 DEF WatchedInv
  <2>. QED
    BY <1>3, <2>2, <2>3 DEF Written
<1>4. ASSUME NEW c \in Calls, WriteFails(c)
      PROVE  WatchedInv'
  BY <1>4 DEF WriteFails, WatchedInv
<1>5. ASSUME NEW chat \in Chats, NEW code \in Codes, BindAgain(chat, code)
      PROVE  WatchedInv'
  <2>1. monitor'[chat] = "on"
    BY <1>5 DEF BindAgain, Enabled, StockTyped
  <2>. QED
    BY <2>1 DEF WatchedInv
<1>6. ASSUME UNCHANGED <<store, monitor, call, cut>>
      PROVE  WatchedInv'
  BY <1>6 DEF WatchedInv
<1>7. ASSUME NEW r \in Watchers, Begins(r)
      PROVE  WatchedInv'
  BY <1>7, <1>6 DEF Begins, Monitors, Snapshots, Advises, Looks, Prompts
<1>8. ASSUME NEW r \in Watchers, Watch(r)
      PROVE  WatchedInv'
  BY <1>8, <1>6 DEF Watch, Meets, Mark, Marked, Sent, Priced, Saved, Advised, Answered, Told, Throws
<1>9. CASE NewDay
  BY <1>9, <1>6 DEF NewDay
<1>10. CASE StockDies
  <2>1. ~ cut' => ~ cut /\ store' = store /\ \A c \in Calls : call[c] = NoCall
    BY <1>10 DEF StockDies
  <2>. QED
    BY <1>10, <2>1 DEF StockDies, WatchedInv, NoCall
<1>. QED
  BY <1>1, <1>2, <1>3, <1>4, <1>5, <1>7, <1>8, <1>9, <1>10 DEF StockMove, Reply

-----------------------------------------------------------------------------
(* A run is about to tell of a condition that it has marked. *)
Pending(r, m) == m.chat = watch[r].chat /\ m.date = watch[r].date /\ m.condition \in watch[r].report

MarksInv ==
  /\ \A r \in Watchers : watch[r].pc \notin {"marking", "sending"} => watch[r].report = {}
  /\ \A m \in Marks \ pruned :
       /\ told[m] <= 1
       /\ told[m] = 1 => m \in marks /\ \A r \in Watchers : ~ Pending(r, m)
       /\ \A r \in Watchers : Pending(r, m) => m \in marks
       /\ \A r, q \in Watchers : Pending(r, m) /\ Pending(q, m) => r = q

LEMMA MarksStep ==
  ASSUME StockTyped, MarksInv, StockMove
  PROVE  MarksInv'
<1>. USE DEF shared, records
<1>t. /\ \A r \in Watchers : watch[r] \in WatchRows
      /\ marks \subseteq Marks /\ told \in [Marks -> 0 .. 2]
  BY DEF StockTyped
(* Nothing is marked or told, and no run has more to tell. *)
<1>1. ASSUME UNCHANGED records,
             \A q \in Watchers : \/ watch'[q].report = {}
                                 \/ /\ watch'[q].report = watch[q].report /\ watch'[q].chat = watch[q].chat
                                    /\ watch'[q].date = watch[q].date
                                    /\ watch'[q].pc \in {"marking", "sending"} \/ watch'[q].pc = watch[q].pc
      PROVE  MarksInv'
  <2>1. \A q \in Watchers, m \in Marks : Pending(q, m)' => Pending(q, m)
    BY <1>1 DEF Pending
  <2>2. \A q \in Watchers : watch'[q].pc \notin {"marking", "sending"} => watch'[q].report = {}
    BY <1>1 DEF MarksInv
  <2>. QED
    BY <1>1, <2>1, <2>2 DEF MarksInv
<1>2. ASSUME UNCHANGED <<records, watch>>
      PROVE  MarksInv'
  BY <1>2, <1>1 DEF MarksInv
<1>3. ASSUME NEW c \in Calls, StockCommand(c) \/ Reply(c)
      PROVE  MarksInv'
  <2>1. CASE StockCommand(c)
    BY <2>1, <1>2, StockWrites DEF Writes
  <2>2. CASE Reply(c)
    BY <2>2, <1>2 DEF Reply, Lands, Written, WriteFails
  <2>. QED
    BY <1>3, <2>1, <2>2
<1>4. ASSUME NEW chat \in Chats, NEW code \in Codes, BindAgain(chat, code)
      PROVE  MarksInv'
  BY <1>4, <1>2 DEF BindAgain
<1>5. CASE NewDay
  BY <1>5, <1>2 DEF NewDay
<1>6. CASE StockDies
  <2>1. \A r \in Watchers : watch'[r].report = {}
    BY <1>6 DEF StockDies, NoRun
  <2>. QED
    BY <1>6, <2>1, <1>1 DEF StockDies
(* A run takes a row of which nothing is to be told, or goes on with its own. *)
<1>7. ASSUME NEW r \in Watchers, NEW new \in WatchRows, watch' = [watch EXCEPT ![r] = new], UNCHANGED records,
             \/ new.report = {}
             \/ /\ new.report = watch[r].report /\ new.chat = watch[r].chat /\ new.date = watch[r].date
                /\ new.pc \in {"marking", "sending"}
      PROVE  MarksInv'
  <2>1. watch'[r] = new /\ \A q \in Watchers \ {r} : watch'[q] = watch[q]
    BY <1>7 DEF StockTyped
  <2>. QED
    BY <1>7, <2>1, <1>1
<1>8. ASSUME NEW r \in Watchers, Begins(r)
      PROVE  MarksInv'
  <2>1. \A q \in Watchers \ {r} : watch'[q] = watch[q]
    BY <1>8 DEF Begins, Monitors, Snapshots, Advises, Looks, Prompts, StockTyped
  <2>2. ASSUME NEW chat, Monitors(r, chat)
        PROVE  watch'[r].report = {}
    BY <2>2 DEF Monitors, StockTyped, NoRun
  <2>3. ASSUME NEW place, Looks(r, place)
        PROVE  watch'[r].report = {}
    BY <2>3 DEF Looks, StockTyped, NoRun
  <2>4. Prompts(r) => watch'[r].report = {}
    BY DEF Prompts, StockTyped, NoRun
  <2>5. watch'[r].report = {}
    BY <1>8, <2>2, <2>3, <2>4 DEF Begins, Snapshots, Advises
  <2>6. UNCHANGED records
    BY <1>8 DEF Begins, Monitors, Snapshots, Advises, Looks, Prompts
  <2>. QED
    BY <2>1, <2>5, <2>6, <1>1
<1>e. ASSUME NEW r \in Watchers, Ends(r) \/ watch' = [watch EXCEPT ![r] = [NoRun EXCEPT !.pc = "telling"]], UNCHANGED records
      PROVE  MarksInv'
  <2>1. watch'[r].report = {} /\ \A q \in Watchers \ {r} : watch'[q] = watch[q]
    BY <1>e DEF Ends, NoRun, StockTyped
  <2>. QED
    BY <1>e, <2>1, <1>1
<1>g. ASSUME NEW r \in Watchers, NEW place, Goes(r, place), UNCHANGED records,
             watch[r].pc \notin {"marking", "sending"} \/ place \in {"marking", "sending"}
      PROVE  MarksInv'
  <2>1. /\ watch'[r].pc = place /\ watch'[r].report = watch[r].report /\ watch'[r].chat = watch[r].chat
        /\ watch'[r].date = watch[r].date /\ \A q \in Watchers \ {r} : watch'[q] = watch[q]
    BY <1>g, <1>t DEF Goes, StockTyped, WatchRows
  <2>2. watch[r].pc \notin {"marking", "sending"} => watch[r].report = {}
    BY DEF MarksInv
  <2>. QED
    BY <1>g, <2>1, <2>2, <1>1
<1>9. ASSUME NEW r \in Watchers, Marked(r) \/ Advised(r) \/ Answered(r) \/ Told(r) \/ Throws(r) \/ Saved(r)
      PROVE  MarksInv'
  <2>1. UNCHANGED records
    BY <1>9 DEF Marked, Advised, Answered, Told, Throws, Saved
  <2>2. CASE Marked(r)
    BY <2>1, <2>2, <1>e, <1>g DEF Marked
  <2>3. CASE Advised(r) \/ Answered(r)
    <3>1. watch[r].pc \notin {"marking", "sending"} /\ \E place : Goes(r, place)
      BY <2>3 DEF Advised, Answered
    <3>. QED
      BY <2>1, <3>1, <1>g
  <2>4. CASE Told(r) \/ Throws(r)
    BY <2>1, <2>4, <1>e DEF Told, Throws
  <2>5. CASE Saved(r)
    BY <2>1, <2>5, <1>e DEF Saved
  <2>. QED
    BY <1>9, <2>2, <2>3, <2>4, <2>5
<1>10. ASSUME NEW r \in Watchers, (\E met \in SUBSET Conditions : Meets(r, met)) \/ Priced(r)
       PROVE  MarksInv'
  <2>1. watch'[r].report = watch[r].report /\ \A q \in Watchers \ {r} : watch'[q] = watch[q]
    BY <1>10, <1>t DEF Meets, Priced, StockTyped, WatchRows
  <2>2. watch[r].report = {} /\ UNCHANGED records
    BY <1>10 DEF Meets, Priced, MarksInv
  <2>. QED
    BY <2>1, <2>2, <1>1
<1>11. ASSUME NEW r \in Watchers, NEW condition \in Conditions, Mark(r, condition)
       PROVE  MarksInv'
  <2>0. PICK mark : mark = MarkOf(r, condition)
    OBVIOUS
  <2>1. /\ watch'[r].pc = "marking" /\ watch'[r].chat = watch[r].chat /\ watch'[r].date = watch[r].date
        /\ watch'[r].report = IF mark \notin marks THEN watch[r].report \cup {condition} ELSE watch[r].report
        /\ \A q \in Watchers \ {r} : watch'[q] = watch[q]
    BY <1>11, <1>t, <2>0 DEF Mark, StockTyped, WatchRows
  <2>2. told' = told /\ watch[r].pc = "marking"
    BY <1>11 DEF Mark
  <2>3. CASE mark \in marks
    <3>1. marks' = marks /\ pruned' = pruned
      BY <1>11, <2>0, <2>3 DEF Mark
    <3>. QED
      BY <3>1, <2>1, <2>2, <2>3, <1>1
  <2>4. CASE mark \notin marks
    <3>1. marks' = OfDate(marks \cup {mark}, mark) /\ pruned' = pruned \cup {m \in marks \ marks' : m.date # mark.date}
      BY <1>11, <2>0, <2>4 DEF Mark
    <3>2. pruned \subseteq pruned' /\ mark \in marks' /\ \A m \in marks : m \in marks' \/ m \in pruned'
      BY <3>1 DEF OfDate
    <3>3. \A m \in Marks : Pending(r, m)' => Pending(r, m) \/ m = mark
      BY <2>0, <2>1, <2>4 DEF Pending, MarkOf, Marks
    <3>4. \A m \in Marks, q \in Watchers \ {r} : Pending(q, m)' => Pending(q, m)
      BY <2>1 DEF Pending
    <3>5. ASSUME NEW m \in Marks \ pruned', m # mark
          PROVE  /\ told'[m] <= 1 /\ (told'[m] = 1 => m \in marks' /\ \A q \in Watchers : ~ Pending(q, m)')
                 /\ \A q \in Watchers : Pending(q, m)' => m \in marks'
                 /\ \A p, q \in Watchers : Pending(p, m)' /\ Pending(q, m)' => p = q
      <4>1. \A q \in Watchers : Pending(q, m)' => Pending(q, m)
        BY <3>3, <3>4, <3>5
      <4>. QED
        BY <4>1, <3>2, <3>5, <2>2 DEF MarksInv
    <3>6. ASSUME mark \in Marks \ pruned'
          PROVE  /\ told'[mark] = 0
                 /\ \A p, q \in Watchers : Pending(p, mark)' /\ Pending(q, mark)' => p = q
      <4>1. told[mark] = 0 /\ \A q \in Watchers : ~ Pending(q, mark)
        BY <2>4, <3>2, <3>6, <1>t DEF MarksInv
      <4>2. \A q \in Watchers \ {r} : ~ Pending(q, mark)'
        BY <3>4, <3>6, <4>1
      <4>. QED
        BY <4>1, <4>2, <2>2
    <3>7. \A q \in Watchers : watch'[q].pc \notin {"marking", "sending"} => watch'[q].report = {}
      BY <2>1 DEF MarksInv
    <3>8. \A m \in Marks \ pruned' :
            /\ told'[m] <= 1 /\ (told'[m] = 1 => m \in marks' /\ \A q \in Watchers : ~ Pending(q, m)')
            /\ \A q \in Watchers : Pending(q, m)' => m \in marks'
            /\ \A p, q \in Watchers : Pending(p, m)' /\ Pending(q, m)' => p = q
      BY <3>2, <3>5, <3>6
    <3>. QED
      BY <3>7, <3>8 DEF MarksInv
  <2>. QED
    BY <2>3, <2>4
<1>12. ASSUME NEW r \in Watchers, Sent(r)
       PROVE  MarksInv'
  <2>1. marks' = marks /\ pruned' = pruned /\ watch'[r] = NoRun /\ \A q \in Watchers \ {r} : watch'[q] = watch[q]
    BY <1>12 DEF Sent, Ends, StockTyped
  <2>2. \A m \in Marks : ~ Pending(r, m)' /\ \A q \in Watchers \ {r} : Pending(q, m)' <=> Pending(q, m)
    BY <2>1 DEF Pending, NoRun
  <2>3. \A m \in Marks : m \in {MarkOf(r, condition) : condition \in watch[r].report} <=> Pending(r, m)
    BY DEF Pending, MarkOf, Marks
  <2>4. \A m \in Marks : /\ Pending(r, m) /\ told[m] < 2 => told'[m] = told[m] + 1
                         /\ ~ Pending(r, m) => told'[m] = told[m]
    BY <1>12, <2>3 DEF Sent
  <2>5. ASSUME NEW m \in Marks \ pruned'
        PROVE  /\ told'[m] <= 1 /\ (told'[m] = 1 => m \in marks' /\ \A q \in Watchers : ~ Pending(q, m)')
               /\ \A q \in Watchers : Pending(q, m)' => m \in marks'
               /\ \A p, q \in Watchers : Pending(p, m)' /\ Pending(q, m)' => p = q
    <3>1. /\ told[m] <= 1 /\ (told[m] = 1 => m \in marks /\ \A q \in Watchers : ~ Pending(q, m))
          /\ \A q \in Watchers : Pending(q, m) => m \in marks
          /\ \A p, q \in Watchers : Pending(p, m) /\ Pending(q, m) => p = q
          /\ told[m] \in 0 .. 2
      BY <2>1, <2>5, <1>t DEF MarksInv
    <3>2. CASE Pending(r, m)
      <4>1. told[m] = 0 /\ told'[m] = 1 /\ m \in marks
        BY <3>1, <3>2, <2>4
      <4>2. \A q \in Watchers : ~ Pending(q, m)'
        BY <3>1, <3>2, <2>2
      <4>. QED
        BY <4>1, <4>2, <2>1
    <3>3. CASE ~ Pending(r, m)
      <4>1. told'[m] = told[m] /\ \A q \in Watchers : Pending(q, m)' => Pending(q, m)
        BY <3>3, <2>2, <2>4
      <4>. QED
        BY <4>1, <3>1, <2>1
    <3>. QED
      BY <3>2, <3>3
  <2>6. \A q \in Watchers : watch'[q].pc \notin {"marking", "sending"} => watch'[q].report = {}
    BY <2>1 DEF MarksInv, NoRun
  <2>. QED
    BY <2>5, <2>6 DEF MarksInv
<1>13. ASSUME NEW r \in Watchers, Watch(r)
       PROVE  MarksInv'
  BY <1>13, <1>9, <1>10, <1>11, <1>12 DEF Watch
<1>. QED
  BY <1>3, <1>4, <1>5, <1>6, <1>8, <1>13 DEF StockMove

StockInv == StockTyped /\ WatchedInv /\ MarksInv

LEMMA StockBegins == KindsInit => StockInv
<1>. SUFFICES ASSUME KindsInit PROVE StockInv
  OBVIOUS
<1>1. \A r \in Watchers : watch[r].pc = "idle" /\ watch[r].report = {}
  BY DEF KindsInit, StockInit, NoRun
<1>2. \A m \in Marks : told[m] = 0
  BY DEF KindsInit, StockInit
<1>3. \A m \in Marks, r \in Watchers : ~ Pending(r, m)
  BY <1>1 DEF Pending
<1>4. MarksInv
  BY <1>1, <1>2, <1>3 DEF MarksInv
<1>5. WatchedInv
  BY DEF KindsInit, StockInit, WatchedInv
<1>. QED
  BY <1>4, <1>5, StockInitTyped DEF StockInv

LEMMA StockKept == StockInv /\ [KindsNext]_kindsVars => StockInv'
<1>. SUFFICES ASSUME StockInv, [KindsNext]_kindsVars PROVE StockInv'
  OBVIOUS
<1>1. CASE StockMove
  BY <1>1, StockStepTyped, WatchedStep, MarksStep DEF StockInv
<1>2. CASE UNCHANGED stockVars
  <2>. USE <1>2 DEF stockVars
  <2>1. StockTyped' /\ WatchedInv'
    BY DEF StockInv, StockTyped, WatchedInv
  <2>2. MarksInv'
    BY DEF StockInv, MarksInv, Pending
  <2>. QED
    BY <2>1, <2>2 DEF StockInv
<1>. QED
  BY <1>1, <1>2, KindsMoves

LEMMA StockAlways == KindsSpec => []StockInv
BY StockBegins, StockKept, PTL DEF KindsSpec

(* With no command under way a stock that is subscribed to is watched, for any number of  *)
(* commands that overlap, unless a write failed or a restart lost something               *)
(* (stock-command-handlers.ts, the tasks are written after the store).                     *)
THEOREM SubscriptionsStayMonitored == KindsSpec => []SubscriptionsAreMonitored
<1>1. StockInv => SubscriptionsAreMonitored
  BY DEF StockInv, WatchedInv, SubscriptionsAreMonitored
<1>. QED
  BY <1>1, StockAlways, PTL

(* A chat is told twice of a condition on a date only after its mark was pruned by one of *)
(* another date, for any number of overlapping runs, chats and deaths (checkAndMark).     *)
THEOREM ToldOnceADate == KindsSpec => []RepeatsNeedAnotherDate
<1>1. StockInv => RepeatsNeedAnotherDate
  BY DEF StockInv, StockTyped, MarksInv, RepeatsNeedAnotherDate
<1>. QED
  BY <1>1, StockAlways, PTL

(* Entries, notes, clones, stores, monitors and marks are of the kinds the code knows; a   *)
(* worktree has a whole clone, and no entry waits for an answer without one.               *)
THEOREM KindsTypeCorrect == KindsSpec => []KindsTypeOK
<1>1. FollowInv => /\ room \in [Issues -> Rooms] /\ status \in [Issues -> Statuses]
                   /\ notes \in [Issues -> Seq(BotNotes \cup UserNotes)]
                   /\ worktree \subseteq {i \in Issues : clone[i] = "whole"} /\ working \subseteq worktree
                   /\ \A i \in Issues : status[i] \in {"proposed", "branch_proposed"} => clone[i] # "none"
  BY DEF FollowInv, FollowTyped, EntriesInv, Earned
<1>2. StockInv => /\ store.subs \cup disk.subs \subseteq Codes /\ monitor \in [Chats -> {"none", "on", "off"}]
                  /\ marks \cup pruned \subseteq Marks /\ told \in [Marks -> 0 .. 2] /\ cut \in BOOLEAN
  BY DEF StockInv, StockTyped, Stores
<1>3. FollowInv /\ StockInv => KindsTypeOK
  BY <1>1, <1>2 DEF KindsTypeOK
<1>. QED
  BY <1>3, FollowAlways, StockAlways, PTL
=============================================================================

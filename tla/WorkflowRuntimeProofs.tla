------------------------ MODULE WorkflowRuntimeProofs ------------------------
(***************************************************************************)
(* Proofs about WorkflowRuntime, for every set of definitions, instances   *)
(* and attempts and every number of steps.                                 *)
(***************************************************************************)
EXTENDS WorkflowRuntime, TLAPS

(* A call that is under way, or the row of one that died in a resumed step. *)
Engaged(a) == pc[a] \notin {"idle", "done"} \/ attempt[a] = "running"

(* The call stands between the attempt row "running" and its verdict. *)
RunningAt == {"startStep", "stepGate", "inStep", "finishAttempt", "consumeWait", "markResumed"}

(* At most one call is in a synchronous section. *)
OneSection ==
  \A a, b \in Attempts : pc[a] \in SyncSections /\ pc[b] \in SyncSections => a = b

(* A call that has not begun has left no trace. *)
IdleIsFresh ==
  \A a \in Attempts :
    /\ pc[a] = "idle" => attempt[a] = "absent" /\ attemptInstance[a] = None
    /\ pc[a] # "idle" => attemptInstance[a] \in Instances
    /\ pc[a] \in {"idle", "checkPolicy", "consumeWait", "markResumed"} =>
         \A s \in Steps : step[a][s] = "absent" /\ <<a, s>> \notin executed

(* The attempt row agrees with the position of its call. *)
RowFollowsCall ==
  \A a \in Attempts :
    /\ pc[a] = "checkPolicy" => attempt[a] = "absent"
    /\ pc[a] \in RunningAt => attempt[a] = "running"
    /\ pc[a] \in {"finishAttempt", "finishInstance", "appendEvent"} =>
         outcome[a] \in {"waiting", "succeeded", "failed"}
    /\ pc[a] \in {"stepGate", "inStep"} => at[a] \in Steps
    /\ pc[a] \in {"closeInstance", "finishInstance", "appendEvent"} => attempt[a] = outcome[a]
    /\ pc[a] = "closeInstance" => outcome[a] \in {"queued", "succeeded", "failed"}
    /\ pc[a] \in {"consumeWait", "markResumed"} => resumedFrom[a] \in Attempts \X Steps
    /\ pc[a] = "consumeWait" => step[resumedFrom[a][1]][resumedFrom[a][2]] = "waiting"

(* An instance row is older than any of its attempts. *)
InstanceBeforeAttempt ==
  \A i \in Instances :
    instance[i] = "absent" => \A a \in Attempts : attemptInstance[a] # i

(* start() is alone in the instance it creates. *)
StartIsAlone ==
  \A a, b \in Attempts :
    pc[a] \in {"checkPolicy", "closeInstance"} /\ SameInstance(a, b) => a = b

(* One call per instance is engaged. *)
OneEngaged ==
  \A a, b \in Attempts :
    Engaged(a) /\ Engaged(b) /\ attemptInstance[a] \in Instances /\ SameInstance(a, b) => a = b

Live(a) == attempt[a] \in {"running", "waiting"}

(* The live attempts of an exclusive definition are all of one instance. *)
OneLiveInstance ==
  \A a, b \in Attempts :
    Live(a) /\ Live(b) /\ SameDefinition(a, b) /\ Exclusive(a) => SameInstance(a, b)

(* An instance has one waiting step at most ... *)
OneWaitingStep ==
  \A a, b \in Attempts, s, t \in Steps :
    step[a][s] = "waiting" /\ step[b][t] = "waiting" /\ SameInstance(a, b) => a = b /\ s = t

(* ... and none while an attempt runs, but for the one resume() is about to *)
(* consume and the one finish() is about to report.                         *)
NoWaitWhileRunning ==
  \A a, b \in Attempts, s \in Steps :
    attempt[a] = "running" /\ step[b][s] = "waiting" /\ SameInstance(a, b) =>
      \/ pc[a] = "consumeWait" /\ resumedFrom[a] = <<b, s>>
      \/ pc[a] = "finishAttempt" /\ a = b

(***************************************************************************)
(* The inductive invariant.  MutualExclusion alone is not inductive: that  *)
(* resume() finds no running attempt rests on the wait it consumes, the    *)
(* wait on the attempt that reported it, and both on the order of writes   *)
(* of finish().                                                            *)
(***************************************************************************)
IInv ==
  /\ TypeOK
  /\ OneSection
  /\ IdleIsFresh
  /\ RowFollowsCall
  /\ InstanceBeforeAttempt
  /\ StartIsAlone
  /\ OneEngaged
  /\ OneLiveInstance
  /\ OneWaitingStep
  /\ NoWaitWhileRunning
  /\ InstanceBackedByAttempt

-----------------------------------------------------------------------------
(* start() writes the row of a fresh instance, which no other attempt belongs to. *)
LEMMA StartKeeps ==
  ASSUME IInv, NEW a \in Attempts, NEW i \in Instances, Start(a, i)
  PROVE  IInv'
<1>0. /\ pc[a] = "idle" /\ attempt[a] = "absent" /\ attemptInstance[a] = None /\ None \notin Instances
      /\ attempt' = attempt /\ step' = step /\ executed' = executed
      /\ pc' = [pc EXCEPT ![a] = "checkPolicy"] /\ instance[i] = "absent"
      /\ instance' = [instance EXCEPT ![i] = "running"]
      /\ attemptInstance' = [attemptInstance EXCEPT ![a] = i]
      /\ \A s \in Steps : step[a][s] = "absent"
  <2>1. pc[a] = "idle"
    BY DEF Start, At
  <2>2. /\ attempt[a] = "absent" /\ attemptInstance[a] = None
        /\ \A s \in Steps : step[a][s] = "absent"
    BY <2>1 DEF IInv, IdleIsFresh
  <2>. QED  BY <2>1, <2>2, RuntimeAssumption DEF Start, GoTo, WriteInstance
<1>00. \A b \in Attempts : b # a => attemptInstance'[b] = attemptInstance[b]
  BY <1>0 DEF IInv, TypeOK
<1>. USE RuntimeAssumption
     DEF RuntimeAssumption, IInv, TypeOK, IdleIsFresh, RowFollowsCall, SyncSections, Locations,
         RunningAt, Steps, SameInstance,
         At, CpuFree, GoTo, WriteInstance, WriteAttempt, WriteStep, database, Start
<1>1. TypeOK'
  BY DEF InstanceStatuses, AttemptStatuses, StepStatuses, Outcomes, FinishEvents,
         ConcurrencyPolicies
<1>2. OneSection'
  BY <1>0, <1>00 DEF OneSection
<1>3. IdleIsFresh'
  BY <1>0, <1>00
<1>4. RowFollowsCall'
  BY <1>0, <1>00
<1>5. InstanceBeforeAttempt'
  BY <1>0, <1>00 DEF InstanceBeforeAttempt
<1>6. StartIsAlone'
  BY <1>0, <1>00 DEF StartIsAlone, InstanceBeforeAttempt
<1>7. OneEngaged'
  BY <1>0, <1>00 DEF OneEngaged, Engaged, InstanceBeforeAttempt, StartIsAlone,
                     NoWaitWhileRunning, OneSection
<1>8. OneLiveInstance'
  <2>. SUFFICES ASSUME NEW b \in Attempts, NEW c \in Attempts,
                       Live(b), Live(c), SameDefinition(b, c)', Exclusive(b)'
                PROVE  attemptInstance'[b] = attemptInstance'[c]
    BY <1>0 DEF OneLiveInstance, Live
  <2>1. b # a /\ c # a
    BY <1>0 DEF Live
  <2>. QED  BY <1>0, <2>1 DEF OneLiveInstance, SameDefinition, Exclusive
<1>9. OneWaitingStep'
  BY <1>0, <1>00 DEF OneWaitingStep, NoWaitWhileRunning, OneEngaged, Engaged
<1>10. NoWaitWhileRunning'
  BY <1>0, <1>00 DEF NoWaitWhileRunning, Engaged, OneEngaged, OneWaitingStep, StartIsAlone
<1>11. InstanceBackedByAttempt'
  <2>. SUFFICES ASSUME NEW j \in Instances, instance'[j] \in Outcomes
                PROVE  \E b \in Attempts : attemptInstance'[b] = j /\ attempt[b] = instance'[j]
    BY <1>0 DEF InstanceBackedByAttempt
  <2>1. instance'[j] = instance[j]
    BY DEF Outcomes
  <2>2. PICK b \in Attempts : attemptInstance[b] = j /\ attempt[b] = instance[j]
    BY <2>1 DEF InstanceBackedByAttempt
  <2>3. b # a
    BY <1>0, <2>2
  <2>4. attemptInstance'[b] = j
    BY <1>00, <2>2, <2>3
  <2>. QED  BY <2>1, <2>2, <2>4
<1>. QED  BY <1>1, <1>2, <1>3, <1>4, <1>5, <1>6, <1>7, <1>8, <1>9, <1>10, <1>11

(* A blocked attempt gets its final status at once and is never live. *)
LEMMA BlockAttemptKeeps ==
  ASSUME IInv, NEW a \in Attempts, BlockAttempt(a)
  PROVE  IInv'
<1>0. /\ attemptInstance[a] \in Instances
      /\ outcome'[a] \in {"failed", "queued", "succeeded"}
      /\ attempt' = [attempt EXCEPT ![a] = outcome'[a]]
      /\ attemptInstance' = attemptInstance /\ step' = step
      /\ pc[a] = "checkPolicy" /\ pc' = [pc EXCEPT ![a] = "closeInstance"]
      /\ attempt[a] = "absent" /\ instance' = instance /\ policy' = policy
      /\ outcome' = [outcome EXCEPT ![a] = outcome'[a]] /\ at' = at /\ resumedFrom' = resumedFrom
  <2>. DEFINE p == policy[DefinitionOf[attemptInstance[a]]]
  <2>0. pc[a] = "checkPolicy"
    BY DEF BlockAttempt, At
  <2>1. attemptInstance[a] \in Instances /\ attempt[a] = "absent"
    BY <2>0 DEF IInv, IdleIsFresh, RowFollowsCall
  <2>2. p \in ConcurrencyPolicies \ {"allow_readonly_parallel"}
    BY <2>1, RuntimeAssumption DEF RuntimeAssumption, IInv, TypeOK, BlockAttempt, Blocked
  <2>3. BlockedStatus(p) \in {"failed", "queued", "succeeded"}
    BY <2>2 DEF ConcurrencyPolicies, BlockedStatus
  <2>4. /\ outcome' = [outcome EXCEPT ![a] = BlockedStatus(p)]
        /\ attempt' = [attempt EXCEPT ![a] = BlockedStatus(p)]
    BY DEF BlockAttempt, WriteAttempt
  <2>5. outcome'[a] = BlockedStatus(p)
    BY <2>4 DEF IInv, TypeOK
  <2>. QED  BY <2>0, <2>1, <2>3, <2>4, <2>5 DEF BlockAttempt, GoTo
<1>. USE RuntimeAssumption
     DEF RuntimeAssumption, IInv, TypeOK, IdleIsFresh, RowFollowsCall, SyncSections, Locations,
         RunningAt, Steps, SameInstance,
         At, CpuFree, GoTo, WriteInstance, WriteAttempt, WriteStep, database, BlockAttempt
<1>1. TypeOK'
  BY <1>0 DEF AttemptStatuses, Outcomes
<1>2. OneSection'
  BY <1>0 DEF OneSection
<1>3. IdleIsFresh'
  BY <1>0
<1>4. RowFollowsCall'
  BY <1>0
<1>5. InstanceBeforeAttempt'
  BY <1>0 DEF InstanceBeforeAttempt
<1>6. StartIsAlone'
  BY <1>0 DEF StartIsAlone, InstanceBeforeAttempt
<1>7. OneEngaged'
  BY <1>0 DEF OneEngaged, Engaged, InstanceBeforeAttempt, StartIsAlone, NoWaitWhileRunning,
              OneSection
<1>8. OneLiveInstance'
  BY <1>0 DEF OneLiveInstance, Live, Exclusive, SameDefinition, InstanceBackedByAttempt,
              InstanceStatuses, Outcomes
<1>9. OneWaitingStep'
  BY <1>0 DEF OneWaitingStep, NoWaitWhileRunning, OneEngaged, Engaged
<1>10. NoWaitWhileRunning'
  BY <1>0 DEF NoWaitWhileRunning, Engaged, OneEngaged, OneWaitingStep, StartIsAlone
<1>11. InstanceBackedByAttempt'
  BY <1>0 DEF InstanceBackedByAttempt, Outcomes, InstanceBeforeAttempt
<1>. QED  BY <1>1, <1>2, <1>3, <1>4, <1>5, <1>6, <1>7, <1>8, <1>9, <1>10, <1>11

(* The instance of a blocked attempt follows the attempt it was created with. *)
LEMMA CloseInstanceKeeps ==
  ASSUME IInv, NEW a \in Attempts, CloseInstance(a)
  PROVE  IInv'
<1>. USE RuntimeAssumption
     DEF RuntimeAssumption, IInv, TypeOK, IdleIsFresh, RowFollowsCall, SyncSections, Locations,
         RunningAt, Steps, SameInstance,
         At, CpuFree, GoTo, WriteInstance, WriteAttempt, WriteStep, database, CloseInstance
<1>0. /\ attemptInstance[a] \in Instances
      /\ outcome[a] \in {"queued", "succeeded", "failed"} /\ attempt[a] = outcome[a]
  OBVIOUS
<1>1. TypeOK'
  BY DEF InstanceStatuses, AttemptStatuses, StepStatuses, Outcomes, FinishEvents,
         ConcurrencyPolicies
<1>2. OneSection'
  BY <1>0 DEF OneSection
<1>3. IdleIsFresh'
  BY <1>0
<1>4. RowFollowsCall'
  BY <1>0
<1>5. InstanceBeforeAttempt'
  BY <1>0 DEF InstanceBeforeAttempt
<1>6. StartIsAlone'
  BY <1>0 DEF StartIsAlone, InstanceBeforeAttempt
<1>7. OneEngaged'
  BY <1>0 DEF OneEngaged, Engaged, InstanceBeforeAttempt, StartIsAlone, NoWaitWhileRunning,
              OneSection
<1>8. OneLiveInstance'
  BY <1>0 DEF OneLiveInstance, Live, Exclusive, SameDefinition, InstanceBackedByAttempt,
              InstanceStatuses, Outcomes
<1>9. OneWaitingStep'
  BY <1>0 DEF OneWaitingStep, NoWaitWhileRunning, OneEngaged, Engaged
<1>10. NoWaitWhileRunning'
  BY <1>0 DEF NoWaitWhileRunning, Engaged, OneEngaged, OneWaitingStep, StartIsAlone
<1>11. InstanceBackedByAttempt'
  BY <1>0 DEF InstanceBackedByAttempt, Outcomes, InstanceBeforeAttempt
<1>. QED  BY <1>1, <1>2, <1>3, <1>4, <1>5, <1>6, <1>7, <1>8, <1>9, <1>10, <1>11

(* An admitted attempt found no active one of its definition. *)
LEMMA AdmitAttemptKeeps ==
  ASSUME IInv, NEW a \in Attempts, AdmitAttempt(a)
  PROVE  IInv'
<1>0. /\ pc[a] = "checkPolicy" /\ attempt[a] = "absent" /\ attemptInstance[a] \in Instances
      /\ \A s \in Steps : step[a][s] = "absent"
      /\ \A b \in Attempts : attemptInstance[b] = attemptInstance[a] => b = a
  <2>1. pc[a] = "checkPolicy"
    BY DEF AdmitAttempt, At
  <2>. QED  BY <2>1 DEF IInv, IdleIsFresh, RowFollowsCall, StartIsAlone, SameInstance
<1>. USE RuntimeAssumption
     DEF RuntimeAssumption, IInv, TypeOK, IdleIsFresh, RowFollowsCall, SyncSections, Locations,
         RunningAt, Steps, SameInstance,
         At, CpuFree, GoTo, WriteInstance, WriteAttempt, WriteStep, database, AdmitAttempt,
         Blocked, ActiveAttempts
<1>1. TypeOK'
  BY DEF InstanceStatuses, AttemptStatuses, StepStatuses, Outcomes, FinishEvents,
         ConcurrencyPolicies
<1>2. OneSection'
  BY <1>0 DEF OneSection
<1>3. IdleIsFresh'
  BY <1>0
<1>4. RowFollowsCall'
  BY <1>0
<1>5. InstanceBeforeAttempt'
  BY <1>0 DEF InstanceBeforeAttempt
<1>6. StartIsAlone'
  BY <1>0 DEF StartIsAlone, InstanceBeforeAttempt
<1>7. OneEngaged'
  BY <1>0 DEF OneEngaged, Engaged, InstanceBeforeAttempt, StartIsAlone, NoWaitWhileRunning,
              OneSection
<1>8. OneLiveInstance'
  BY <1>0 DEF OneLiveInstance, Live, Exclusive, SameDefinition, InstanceBackedByAttempt,
              InstanceStatuses, Outcomes
<1>9. OneWaitingStep'
  BY <1>0 DEF OneWaitingStep, NoWaitWhileRunning, OneEngaged, Engaged
<1>10. NoWaitWhileRunning'
  <2>. SUFFICES ASSUME NEW c \in Attempts, NEW b \in Attempts, NEW s \in Steps,
                       attempt'[c] = "running", step[b][s] = "waiting", SameInstance(c, b)
                PROVE  \/ pc'[c] = "consumeWait" /\ resumedFrom[c] = <<b, s>>
                       \/ pc'[c] = "finishAttempt" /\ c = b
    BY DEF NoWaitWhileRunning
  <2>1. c # a
    BY <1>0
  <2>2. attempt[c] = "running" /\ pc'[c] = pc[c]
    BY <2>1
  <2>. QED  BY <2>2 DEF NoWaitWhileRunning
<1>11. InstanceBackedByAttempt'
  BY <1>0 DEF InstanceBackedByAttempt, Outcomes, InstanceBeforeAttempt
<1>. QED  BY <1>1, <1>2, <1>3, <1>4, <1>5, <1>6, <1>7, <1>8, <1>9, <1>10, <1>11

(* The step row turns to running; the attempt already is. *)
LEMMA StartStepKeeps ==
  ASSUME IInv, NEW a \in Attempts, StartStep(a)
  PROVE  IInv'
<1>. USE RuntimeAssumption
     DEF RuntimeAssumption, IInv, TypeOK, IdleIsFresh, RowFollowsCall, SyncSections, Locations,
         RunningAt, Steps, SameInstance,
         At, CpuFree, GoTo, WriteInstance, WriteAttempt, WriteStep, database, StartStep
<1>1. TypeOK'
  BY DEF InstanceStatuses, AttemptStatuses, StepStatuses, Outcomes, FinishEvents,
         ConcurrencyPolicies
<1>2. OneSection'
  BY DEF OneSection
<1>3. IdleIsFresh'
  OBVIOUS
<1>4. RowFollowsCall'
  OBVIOUS
<1>5. InstanceBeforeAttempt'
  BY DEF InstanceBeforeAttempt
<1>6. StartIsAlone'
  BY DEF StartIsAlone, InstanceBeforeAttempt
<1>7. OneEngaged'
  BY DEF OneEngaged, Engaged, InstanceBeforeAttempt, StartIsAlone, NoWaitWhileRunning, OneSection
<1>8. OneLiveInstance'
  BY DEF OneLiveInstance, Live, Exclusive, SameDefinition, InstanceBackedByAttempt,
         InstanceStatuses, Outcomes
<1>9. OneWaitingStep'
  BY DEF OneWaitingStep, NoWaitWhileRunning, OneEngaged, Engaged
<1>10. NoWaitWhileRunning'
  BY DEF NoWaitWhileRunning, Engaged, OneEngaged, OneWaitingStep, StartIsAlone
<1>11. InstanceBackedByAttempt'
  BY DEF InstanceBackedByAttempt, Outcomes, InstanceBeforeAttempt
<1>. QED  BY <1>1, <1>2, <1>3, <1>4, <1>5, <1>6, <1>7, <1>8, <1>9, <1>10, <1>11

(* The end of the loop only decides the verdict. *)
LEMMA StepsExhaustedKeeps ==
  ASSUME IInv, NEW a \in Attempts, StepsExhausted(a)
  PROVE  IInv'
<1>. USE RuntimeAssumption
     DEF RuntimeAssumption, IInv, TypeOK, IdleIsFresh, RowFollowsCall, SyncSections, Locations,
         RunningAt, Steps, SameInstance,
         At, CpuFree, GoTo, WriteInstance, WriteAttempt, WriteStep, database, StepsExhausted,
         Conclude
<1>1. TypeOK'
  BY DEF InstanceStatuses, AttemptStatuses, StepStatuses, Outcomes, FinishEvents,
         ConcurrencyPolicies
<1>2. OneSection'
  BY DEF OneSection
<1>3. IdleIsFresh'
  OBVIOUS
<1>4. RowFollowsCall'
  OBVIOUS
<1>5. InstanceBeforeAttempt'
  BY DEF InstanceBeforeAttempt
<1>6. StartIsAlone'
  BY DEF StartIsAlone, InstanceBeforeAttempt
<1>7. OneEngaged'
  BY DEF OneEngaged, Engaged, InstanceBeforeAttempt, StartIsAlone, NoWaitWhileRunning, OneSection
<1>8. OneLiveInstance'
  BY DEF OneLiveInstance, Live, Exclusive, SameDefinition, InstanceBackedByAttempt,
         InstanceStatuses, Outcomes
<1>9. OneWaitingStep'
  BY DEF OneWaitingStep, NoWaitWhileRunning, OneEngaged, Engaged
<1>10. NoWaitWhileRunning'
  BY DEF NoWaitWhileRunning, Engaged, OneEngaged, OneWaitingStep, StartIsAlone
<1>11. InstanceBackedByAttempt'
  BY DEF InstanceBackedByAttempt, Outcomes, InstanceBeforeAttempt
<1>. QED  BY <1>1, <1>2, <1>3, <1>4, <1>5, <1>6, <1>7, <1>8, <1>9, <1>10, <1>11

(* A denied step is no waiting step and fails the attempt. *)
LEMMA DenyStepKeeps ==
  ASSUME IInv, NEW a \in Attempts, DenyStep(a)
  PROVE  IInv'
<1>. USE RuntimeAssumption
     DEF RuntimeAssumption, IInv, TypeOK, IdleIsFresh, RowFollowsCall, SyncSections, Locations,
         RunningAt, Steps, SameInstance,
         At, CpuFree, GoTo, WriteInstance, WriteAttempt, WriteStep, database, DenyStep, Conclude
<1>1. TypeOK'
  BY DEF InstanceStatuses, AttemptStatuses, StepStatuses, Outcomes, FinishEvents,
         ConcurrencyPolicies
<1>2. OneSection'
  BY DEF OneSection
<1>3. IdleIsFresh'
  OBVIOUS
<1>4. RowFollowsCall'
  OBVIOUS
<1>5. InstanceBeforeAttempt'
  BY DEF InstanceBeforeAttempt
<1>6. StartIsAlone'
  BY DEF StartIsAlone, InstanceBeforeAttempt
<1>7. OneEngaged'
  BY DEF OneEngaged, Engaged, InstanceBeforeAttempt, StartIsAlone, NoWaitWhileRunning, OneSection
<1>8. OneLiveInstance'
  BY DEF OneLiveInstance, Live, Exclusive, SameDefinition, InstanceBackedByAttempt,
         InstanceStatuses, Outcomes
<1>9. OneWaitingStep'
  BY DEF OneWaitingStep, NoWaitWhileRunning, OneEngaged, Engaged
<1>10. NoWaitWhileRunning'
  BY DEF NoWaitWhileRunning, Engaged, OneEngaged, OneWaitingStep, StartIsAlone
<1>11. InstanceBackedByAttempt'
  BY DEF InstanceBackedByAttempt, Outcomes, InstanceBeforeAttempt
<1>. QED  BY <1>1, <1>2, <1>3, <1>4, <1>5, <1>6, <1>7, <1>8, <1>9, <1>10, <1>11

(* Awaiting the run() of a step writes no row. *)
LEMMA EnterStepKeeps ==
  ASSUME IInv, NEW a \in Attempts, EnterStep(a)
  PROVE  IInv'
<1>. USE RuntimeAssumption
     DEF RuntimeAssumption, IInv, TypeOK, IdleIsFresh, RowFollowsCall, SyncSections, Locations,
         RunningAt, Steps, SameInstance,
         At, CpuFree, GoTo, WriteInstance, WriteAttempt, WriteStep, database, EnterStep
<1>1. TypeOK'
  BY DEF InstanceStatuses, AttemptStatuses, StepStatuses, Outcomes, FinishEvents,
         ConcurrencyPolicies
<1>2. OneSection'
  BY DEF OneSection
<1>3. IdleIsFresh'
  OBVIOUS
<1>4. RowFollowsCall'
  OBVIOUS
<1>5. InstanceBeforeAttempt'
  BY DEF InstanceBeforeAttempt
<1>6. StartIsAlone'
  BY DEF StartIsAlone, InstanceBeforeAttempt
<1>7. OneEngaged'
  BY DEF OneEngaged, Engaged, InstanceBeforeAttempt, StartIsAlone, NoWaitWhileRunning, OneSection
<1>8. OneLiveInstance'
  BY DEF OneLiveInstance, Live, Exclusive, SameDefinition, InstanceBackedByAttempt,
         InstanceStatuses, Outcomes
<1>9. OneWaitingStep'
  BY DEF OneWaitingStep, NoWaitWhileRunning, OneEngaged, Engaged
<1>10. NoWaitWhileRunning'
  BY DEF NoWaitWhileRunning, Engaged, OneEngaged, OneWaitingStep, StartIsAlone
<1>11. InstanceBackedByAttempt'
  BY DEF InstanceBackedByAttempt, Outcomes, InstanceBeforeAttempt
<1>. QED  BY <1>1, <1>2, <1>3, <1>4, <1>5, <1>6, <1>7, <1>8, <1>9, <1>10, <1>11

(* A step that goes on leaves no waiting row behind. *)
LEMMA StepContinuesKeeps ==
  ASSUME IInv, NEW a \in Attempts, StepContinues(a)
  PROVE  IInv'
<1>. USE RuntimeAssumption
     DEF RuntimeAssumption, IInv, TypeOK, IdleIsFresh, RowFollowsCall, SyncSections, Locations,
         RunningAt, Steps, SameInstance,
         At, CpuFree, GoTo, WriteInstance, WriteAttempt, WriteStep, database, StepContinues
<1>1. TypeOK'
  BY DEF InstanceStatuses, AttemptStatuses, StepStatuses, Outcomes, FinishEvents,
         ConcurrencyPolicies
<1>2. OneSection'
  BY DEF OneSection
<1>3. IdleIsFresh'
  OBVIOUS
<1>4. RowFollowsCall'
  OBVIOUS
<1>5. InstanceBeforeAttempt'
  BY DEF InstanceBeforeAttempt
<1>6. StartIsAlone'
  BY DEF StartIsAlone, InstanceBeforeAttempt
<1>7. OneEngaged'
  BY DEF OneEngaged, Engaged, InstanceBeforeAttempt, StartIsAlone, NoWaitWhileRunning, OneSection
<1>8. OneLiveInstance'
  BY DEF OneLiveInstance, Live, Exclusive, SameDefinition, InstanceBackedByAttempt,
         InstanceStatuses, Outcomes
<1>9. OneWaitingStep'
  BY DEF OneWaitingStep, NoWaitWhileRunning, OneEngaged, Engaged
<1>10. NoWaitWhileRunning'
  BY DEF NoWaitWhileRunning, Engaged, OneEngaged, OneWaitingStep, StartIsAlone
<1>11. InstanceBackedByAttempt'
  BY DEF InstanceBackedByAttempt, Outcomes, InstanceBeforeAttempt
<1>. QED  BY <1>1, <1>2, <1>3, <1>4, <1>5, <1>6, <1>7, <1>8, <1>9, <1>10, <1>11

(* A step that waits makes the only waiting row of its instance. *)
LEMMA StepSettlesKeeps ==
  ASSUME IInv, NEW a \in Attempts, NEW verdict \in {"succeeded", "waiting", "failed"}, StepSettles(a, verdict)
  PROVE  IInv'
<1>. USE RuntimeAssumption
     DEF RuntimeAssumption, IInv, TypeOK, IdleIsFresh, RowFollowsCall, SyncSections, Locations,
         RunningAt, Steps, SameInstance,
         At, CpuFree, GoTo, WriteInstance, WriteAttempt, WriteStep, database, StepSettles, Conclude
<1>1. TypeOK'
  BY DEF InstanceStatuses, AttemptStatuses, StepStatuses, Outcomes, FinishEvents,
         ConcurrencyPolicies
<1>2. OneSection'
  BY DEF OneSection
<1>3. IdleIsFresh'
  OBVIOUS
<1>4. RowFollowsCall'
  OBVIOUS
<1>5. InstanceBeforeAttempt'
  BY DEF InstanceBeforeAttempt
<1>6. StartIsAlone'
  BY DEF StartIsAlone, InstanceBeforeAttempt
<1>7. OneEngaged'
  BY DEF OneEngaged, Engaged, InstanceBeforeAttempt, StartIsAlone, NoWaitWhileRunning, OneSection
<1>8. OneLiveInstance'
  BY DEF OneLiveInstance, Live, Exclusive, SameDefinition, InstanceBackedByAttempt,
         InstanceStatuses, Outcomes
<1>9. OneWaitingStep'
  BY DEF OneWaitingStep, NoWaitWhileRunning, OneEngaged, Engaged
<1>10. NoWaitWhileRunning'
  BY DEF NoWaitWhileRunning, Engaged, OneEngaged, OneWaitingStep, StartIsAlone
<1>11. InstanceBackedByAttempt'
  BY DEF InstanceBackedByAttempt, Outcomes, InstanceBeforeAttempt
<1>. QED  BY <1>1, <1>2, <1>3, <1>4, <1>5, <1>6, <1>7, <1>8, <1>9, <1>10, <1>11

(* A throw is a failed step in start() and the end of the call in resume(). *)
LEMMA StepThrowsKeeps ==
  ASSUME IInv, NEW a \in Attempts, StepThrows(a)
  PROVE  IInv'
<1>1. CASE resumedFrom[a] = None
  <2>1. StepSettles(a, "failed")
    BY <1>1 DEF StepThrows, StepSettles
  <2>. QED  BY <2>1, StepSettlesKeeps
<1>2. CASE resumedFrom[a] # None
  <2>. USE RuntimeAssumption
       DEF IInv, TypeOK, IdleIsFresh, RowFollowsCall, SyncSections, Locations, RunningAt, Steps,
           SameInstance, At, CpuFree, GoTo, database
  <2>0. /\ pc[a] = "inStep" /\ pc' = [pc EXCEPT ![a] = "done"] /\ attempt[a] = "running"
        /\ UNCHANGED <<policy, database, at, outcome, resumedFrom, executed>>
    BY <1>2 DEF StepThrows
  <2>1. TypeOK'
    BY <2>0
  <2>2. OneSection'
    BY <2>0 DEF OneSection
  <2>3. IdleIsFresh'
    BY <2>0
  <2>4. RowFollowsCall'
    BY <2>0
  <2>5. InstanceBeforeAttempt'
    BY <2>0 DEF InstanceBeforeAttempt
  <2>6. StartIsAlone'
    BY <2>0 DEF StartIsAlone
  <2>7. OneEngaged'
    BY <2>0 DEF OneEngaged, Engaged
  <2>8. OneLiveInstance'
    BY <2>0 DEF OneLiveInstance, Live, Exclusive, SameDefinition
  <2>9. OneWaitingStep'
    BY <2>0 DEF OneWaitingStep
  <2>10. NoWaitWhileRunning'
    BY <2>0 DEF NoWaitWhileRunning
  <2>11. InstanceBackedByAttempt'
    BY <2>0 DEF InstanceBackedByAttempt
  <2>. QED  BY <2>1, <2>2, <2>3, <2>4, <2>5, <2>6, <2>7, <2>8, <2>9, <2>10, <2>11
<1>. QED  BY <1>1, <1>2

(* finish() writes the attempt first, so the instance is never ahead. *)
LEMMA FinishAttemptKeeps ==
  ASSUME IInv, NEW a \in Attempts, FinishAttempt(a)
  PROVE  IInv'
<1>. USE RuntimeAssumption
     DEF RuntimeAssumption, IInv, TypeOK, IdleIsFresh, RowFollowsCall, SyncSections, Locations,
         RunningAt, Steps, SameInstance,
         At, CpuFree, GoTo, WriteInstance, WriteAttempt, WriteStep, database, FinishAttempt
<1>0. attempt[a] = "running" /\ outcome[a] \in {"waiting", "succeeded", "failed"}
  OBVIOUS
<1>1. TypeOK'
  BY DEF InstanceStatuses, AttemptStatuses, StepStatuses, Outcomes, FinishEvents,
         ConcurrencyPolicies
<1>2. OneSection'
  BY <1>0 DEF OneSection
<1>3. IdleIsFresh'
  BY <1>0
<1>4. RowFollowsCall'
  BY <1>0
<1>5. InstanceBeforeAttempt'
  BY <1>0 DEF InstanceBeforeAttempt
<1>6. StartIsAlone'
  BY <1>0 DEF StartIsAlone, InstanceBeforeAttempt
<1>7. OneEngaged'
  BY <1>0 DEF OneEngaged, Engaged, InstanceBeforeAttempt, StartIsAlone, NoWaitWhileRunning,
              OneSection
<1>8. OneLiveInstance'
  BY <1>0 DEF OneLiveInstance, Live, Exclusive, SameDefinition, InstanceBackedByAttempt,
              InstanceStatuses, Outcomes
<1>9. OneWaitingStep'
  BY <1>0 DEF OneWaitingStep, NoWaitWhileRunning, OneEngaged, Engaged
<1>10. NoWaitWhileRunning'
  BY <1>0 DEF NoWaitWhileRunning, Engaged, OneEngaged, OneWaitingStep, StartIsAlone
<1>11. InstanceBackedByAttempt'
  BY <1>0 DEF InstanceBackedByAttempt, Outcomes, InstanceBeforeAttempt
<1>. QED  BY <1>1, <1>2, <1>3, <1>4, <1>5, <1>6, <1>7, <1>8, <1>9, <1>10, <1>11

(* The instance takes over the status its attempt already has. *)
LEMMA FinishInstanceKeeps ==
  ASSUME IInv, NEW a \in Attempts, FinishInstance(a)
  PROVE  IInv'
<1>. USE RuntimeAssumption
     DEF RuntimeAssumption, IInv, TypeOK, IdleIsFresh, RowFollowsCall, SyncSections, Locations,
         RunningAt, Steps, SameInstance,
         At, CpuFree, GoTo, WriteInstance, WriteAttempt, WriteStep, database, FinishInstance
<1>0. /\ attemptInstance[a] \in Instances
      /\ outcome[a] \in {"waiting", "succeeded", "failed"} /\ attempt[a] = outcome[a]
  OBVIOUS
<1>1. TypeOK'
  BY DEF InstanceStatuses, AttemptStatuses, StepStatuses, Outcomes, FinishEvents,
         ConcurrencyPolicies
<1>2. OneSection'
  BY <1>0 DEF OneSection
<1>3. IdleIsFresh'
  BY <1>0
<1>4. RowFollowsCall'
  BY <1>0
<1>5. InstanceBeforeAttempt'
  BY <1>0 DEF InstanceBeforeAttempt
<1>6. StartIsAlone'
  BY <1>0 DEF StartIsAlone, InstanceBeforeAttempt
<1>7. OneEngaged'
  BY <1>0 DEF OneEngaged, Engaged, InstanceBeforeAttempt, StartIsAlone, NoWaitWhileRunning,
              OneSection
<1>8. OneLiveInstance'
  BY <1>0 DEF OneLiveInstance, Live, Exclusive, SameDefinition, InstanceBackedByAttempt,
              InstanceStatuses, Outcomes
<1>9. OneWaitingStep'
  BY <1>0 DEF OneWaitingStep, NoWaitWhileRunning, OneEngaged, Engaged
<1>10. NoWaitWhileRunning'
  BY <1>0 DEF NoWaitWhileRunning, Engaged, OneEngaged, OneWaitingStep, StartIsAlone
<1>11. InstanceBackedByAttempt'
  BY <1>0 DEF InstanceBackedByAttempt, Outcomes, InstanceBeforeAttempt
<1>. QED  BY <1>1, <1>2, <1>3, <1>4, <1>5, <1>6, <1>7, <1>8, <1>9, <1>10, <1>11

(* The attempt.* event changes no row. *)
LEMMA AppendFinishEventKeeps ==
  ASSUME IInv, NEW a \in Attempts, AppendFinishEvent(a)
  PROVE  IInv'
<1>. USE RuntimeAssumption
     DEF RuntimeAssumption, IInv, TypeOK, IdleIsFresh, RowFollowsCall, SyncSections, Locations,
         RunningAt, Steps, SameInstance,
         At, CpuFree, GoTo, WriteInstance, WriteAttempt, WriteStep, database, AppendFinishEvent,
         EventOf
<1>1. TypeOK'
  BY DEF InstanceStatuses, AttemptStatuses, StepStatuses, Outcomes, FinishEvents,
         ConcurrencyPolicies
<1>2. OneSection'
  BY DEF OneSection
<1>3. IdleIsFresh'
  OBVIOUS
<1>4. RowFollowsCall'
  OBVIOUS
<1>5. InstanceBeforeAttempt'
  BY DEF InstanceBeforeAttempt
<1>6. StartIsAlone'
  BY DEF StartIsAlone, InstanceBeforeAttempt
<1>7. OneEngaged'
  BY DEF OneEngaged, Engaged, InstanceBeforeAttempt, StartIsAlone, NoWaitWhileRunning, OneSection
<1>8. OneLiveInstance'
  BY DEF OneLiveInstance, Live, Exclusive, SameDefinition, InstanceBackedByAttempt,
         InstanceStatuses, Outcomes
<1>9. OneWaitingStep'
  BY DEF OneWaitingStep, NoWaitWhileRunning, OneEngaged, Engaged
<1>10. NoWaitWhileRunning'
  BY DEF NoWaitWhileRunning, Engaged, OneEngaged, OneWaitingStep, StartIsAlone
<1>11. InstanceBackedByAttempt'
  BY DEF InstanceBackedByAttempt, Outcomes, InstanceBeforeAttempt
<1>. QED  BY <1>1, <1>2, <1>3, <1>4, <1>5, <1>6, <1>7, <1>8, <1>9, <1>10, <1>11

(* resume() finds a waiting instance, in which no attempt runs. *)
LEMMA ResumeKeeps ==
  ASSUME IInv, NEW a \in Attempts, NEW i \in Instances, Resume(a, i)
  PROVE  IInv'
<1>0. /\ pc[a] = "idle" /\ attempt[a] = "absent" /\ attemptInstance[a] = None /\ None \notin Instances
      /\ step' = step /\ executed' = executed /\ pc' = [pc EXCEPT ![a] = "consumeWait"]
      /\ attempt' = [attempt EXCEPT ![a] = "running"]
      /\ attemptInstance' = [attemptInstance EXCEPT ![a] = i] /\ instance[i] = "waiting"
      /\ \A s \in Steps : step[a][s] = "absent"
  <2>1. pc[a] = "idle"
    BY DEF Resume, At
  <2>2. /\ attempt[a] = "absent" /\ attemptInstance[a] = None
        /\ \A s \in Steps : step[a][s] = "absent"
    BY <2>1 DEF IInv, IdleIsFresh
  <2>. QED  BY <2>1, <2>2, RuntimeAssumption DEF Resume, GoTo, WriteAttempt
<1>00. \A b \in Attempts : b # a => attemptInstance'[b] = attemptInstance[b] /\ attempt'[b] = attempt[b]
  BY <1>0 DEF IInv, TypeOK
<1>. USE RuntimeAssumption
     DEF RuntimeAssumption, IInv, TypeOK, IdleIsFresh, RowFollowsCall, SyncSections, Locations,
         RunningAt, Steps, SameInstance,
         At, CpuFree, GoTo, WriteInstance, WriteAttempt, WriteStep, database, Resume, WaitingSteps
<1>1. TypeOK'
  BY DEF InstanceStatuses, AttemptStatuses, StepStatuses, Outcomes, FinishEvents,
         ConcurrencyPolicies
<1>2. OneSection'
  BY <1>0, <1>00 DEF OneSection
<1>3. IdleIsFresh'
  BY <1>0, <1>00
<1>4. RowFollowsCall'
  BY <1>0, <1>00
<1>5. InstanceBeforeAttempt'
  BY <1>0, <1>00 DEF InstanceBeforeAttempt
<1>6. StartIsAlone'
  BY <1>0, <1>00 DEF StartIsAlone, InstanceBeforeAttempt
<1>7. OneEngaged'
  BY <1>0, <1>00 DEF OneEngaged, Engaged, InstanceBeforeAttempt, StartIsAlone,
                     NoWaitWhileRunning, OneSection
<1>8. OneLiveInstance'
  BY <1>0, <1>00 DEF OneLiveInstance, Live, Exclusive, SameDefinition, InstanceBackedByAttempt,
                     InstanceStatuses, Outcomes
<1>9. OneWaitingStep'
  <2>. SUFFICES ASSUME NEW b \in Attempts, NEW c \in Attempts, NEW s \in Steps, NEW t \in Steps,
                       step[b][s] = "waiting", step[c][t] = "waiting", SameInstance(b, c)'
                PROVE  b = c /\ s = t
    BY <1>0 DEF OneWaitingStep
  <2>1. b # a /\ c # a
    BY <1>0
  <2>. QED  BY <1>0, <2>1 DEF OneWaitingStep
<1>10. NoWaitWhileRunning'
  <2>. SUFFICES ASSUME NEW c \in Attempts, NEW b \in Attempts, NEW s \in Steps,
                       attempt'[c] = "running", step[b][s] = "waiting", SameInstance(c, b)'
                PROVE  \/ pc'[c] = "consumeWait" /\ resumedFrom'[c] = <<b, s>>
                       \/ pc'[c] = "finishAttempt" /\ c = b
    BY <1>0 DEF NoWaitWhileRunning
  <2>1. b # a /\ attemptInstance'[b] = attemptInstance[b]
    BY <1>0
  <2>2. CASE c = a
    <3>1. PICK w \in WaitingSteps(i) : resumedFrom'[a] = w
      OBVIOUS
    <3>2. attemptInstance[b] = i
      BY <2>1, <2>2
    <3>3. w = <<b, s>>
      BY <3>1, <3>2 DEF OneWaitingStep
    <3>. QED  BY <2>2, <3>1, <3>3
  <2>3. CASE c # a
    BY <1>0, <2>1, <2>3 DEF NoWaitWhileRunning
  <2>. QED  BY <2>2, <2>3
<1>11. InstanceBackedByAttempt'
  BY <1>0, <1>00 DEF InstanceBackedByAttempt, Outcomes, InstanceBeforeAttempt
<1>. QED  BY <1>1, <1>2, <1>3, <1>4, <1>5, <1>6, <1>7, <1>8, <1>9, <1>10, <1>11

(* The signal consumes the only waiting step of the instance. *)
LEMMA ConsumeWaitKeeps ==
  ASSUME IInv, NEW a \in Attempts, ConsumeWait(a)
  PROVE  IInv'
<1>. USE RuntimeAssumption
     DEF RuntimeAssumption, IInv, TypeOK, IdleIsFresh, RowFollowsCall, SyncSections, Locations,
         RunningAt, Steps, SameInstance,
         At, CpuFree, GoTo, WriteInstance, WriteAttempt, WriteStep, database, ConsumeWait
<1>1. TypeOK'
  BY DEF InstanceStatuses, AttemptStatuses, StepStatuses, Outcomes, FinishEvents,
         ConcurrencyPolicies
<1>2. OneSection'
  BY DEF OneSection
<1>3. IdleIsFresh'
  OBVIOUS
<1>4. RowFollowsCall'
  OBVIOUS
<1>5. InstanceBeforeAttempt'
  BY DEF InstanceBeforeAttempt
<1>6. StartIsAlone'
  BY DEF StartIsAlone, InstanceBeforeAttempt
<1>7. OneEngaged'
  BY DEF OneEngaged, Engaged, InstanceBeforeAttempt, StartIsAlone, NoWaitWhileRunning, OneSection
<1>8. OneLiveInstance'
  BY DEF OneLiveInstance, Live, Exclusive, SameDefinition, InstanceBackedByAttempt,
         InstanceStatuses, Outcomes
<1>9. OneWaitingStep'
  BY DEF OneWaitingStep, NoWaitWhileRunning, OneEngaged, Engaged
<1>10. NoWaitWhileRunning'
  BY DEF NoWaitWhileRunning, Engaged, OneEngaged, OneWaitingStep, StartIsAlone
<1>11. InstanceBackedByAttempt'
  BY DEF InstanceBackedByAttempt, Outcomes, InstanceBeforeAttempt
<1>. QED  BY <1>1, <1>2, <1>3, <1>4, <1>5, <1>6, <1>7, <1>8, <1>9, <1>10, <1>11

(* The resumed attempt records the step it resumed from. *)
LEMMA MarkResumedKeeps ==
  ASSUME IInv, NEW a \in Attempts, MarkResumed(a)
  PROVE  IInv'
<1>. USE RuntimeAssumption
     DEF RuntimeAssumption, IInv, TypeOK, IdleIsFresh, RowFollowsCall, SyncSections, Locations,
         RunningAt, Steps, SameInstance,
         At, CpuFree, GoTo, WriteInstance, WriteAttempt, WriteStep, database, MarkResumed
<1>1. TypeOK'
  BY DEF InstanceStatuses, AttemptStatuses, StepStatuses, Outcomes, FinishEvents,
         ConcurrencyPolicies
<1>2. OneSection'
  BY DEF OneSection
<1>3. IdleIsFresh'
  OBVIOUS
<1>4. RowFollowsCall'
  OBVIOUS
<1>5. InstanceBeforeAttempt'
  BY DEF InstanceBeforeAttempt
<1>6. StartIsAlone'
  BY DEF StartIsAlone, InstanceBeforeAttempt
<1>7. OneEngaged'
  BY DEF OneEngaged, Engaged, InstanceBeforeAttempt, StartIsAlone, NoWaitWhileRunning, OneSection
<1>8. OneLiveInstance'
  BY DEF OneLiveInstance, Live, Exclusive, SameDefinition, InstanceBackedByAttempt,
         InstanceStatuses, Outcomes
<1>9. OneWaitingStep'
  BY DEF OneWaitingStep, NoWaitWhileRunning, OneEngaged, Engaged
<1>10. NoWaitWhileRunning'
  BY DEF NoWaitWhileRunning, Engaged, OneEngaged, OneWaitingStep, StartIsAlone
<1>11. InstanceBackedByAttempt'
  BY DEF InstanceBackedByAttempt, Outcomes, InstanceBeforeAttempt
<1>. QED  BY <1>1, <1>2, <1>3, <1>4, <1>5, <1>6, <1>7, <1>8, <1>9, <1>10, <1>11

(* A restart ends every call and interrupts the running attempts. *)
LEMMA RestartKeeps ==
  ASSUME IInv, Restart
  PROVE  IInv'
<1>0. /\ pc' = [b \in Attempts |-> IF pc[b] = "idle" THEN "idle" ELSE "done"]
      /\ attempt' = [b \in Attempts |-> IF attempt[b] = "running" THEN "interrupted" ELSE attempt[b]]
      /\ UNCHANGED <<policy, instance, attemptInstance, step, finishEvent, at, outcome,
                     resumedFrom, executed>>
  BY DEF Restart, Interrupted
<1>. USE RuntimeAssumption, <1>0
     DEF RuntimeAssumption, IInv, TypeOK, IdleIsFresh, RowFollowsCall, SyncSections, Locations,
         RunningAt, Steps, SameInstance
<1>1. TypeOK'
  BY DEF AttemptStatuses
<1>2. OneSection'
  BY DEF OneSection
<1>3. IdleIsFresh'
  OBVIOUS
<1>4. RowFollowsCall'
  OBVIOUS
<1>5. InstanceBeforeAttempt'
  BY DEF InstanceBeforeAttempt
<1>6. StartIsAlone'
  BY DEF StartIsAlone
<1>7. OneEngaged'
  BY DEF OneEngaged, Engaged
<1>8. OneLiveInstance'
  BY DEF OneLiveInstance, Live, Exclusive, SameDefinition
<1>9. OneWaitingStep'
  BY DEF OneWaitingStep
<1>10. NoWaitWhileRunning'
  BY DEF NoWaitWhileRunning
<1>11. InstanceBackedByAttempt'
  BY DEF InstanceBackedByAttempt, Outcomes
<1>. QED  BY <1>1, <1>2, <1>3, <1>4, <1>5, <1>6, <1>7, <1>8, <1>9, <1>10, <1>11

(* The invariant depends on nothing but the variables. *)
LEMMA StutterKeeps ==
  ASSUME IInv, UNCHANGED vars
  PROVE  IInv'
<1>. USE DEF vars, database, memory
<1>1. TypeOK' /\ OneSection' /\ IdleIsFresh' /\ RowFollowsCall' /\ InstanceBeforeAttempt'
  BY DEF IInv, TypeOK, OneSection, IdleIsFresh, RowFollowsCall, InstanceBeforeAttempt
<1>2. StartIsAlone' /\ OneEngaged' /\ OneLiveInstance'
  BY DEF IInv, StartIsAlone, OneEngaged, Engaged, OneLiveInstance, Live, SameInstance,
         SameDefinition, Exclusive
<1>3. OneWaitingStep' /\ NoWaitWhileRunning' /\ InstanceBackedByAttempt'
  BY DEF IInv, OneWaitingStep, NoWaitWhileRunning, InstanceBackedByAttempt, SameInstance
<1>. QED  BY <1>1, <1>2, <1>3 DEF IInv

(* An empty database satisfies the invariant. *)
LEMMA InitEstablishes == Init => IInv
<1>. SUFFICES ASSUME Init PROVE IInv
  OBVIOUS
<1>. USE RuntimeAssumption DEF RuntimeAssumption, Init, Steps, SyncSections, Locations, RunningAt
<1>1. TypeOK
  BY DEF TypeOK, InstanceStatuses, AttemptStatuses, StepStatuses, Outcomes, FinishEvents
<1>2. OneSection /\ IdleIsFresh /\ RowFollowsCall /\ InstanceBeforeAttempt /\ StartIsAlone
  BY DEF OneSection, IdleIsFresh, RowFollowsCall, InstanceBeforeAttempt, StartIsAlone
<1>3. OneEngaged /\ OneLiveInstance /\ OneWaitingStep /\ NoWaitWhileRunning
  BY DEF OneEngaged, Engaged, OneLiveInstance, Live, OneWaitingStep, NoWaitWhileRunning
<1>4. InstanceBackedByAttempt
  BY DEF InstanceBackedByAttempt, Outcomes
<1>. QED  BY <1>1, <1>2, <1>3, <1>4 DEF IInv

(* Every step keeps the invariant: one case per action. *)
LEMMA NextKeeps == IInv /\ [Next]_vars => IInv'
<1>. SUFFICES ASSUME IInv, [Next]_vars PROVE IInv'
  OBVIOUS
<1>1. CASE UNCHANGED vars
  BY <1>1, StutterKeeps
<1>2. CASE Restart
  BY <1>2, RestartKeeps
<1>3. ASSUME NEW a \in Attempts, NEW i \in Instances, Start(a, i) \/ Resume(a, i)
      PROVE  IInv'
  BY <1>3, StartKeeps, ResumeKeeps
<1>4. ASSUME NEW a \in Attempts, CallStep(a)
      PROVE  IInv'
  <2>1. CASE BlockAttempt(a) \/ CloseInstance(a) \/ AdmitAttempt(a)
    BY <2>1, BlockAttemptKeeps, CloseInstanceKeeps, AdmitAttemptKeeps
  <2>2. CASE StartStep(a) \/ StepsExhausted(a) \/ DenyStep(a) \/ EnterStep(a)
    BY <2>2, StartStepKeeps, StepsExhaustedKeeps, DenyStepKeeps, EnterStepKeeps
  <2>3. CASE StepContinues(a) \/ StepThrows(a)
    BY <2>3, StepContinuesKeeps, StepThrowsKeeps
  <2>4. CASE \E verdict \in {"succeeded", "waiting", "failed"} : StepSettles(a, verdict)
    BY <2>4, StepSettlesKeeps
  <2>5. CASE FinishAttempt(a) \/ FinishInstance(a) \/ AppendFinishEvent(a)
    BY <2>5, FinishAttemptKeeps, FinishInstanceKeeps, AppendFinishEventKeeps
  <2>6. CASE ConsumeWait(a) \/ MarkResumed(a)
    BY <2>6, ConsumeWaitKeeps, MarkResumedKeeps
  <2>. QED  BY <1>4, <2>1, <2>2, <2>3, <2>4, <2>5, <2>6 DEF CallStep
<1>. QED  BY <1>1, <1>2, <1>3, <1>4 DEF Next

(* IInv is an inductive invariant of the runtime. *)
THEOREM Invariance == Spec => []IInv
<1>1. Init => IInv
  BY InitEstablishes
<1>2. IInv /\ [Next]_vars => IInv'
  BY NextKeeps
<1>. QED  BY <1>1, <1>2, PTL DEF Spec

(* Two running attempts exclude each other: of one instance because one call
   per instance is engaged, of one definition because its live attempts
   belong to one instance. *)
LEMMA RunningIsEngaged ==
  ASSUME IInv
  PROVE  MutualExclusion
<1>. SUFFICES ASSUME NEW a \in Attempts, NEW b \in Attempts,
                     attempt[a] = "running", attempt[b] = "running"
              PROVE  /\ SameInstance(a, b) => a = b
                     /\ SameDefinition(a, b) /\ Exclusive(a) => a = b
  BY DEF MutualExclusion
<1>1. attemptInstance[a] \in Instances
  BY DEF IInv, IdleIsFresh
<1>2. SameInstance(a, b) => a = b
  BY <1>1 DEF IInv, OneEngaged, Engaged
<1>3. SameDefinition(a, b) /\ Exclusive(a) => SameInstance(a, b)
  BY DEF IInv, OneLiveInstance, Live
<1>. QED  BY <1>2, <1>3

(* Rows and calls stay in the states the code knows. *)
THEOREM TypeCorrect == Spec => []TypeOK
<1>1. IInv => TypeOK
  BY DEF IInv
<1>. QED  BY <1>1, Invariance, PTL

(* The concurrency policy keeps its promise through signals and restarts. *)
THEOREM MutualExclusionHolds == Spec => []MutualExclusion
<1>1. IInv => MutualExclusion
  BY RunningIsEngaged
<1>. QED  BY <1>1, Invariance, PTL

(* An instance that waits, is queued or has ended has an attempt that says so. *)
THEOREM InstanceIsBacked == Spec => []InstanceBackedByAttempt
<1>1. IInv => InstanceBackedByAttempt
  BY DEF IInv
<1>. QED  BY <1>1, Invariance, PTL

-----------------------------------------------------------------------------
(***************************************************************************)
(* What WorkflowRuntime keeps about its past: verdicts, events, executed   *)
(* steps and answered signals.  Each property has a strengthening of its   *)
(* own that is inductive beside IInv.                                      *)
(***************************************************************************)

Finishing == {"finishAttempt", "finishInstance", "appendEvent"}

(* The instance stays open until finish() writes it, and then agrees with  *)
(* the verdict until the event is appended.                                *)
InstanceOpen ==
  \A a \in Attempts :
    /\ pc[a] \in RunningAt \cup {"checkPolicy", "closeInstance", "finishInstance"} =>
         instance[attemptInstance[a]] \in {"running", "waiting"}
    /\ pc[a] = "appendEvent" => instance[attemptInstance[a]] = outcome[a]

(* The event is the last write of a call. *)
EventIsLast == \A a \in Attempts : finishEvent[a] # "absent" => pc[a] = "done"

(* A failed or denied step fails the attempt. *)
FailedStepFails ==
  \A a \in Attempts, s \in Steps :
    step[a][s] \in {"failed", "skipped"} =>
      /\ finishEvent[a] # "attempt.completed"
      /\ \/ pc[a] \in Finishing /\ outcome[a] = "failed"
         \/ pc[a] = "done" /\ attempt[a] \in {"failed", "interrupted"}

VerdictInv == InstanceOpen /\ EventIsLast /\ FailedStepFails /\ FactsFollowState

(* No step has been run that the running or waiting step does not follow. *)
FrontierOfCall ==
  \A a \in Attempts, e \in executed :
    SameInstance(a, e[1]) =>
      /\ pc[a] \in {"startStep", "stepGate"} => e[2] < at[a]
      /\ pc[a] = "inStep" => e[2] <= at[a]
      /\ pc[a] \in {"consumeWait", "markResumed"} => e[2] <= resumedFrom[a][2]
FrontierOfWait ==
  \A a \in Attempts, s \in Steps, e \in executed :
    step[a][s] = "waiting" /\ SameInstance(a, e[1]) => e[2] <= s

FrontierInv == FrontierOfCall /\ FrontierOfWait /\ StepsRunOnce

(* A call leaves a waiting row only where it ends. *)
WaitIsLast ==
  \A a \in Attempts, s \in Steps : step[a][s] = "waiting" => pc[a] \in Finishing \cup {"done"}

(* A resumed call goes on behind the step it resumed from, whose call ended. *)
ResumedBehind ==
  \A a \in Attempts :
    resumedFrom[a] # None =>
      /\ pc[a] \notin {"idle", "checkPolicy", "closeInstance"}
      /\ pc[resumedFrom[a][1]] = "done"
      /\ pc[a] \in {"startStep", "stepGate", "inStep"} => at[a] > resumedFrom[a][2]
      /\ step[a][resumedFrom[a][2]] \in {"absent", "succeeded"}

(* A consumed wait stays consumed ... *)
WaitConsumed ==
  \A a \in Attempts :
    TookOver(a) \/ pc[a] = "markResumed" =>
      step[resumedFrom[a][1]][resumedFrom[a][2]] = "succeeded"

(* ... by the one call that is about to take over. *)
TakesOverFirst ==
  \A a, b \in Attempts :
    pc[a] = "markResumed" /\ TookOver(b) => resumedFrom[a] # resumedFrom[b]

AnswerInv ==
  WaitIsLast /\ ResumedBehind /\ WaitConsumed /\ TakesOverFirst /\ SignalAnsweredOnce
-----------------------------------------------------------------------------
(* What start() finds of the attempt it is called for, and leaves of it. *)
LEMMA StartFacts ==
  ASSUME IInv, NEW a \in Attempts, NEW i \in Instances, Start(a, i)
  PROVE  /\ pc[a] = "idle" /\ step' = step /\ executed' = executed /\ at' = at
         /\ pc' = [pc EXCEPT ![a] = "checkPolicy"] /\ attemptInstance[a] = None
         /\ attemptInstance' = [attemptInstance EXCEPT ![a] = i]
         /\ resumedFrom' = resumedFrom
         /\ \A s \in Steps : step[a][s] = "absent" /\ <<a, s>> \notin executed
<1>1. pc[a] = "idle"
  BY DEF Start, At
<1>2. attemptInstance[a] = None /\ \A s \in Steps : step[a][s] = "absent" /\ <<a, s>> \notin executed
  BY <1>1 DEF IInv, IdleIsFresh
<1>. QED  BY <1>1, <1>2 DEF Start, GoTo

(* What resume() finds and leaves: it has picked a waiting step. *)
LEMMA ResumeFacts ==
  ASSUME IInv, NEW a \in Attempts, NEW i \in Instances, Resume(a, i)
  PROVE  /\ pc[a] = "idle" /\ step' = step /\ executed' = executed /\ at' = at
         /\ pc' = [pc EXCEPT ![a] = "consumeWait"] /\ attemptInstance[a] = None
         /\ attemptInstance' = [attemptInstance EXCEPT ![a] = i]
         /\ \A s \in Steps : step[a][s] = "absent" /\ <<a, s>> \notin executed
         /\ \A b \in Attempts \ {a} : pc[b] \notin SyncSections
         /\ \E b \in Attempts, s \in Steps :
              /\ attemptInstance[b] = i /\ step[b][s] = "waiting"
              /\ resumedFrom' = [resumedFrom EXCEPT ![a] = <<b, s>>]
<1>1. pc[a] = "idle" /\ \A b \in Attempts \ {a} : pc[b] \notin SyncSections
  BY DEF Resume, At, CpuFree
<1>2. attemptInstance[a] = None /\ \A s \in Steps : step[a][s] = "absent" /\ <<a, s>> \notin executed
  BY <1>1 DEF IInv, IdleIsFresh
<1>3. \E b \in Attempts, s \in Steps :
        /\ attemptInstance[b] = i /\ step[b][s] = "waiting"
        /\ resumedFrom' = [resumedFrom EXCEPT ![a] = <<b, s>>]
  <2>1. PICK w \in WaitingSteps(i) : resumedFrom' = [resumedFrom EXCEPT ![a] = w]
    BY DEF Resume
  <2>2. PICK b \in Attempts, s \in Steps : w = <<b, s>>
    BY DEF WaitingSteps
  <2>3. attemptInstance[b] = i /\ step[b][s] = "waiting"
    BY <2>2 DEF WaitingSteps
  <2>. QED  BY <2>1, <2>2, <2>3
<1>. QED  BY <1>1, <1>2, <1>3 DEF Resume, GoTo

(* A throw settles the attempt as failed, or escapes and writes no row. *)
LEMMA ThrowSettlesOrEscapes ==
  ASSUME NEW a \in Attempts, StepThrows(a)
  PROVE  \/ StepSettles(a, "failed")
         \/ /\ pc[a] = "inStep" /\ pc' = [pc EXCEPT ![a] = "done"]
            /\ UNCHANGED <<policy, instance, attempt, attemptInstance, step, finishEvent, at,
                           outcome, resumedFrom, executed>>
  BY DEF StepThrows, StepSettles, At, GoTo

(* One call per instance is engaged, so the instance it finishes is still open. *)
LEMMA VerdictInvStep ==
  ASSUME IInv, VerdictInv, [Next]_vars
  PROVE  VerdictInv'
<1>. USE RuntimeAssumption
     DEF RuntimeAssumption, IInv, TypeOK, VerdictInv, IdleIsFresh, RowFollowsCall, SyncSections,
         Locations, RunningAt, Finishing, Steps, SameInstance, At, CpuFree, GoTo, WriteInstance,
         WriteAttempt, WriteStep, database
<1>1. CASE UNCHANGED vars
  <2>1. InstanceOpen'
    BY <1>1 DEF vars, memory, InstanceOpen, InstanceBeforeAttempt, OneEngaged, Engaged, StartIsAlone
  <2>2. EventIsLast'
    BY <1>1 DEF vars, memory, EventIsLast
  <2>3. FailedStepFails'
    BY <1>1 DEF vars, memory, FailedStepFails, EventIsLast
  <2>4. FactsFollowState'
    BY <1>1 DEF vars, memory, FactsFollowState, FailedStepFails, EventIsLast, InstanceOpen, EventOf
  <2>. QED  BY <2>1, <2>2, <2>3, <2>4 DEF VerdictInv
<1>2. CASE Restart
  <2>1. InstanceOpen'
    BY <1>2 DEF Restart, Interrupted, InstanceOpen, InstanceBeforeAttempt, OneEngaged, Engaged,
                StartIsAlone
  <2>2. EventIsLast'
    BY <1>2 DEF Restart, Interrupted, EventIsLast
  <2>3. FailedStepFails'
    BY <1>2 DEF Restart, Interrupted, FailedStepFails, EventIsLast
  <2>4. FactsFollowState'
    BY <1>2 DEF Restart, Interrupted, FactsFollowState, FailedStepFails, EventIsLast,
                InstanceOpen, EventOf
  <2>. QED  BY <2>1, <2>2, <2>3, <2>4 DEF VerdictInv
<1>3. ASSUME NEW a \in Attempts, NEW i \in Instances, Start(a, i)
      PROVE  VerdictInv'
  <2>1. InstanceOpen'
    BY <1>3 DEF Start, InstanceOpen, InstanceBeforeAttempt, OneEngaged, Engaged, StartIsAlone
  <2>2. EventIsLast'
    BY <1>3 DEF Start, EventIsLast
  <2>3. FailedStepFails'
    BY <1>3 DEF Start, FailedStepFails, EventIsLast
  <2>4. FactsFollowState'
    BY <1>3 DEF Start, FactsFollowState, FailedStepFails, EventIsLast, InstanceOpen, EventOf
  <2>. QED  BY <2>1, <2>2, <2>3, <2>4 DEF VerdictInv
<1>4. ASSUME NEW a \in Attempts, NEW i \in Instances, Resume(a, i)
      PROVE  VerdictInv'
  <2>1. InstanceOpen'
    BY <1>4 DEF Resume, WaitingSteps, InstanceOpen, InstanceBeforeAttempt, OneEngaged, Engaged,
                StartIsAlone
  <2>2. EventIsLast'
    BY <1>4 DEF Resume, WaitingSteps, EventIsLast
  <2>3. FailedStepFails'
    BY <1>4 DEF Resume, WaitingSteps, FailedStepFails, EventIsLast
  <2>4. FactsFollowState'
    BY <1>4 DEF Resume, WaitingSteps, FactsFollowState, FailedStepFails, EventIsLast,
                InstanceOpen, EventOf
  <2>. QED  BY <2>1, <2>2, <2>3, <2>4 DEF VerdictInv
<1>5. ASSUME NEW a \in Attempts, BlockAttempt(a)
      PROVE  VerdictInv'
  <2>1. InstanceOpen'
    BY <1>5 DEF BlockAttempt, InstanceOpen, InstanceBeforeAttempt, OneEngaged, Engaged, StartIsAlone
  <2>2. EventIsLast'
    BY <1>5 DEF BlockAttempt, EventIsLast
  <2>3. FailedStepFails'
    BY <1>5 DEF BlockAttempt, FailedStepFails, EventIsLast
  <2>4. FactsFollowState'
    BY <1>5 DEF BlockAttempt, FactsFollowState, FailedStepFails, EventIsLast, InstanceOpen, EventOf
  <2>. QED  BY <2>1, <2>2, <2>3, <2>4 DEF VerdictInv
<1>6. ASSUME NEW a \in Attempts, CloseInstance(a)
      PROVE  VerdictInv'
  <2>1. InstanceOpen'
    BY <1>6 DEF CloseInstance, InstanceOpen, InstanceBeforeAttempt, OneEngaged, Engaged,
                StartIsAlone
  <2>2. EventIsLast'
    BY <1>6 DEF CloseInstance, EventIsLast
  <2>3. FailedStepFails'
    BY <1>6 DEF CloseInstance, FailedStepFails, EventIsLast
  <2>4. FactsFollowState'
    BY <1>6 DEF CloseInstance, FactsFollowState, FailedStepFails, EventIsLast, InstanceOpen, EventOf
  <2>. QED  BY <2>1, <2>2, <2>3, <2>4 DEF VerdictInv
<1>7. ASSUME NEW a \in Attempts, AdmitAttempt(a)
      PROVE  VerdictInv'
  <2>1. InstanceOpen'
    BY <1>7 DEF AdmitAttempt, Blocked, ActiveAttempts, InstanceOpen, InstanceBeforeAttempt,
                OneEngaged, Engaged, StartIsAlone
  <2>2. EventIsLast'
    BY <1>7 DEF AdmitAttempt, Blocked, ActiveAttempts, EventIsLast
  <2>3. FailedStepFails'
    BY <1>7 DEF AdmitAttempt, Blocked, ActiveAttempts, FailedStepFails, EventIsLast
  <2>4. FactsFollowState'
    BY <1>7 DEF AdmitAttempt, Blocked, ActiveAttempts, FactsFollowState, FailedStepFails,
                EventIsLast, InstanceOpen, EventOf
  <2>. QED  BY <2>1, <2>2, <2>3, <2>4 DEF VerdictInv
<1>8. ASSUME NEW a \in Attempts, StartStep(a)
      PROVE  VerdictInv'
  <2>1. InstanceOpen'
    BY <1>8 DEF StartStep, InstanceOpen, InstanceBeforeAttempt, OneEngaged, Engaged, StartIsAlone
  <2>2. EventIsLast'
    BY <1>8 DEF StartStep, EventIsLast
  <2>3. FailedStepFails'
    BY <1>8 DEF StartStep, FailedStepFails, EventIsLast
  <2>4. FactsFollowState'
    BY <1>8 DEF StartStep, FactsFollowState, FailedStepFails, EventIsLast, InstanceOpen, EventOf
  <2>. QED  BY <2>1, <2>2, <2>3, <2>4 DEF VerdictInv
<1>9. ASSUME NEW a \in Attempts, StepsExhausted(a)
      PROVE  VerdictInv'
  <2>1. InstanceOpen'
    BY <1>9 DEF StepsExhausted, Conclude, InstanceOpen, InstanceBeforeAttempt, OneEngaged,
                Engaged, StartIsAlone
  <2>2. EventIsLast'
    BY <1>9 DEF StepsExhausted, Conclude, EventIsLast
  <2>3. FailedStepFails'
    BY <1>9 DEF StepsExhausted, Conclude, FailedStepFails, EventIsLast
  <2>4. FactsFollowState'
    BY <1>9 DEF StepsExhausted, Conclude, FactsFollowState, FailedStepFails, EventIsLast,
                InstanceOpen, EventOf
  <2>. QED  BY <2>1, <2>2, <2>3, <2>4 DEF VerdictInv
<1>10. ASSUME NEW a \in Attempts, DenyStep(a)
      PROVE  VerdictInv'
  <2>1. InstanceOpen'
    BY <1>10 DEF DenyStep, Conclude, InstanceOpen, InstanceBeforeAttempt, OneEngaged, Engaged,
                 StartIsAlone
  <2>2. EventIsLast'
    BY <1>10 DEF DenyStep, Conclude, EventIsLast
  <2>3. FailedStepFails'
    BY <1>10 DEF DenyStep, Conclude, FailedStepFails, EventIsLast
  <2>4. FactsFollowState'
    BY <1>10 DEF DenyStep, Conclude, FactsFollowState, FailedStepFails, EventIsLast,
                 InstanceOpen, EventOf
  <2>. QED  BY <2>1, <2>2, <2>3, <2>4 DEF VerdictInv
<1>11. ASSUME NEW a \in Attempts, EnterStep(a)
      PROVE  VerdictInv'
  <2>1. InstanceOpen'
    BY <1>11 DEF EnterStep, InstanceOpen, InstanceBeforeAttempt, OneEngaged, Engaged, StartIsAlone
  <2>2. EventIsLast'
    BY <1>11 DEF EnterStep, EventIsLast
  <2>3. FailedStepFails'
    BY <1>11 DEF EnterStep, FailedStepFails, EventIsLast
  <2>4. FactsFollowState'
    BY <1>11 DEF EnterStep, FactsFollowState, FailedStepFails, EventIsLast, InstanceOpen, EventOf
  <2>. QED  BY <2>1, <2>2, <2>3, <2>4 DEF VerdictInv
<1>12. ASSUME NEW a \in Attempts, StepContinues(a)
      PROVE  VerdictInv'
  <2>1. InstanceOpen'
    BY <1>12 DEF StepContinues, InstanceOpen, InstanceBeforeAttempt, OneEngaged, Engaged,
                 StartIsAlone
  <2>2. EventIsLast'
    BY <1>12 DEF StepContinues, EventIsLast
  <2>3. FailedStepFails'
    BY <1>12 DEF StepContinues, FailedStepFails, EventIsLast
  <2>4. FactsFollowState'
    BY <1>12 DEF StepContinues, FactsFollowState, FailedStepFails, EventIsLast, InstanceOpen,
                 EventOf
  <2>. QED  BY <2>1, <2>2, <2>3, <2>4 DEF VerdictInv
<1>13. ASSUME NEW a \in Attempts, NEW verdict \in {"succeeded", "waiting", "failed"}, StepSettles(a, verdict)
      PROVE  VerdictInv'
  <2>1. InstanceOpen'
    BY <1>13 DEF StepSettles, Conclude, InstanceOpen, InstanceBeforeAttempt, OneEngaged, Engaged,
                 StartIsAlone
  <2>2. EventIsLast'
    BY <1>13 DEF StepSettles, Conclude, EventIsLast
  <2>3. FailedStepFails'
    BY <1>13 DEF StepSettles, Conclude, FailedStepFails, EventIsLast
  <2>4. FactsFollowState'
    BY <1>13 DEF StepSettles, Conclude, FactsFollowState, FailedStepFails, EventIsLast,
                 InstanceOpen, EventOf
  <2>. QED  BY <2>1, <2>2, <2>3, <2>4 DEF VerdictInv
<1>14. ASSUME NEW a \in Attempts, StepThrows(a)
      PROVE  VerdictInv'
  <2>1. InstanceOpen'
    BY <1>14 DEF StepThrows, Conclude, InstanceOpen, InstanceBeforeAttempt, OneEngaged, Engaged,
                 StartIsAlone
  <2>2. EventIsLast'
    BY <1>14 DEF StepThrows, Conclude, EventIsLast
  <2>3. FailedStepFails'
    BY <1>14 DEF StepThrows, Conclude, FailedStepFails, EventIsLast
  <2>4. FactsFollowState'
    BY <1>14 DEF StepThrows, Conclude, FactsFollowState, FailedStepFails, EventIsLast,
                 InstanceOpen, EventOf
  <2>. QED  BY <2>1, <2>2, <2>3, <2>4 DEF VerdictInv
<1>15. ASSUME NEW a \in Attempts, FinishAttempt(a)
      PROVE  VerdictInv'
  <2>1. InstanceOpen'
    BY <1>15 DEF FinishAttempt, InstanceOpen, InstanceBeforeAttempt, OneEngaged, Engaged,
                 StartIsAlone
  <2>2. EventIsLast'
    BY <1>15 DEF FinishAttempt, EventIsLast
  <2>3. FailedStepFails'
    BY <1>15 DEF FinishAttempt, FailedStepFails, EventIsLast
  <2>4. FactsFollowState'
    BY <1>15 DEF FinishAttempt, FactsFollowState, FailedStepFails, EventIsLast, InstanceOpen,
                 EventOf
  <2>. QED  BY <2>1, <2>2, <2>3, <2>4 DEF VerdictInv
<1>16. ASSUME NEW a \in Attempts, FinishInstance(a)
      PROVE  VerdictInv'
  <2>1. InstanceOpen'
    BY <1>16 DEF FinishInstance, InstanceOpen, InstanceBeforeAttempt, OneEngaged, Engaged,
                 StartIsAlone
  <2>2. EventIsLast'
    BY <1>16 DEF FinishInstance, EventIsLast
  <2>3. FailedStepFails'
    BY <1>16 DEF FinishInstance, FailedStepFails, EventIsLast
  <2>4. FactsFollowState'
    BY <1>16 DEF FinishInstance, FactsFollowState, FailedStepFails, EventIsLast, InstanceOpen,
                 EventOf
  <2>. QED  BY <2>1, <2>2, <2>3, <2>4 DEF VerdictInv
<1>17. ASSUME NEW a \in Attempts, AppendFinishEvent(a)
      PROVE  VerdictInv'
  <2>1. InstanceOpen'
    BY <1>17 DEF AppendFinishEvent, EventOf, InstanceOpen, InstanceBeforeAttempt, OneEngaged,
                 Engaged, StartIsAlone
  <2>2. EventIsLast'
    BY <1>17 DEF AppendFinishEvent, EventOf, EventIsLast
  <2>3. FailedStepFails'
    BY <1>17 DEF AppendFinishEvent, EventOf, FailedStepFails, EventIsLast
  <2>4. FactsFollowState'
    BY <1>17 DEF AppendFinishEvent, EventOf, FactsFollowState, FailedStepFails, EventIsLast,
                 InstanceOpen, EventOf
  <2>. QED  BY <2>1, <2>2, <2>3, <2>4 DEF VerdictInv
<1>18. ASSUME NEW a \in Attempts, ConsumeWait(a)
      PROVE  VerdictInv'
  <2>1. InstanceOpen'
    BY <1>18 DEF ConsumeWait, InstanceOpen, InstanceBeforeAttempt, OneEngaged, Engaged, StartIsAlone
  <2>2. EventIsLast'
    BY <1>18 DEF ConsumeWait, EventIsLast
  <2>3. FailedStepFails'
    BY <1>18 DEF ConsumeWait, FailedStepFails, EventIsLast
  <2>4. FactsFollowState'
    BY <1>18 DEF ConsumeWait, FactsFollowState, FailedStepFails, EventIsLast, InstanceOpen, EventOf
  <2>. QED  BY <2>1, <2>2, <2>3, <2>4 DEF VerdictInv
<1>19. ASSUME NEW a \in Attempts, MarkResumed(a)
      PROVE  VerdictInv'
  <2>1. InstanceOpen'
    BY <1>19 DEF MarkResumed, InstanceOpen, InstanceBeforeAttempt, OneEngaged, Engaged, StartIsAlone
  <2>2. EventIsLast'
    BY <1>19 DEF MarkResumed, EventIsLast
  <2>3. FailedStepFails'
    BY <1>19 DEF MarkResumed, FailedStepFails, EventIsLast
  <2>4. FactsFollowState'
    BY <1>19 DEF MarkResumed, FactsFollowState, FailedStepFails, EventIsLast, InstanceOpen, EventOf
  <2>. QED  BY <2>1, <2>2, <2>3, <2>4 DEF VerdictInv
<1>. QED  BY <1>1, <1>2, <1>3, <1>4, <1>5, <1>6, <1>7, <1>8, <1>9, <1>10, <1>11, <1>12, <1>13,
             <1>14, <1>15, <1>16, <1>17, <1>18, <1>19 DEF Next, CallStep

(* A call only runs the step behind the last one run of its instance. *)
LEMMA FrontierInvStep ==
  ASSUME IInv, FrontierInv, [Next]_vars
  PROVE  FrontierInv'
<1>1. ASSUME NEW a \in Attempts, NEW i \in Instances, Start(a, i)
      PROVE  FrontierInv'
  <2>0. /\ pc[a] = "idle" /\ step' = step /\ executed' = executed /\ at' = at
       /\ pc' = [pc EXCEPT ![a] = "checkPolicy"] /\ attemptInstance[a] = None
       /\ attemptInstance' = [attemptInstance EXCEPT ![a] = i]
       /\ resumedFrom' = resumedFrom
       /\ \A s \in Steps : step[a][s] = "absent" /\ <<a, s>> \notin executed
    BY <1>1, StartFacts
  <2>. USE RuntimeAssumption
       DEF RuntimeAssumption, IInv, TypeOK, FrontierInv, IdleIsFresh, RowFollowsCall,
           SyncSections, Locations, RunningAt, Finishing, Steps, SameInstance
  <2>1. FrontierOfCall'
    BY <2>0 DEF FrontierOfCall, FrontierOfWait, OneEngaged, Engaged, StartIsAlone
  <2>2. FrontierOfWait'
    <3>. SUFFICES ASSUME NEW c \in Attempts, NEW t \in Steps, NEW e \in executed,
                         step[c][t] = "waiting", attemptInstance'[c] = attemptInstance'[e[1]]
                  PROVE  e[2] <= t
      BY <2>0 DEF FrontierOfWait
    <3>1. c # a
      BY <2>0
    <3>2. e[1] \in Attempts /\ e[2] \in Steps /\ e = <<e[1], e[2]>>
      OBVIOUS
    <3>3. e[1] # a
      BY <2>0, <3>2
    <3>4. attemptInstance[c] = attemptInstance[e[1]]
      BY <2>0, <3>1, <3>2, <3>3
    <3>. QED  BY <3>4 DEF FrontierOfWait
  <2>3. StepsRunOnce'
    BY <2>0 DEF StepsRunOnce, FrontierOfCall
  <2>. QED  BY <2>1, <2>2, <2>3 DEF FrontierInv
<1>2. ASSUME NEW a \in Attempts, NEW i \in Instances, Resume(a, i)
      PROVE  FrontierInv'
  <2>0. /\ pc[a] = "idle" /\ step' = step /\ executed' = executed /\ at' = at
       /\ pc' = [pc EXCEPT ![a] = "consumeWait"] /\ attemptInstance[a] = None
       /\ attemptInstance' = [attemptInstance EXCEPT ![a] = i]
       /\ \A s \in Steps : step[a][s] = "absent" /\ <<a, s>> \notin executed
       /\ \A b \in Attempts \ {a} : pc[b] \notin SyncSections
    BY <1>2, ResumeFacts
  <2>00. PICK b \in Attempts, s \in Steps :
           /\ attemptInstance[b] = i /\ step[b][s] = "waiting"
           /\ resumedFrom' = [resumedFrom EXCEPT ![a] = <<b, s>>]
    BY <1>2, ResumeFacts
  <2>. USE RuntimeAssumption
       DEF RuntimeAssumption, IInv, TypeOK, FrontierInv, IdleIsFresh, RowFollowsCall,
           SyncSections, Locations, RunningAt, Finishing, Steps, SameInstance
  <2>1. FrontierOfCall'
    <3>. SUFFICES ASSUME NEW c \in Attempts, NEW e \in executed,
                         attemptInstance'[c] = attemptInstance'[e[1]]
                  PROVE  /\ pc'[c] \in {"startStep", "stepGate"} => e[2] < at[c]
                         /\ pc'[c] = "inStep" => e[2] <= at[c]
                         /\ pc'[c] \in {"consumeWait", "markResumed"} => e[2] <= resumedFrom'[c][2]
      BY <2>0 DEF FrontierOfCall
    <3>2. e[1] \in Attempts /\ e[2] \in Steps /\ e = <<e[1], e[2]>>
      OBVIOUS
    <3>3. e[1] # a
      BY <2>0, <3>2
    <3>4. attemptInstance'[e[1]] = attemptInstance[e[1]]
      BY <2>0, <3>2, <3>3
    <3>5. CASE c = a
      <4>2. attemptInstance[b] = attemptInstance[e[1]]
        BY <2>0, <2>00, <3>4, <3>5
      <4>3. e[2] <= s
        BY <2>00, <4>2 DEF FrontierOfWait
      <4>4. pc'[a] = "consumeWait" /\ resumedFrom'[a] = <<b, s>>
        BY <2>0, <2>00
      <4>. QED  BY <3>5, <4>3, <4>4
    <3>6. CASE c # a
      <4>1. pc'[c] = pc[c] /\ resumedFrom'[c] = resumedFrom[c]
        BY <2>0, <2>00, <3>6
      <4>2. attemptInstance[c] = attemptInstance[e[1]]
        BY <2>0, <3>4, <3>6
      <4>. QED  BY <4>1, <4>2 DEF FrontierOfCall
    <3>. QED  BY <3>5, <3>6
  <2>2. FrontierOfWait'
    <3>. SUFFICES ASSUME NEW c \in Attempts, NEW t \in Steps, NEW e \in executed,
                         step[c][t] = "waiting", attemptInstance'[c] = attemptInstance'[e[1]]
                  PROVE  e[2] <= t
      BY <2>0 DEF FrontierOfWait
    <3>1. c # a
      BY <2>0
    <3>2. e[1] \in Attempts /\ e[2] \in Steps /\ e = <<e[1], e[2]>>
      OBVIOUS
    <3>3. e[1] # a
      BY <2>0, <3>2
    <3>4. attemptInstance[c] = attemptInstance[e[1]]
      BY <2>0, <3>1, <3>2, <3>3
    <3>. QED  BY <3>4 DEF FrontierOfWait
  <2>3. StepsRunOnce'
    BY <2>0 DEF StepsRunOnce, FrontierOfCall
  <2>. QED  BY <2>1, <2>2, <2>3 DEF FrontierInv
<1>. USE RuntimeAssumption
     DEF RuntimeAssumption, IInv, TypeOK, FrontierInv, IdleIsFresh, RowFollowsCall, SyncSections,
         Locations, RunningAt, Finishing, Steps, SameInstance, At, CpuFree, GoTo, WriteInstance,
         WriteAttempt, WriteStep, database
<1>3. CASE UNCHANGED vars
  <2>1. FrontierOfCall'
    BY <1>3 DEF vars, memory, FrontierOfCall, FrontierOfWait, OneEngaged, Engaged, StartIsAlone
  <2>2. FrontierOfWait'
    BY <1>3 DEF vars, memory, FrontierOfWait, FrontierOfCall, NoWaitWhileRunning, OneEngaged,
                Engaged, StartIsAlone
  <2>3. StepsRunOnce'
    BY <1>3 DEF vars, memory, StepsRunOnce, FrontierOfCall
  <2>. QED  BY <2>1, <2>2, <2>3 DEF FrontierInv
<1>4. CASE Restart
  <2>1. FrontierOfCall'
    BY <1>4 DEF Restart, Interrupted, FrontierOfCall, FrontierOfWait, OneEngaged, Engaged,
                StartIsAlone
  <2>2. FrontierOfWait'
    BY <1>4 DEF Restart, Interrupted, FrontierOfWait, FrontierOfCall, NoWaitWhileRunning,
                OneEngaged, Engaged, StartIsAlone
  <2>3. StepsRunOnce'
    BY <1>4 DEF Restart, Interrupted, StepsRunOnce, FrontierOfCall
  <2>. QED  BY <2>1, <2>2, <2>3 DEF FrontierInv
<1>5. ASSUME NEW a \in Attempts, BlockAttempt(a)
      PROVE  FrontierInv'
  <2>1. FrontierOfCall'
    BY <1>5 DEF BlockAttempt, FrontierOfCall, FrontierOfWait, OneEngaged, Engaged, StartIsAlone
  <2>2. FrontierOfWait'
    BY <1>5 DEF BlockAttempt, FrontierOfWait, FrontierOfCall, NoWaitWhileRunning, OneEngaged,
                Engaged, StartIsAlone
  <2>3. StepsRunOnce'
    BY <1>5 DEF BlockAttempt, StepsRunOnce, FrontierOfCall
  <2>. QED  BY <2>1, <2>2, <2>3 DEF FrontierInv
<1>6. ASSUME NEW a \in Attempts, CloseInstance(a)
      PROVE  FrontierInv'
  <2>1. FrontierOfCall'
    BY <1>6 DEF CloseInstance, FrontierOfCall, FrontierOfWait, OneEngaged, Engaged, StartIsAlone
  <2>2. FrontierOfWait'
    BY <1>6 DEF CloseInstance, FrontierOfWait, FrontierOfCall, NoWaitWhileRunning, OneEngaged,
                Engaged, StartIsAlone
  <2>3. StepsRunOnce'
    BY <1>6 DEF CloseInstance, StepsRunOnce, FrontierOfCall
  <2>. QED  BY <2>1, <2>2, <2>3 DEF FrontierInv
<1>7. ASSUME NEW a \in Attempts, AdmitAttempt(a)
      PROVE  FrontierInv'
  <2>1. FrontierOfCall'
    BY <1>7 DEF AdmitAttempt, Blocked, ActiveAttempts, FrontierOfCall, FrontierOfWait,
                OneEngaged, Engaged, StartIsAlone
  <2>2. FrontierOfWait'
    BY <1>7 DEF AdmitAttempt, Blocked, ActiveAttempts, FrontierOfWait, FrontierOfCall,
                NoWaitWhileRunning, OneEngaged, Engaged, StartIsAlone
  <2>3. StepsRunOnce'
    BY <1>7 DEF AdmitAttempt, Blocked, ActiveAttempts, StepsRunOnce, FrontierOfCall
  <2>. QED  BY <2>1, <2>2, <2>3 DEF FrontierInv
<1>8. ASSUME NEW a \in Attempts, StartStep(a)
      PROVE  FrontierInv'
  <2>1. FrontierOfCall'
    BY <1>8 DEF StartStep, FrontierOfCall, FrontierOfWait, OneEngaged, Engaged, StartIsAlone
  <2>2. FrontierOfWait'
    BY <1>8 DEF StartStep, FrontierOfWait, FrontierOfCall, NoWaitWhileRunning, OneEngaged,
                Engaged, StartIsAlone
  <2>3. StepsRunOnce'
    BY <1>8 DEF StartStep, StepsRunOnce, FrontierOfCall
  <2>. QED  BY <2>1, <2>2, <2>3 DEF FrontierInv
<1>9. ASSUME NEW a \in Attempts, StepsExhausted(a)
      PROVE  FrontierInv'
  <2>1. FrontierOfCall'
    BY <1>9 DEF StepsExhausted, Conclude, FrontierOfCall, FrontierOfWait, OneEngaged, Engaged,
                StartIsAlone
  <2>2. FrontierOfWait'
    BY <1>9 DEF StepsExhausted, Conclude, FrontierOfWait, FrontierOfCall, NoWaitWhileRunning,
                OneEngaged, Engaged, StartIsAlone
  <2>3. StepsRunOnce'
    BY <1>9 DEF StepsExhausted, Conclude, StepsRunOnce, FrontierOfCall
  <2>. QED  BY <2>1, <2>2, <2>3 DEF FrontierInv
<1>10. ASSUME NEW a \in Attempts, DenyStep(a)
      PROVE  FrontierInv'
  <2>1. FrontierOfCall'
    BY <1>10 DEF DenyStep, Conclude, FrontierOfCall, FrontierOfWait, OneEngaged, Engaged,
                 StartIsAlone
  <2>2. FrontierOfWait'
    BY <1>10 DEF DenyStep, Conclude, FrontierOfWait, FrontierOfCall, NoWaitWhileRunning,
                 OneEngaged, Engaged, StartIsAlone
  <2>3. StepsRunOnce'
    BY <1>10 DEF DenyStep, Conclude, StepsRunOnce, FrontierOfCall
  <2>. QED  BY <2>1, <2>2, <2>3 DEF FrontierInv
<1>11. ASSUME NEW a \in Attempts, EnterStep(a)
      PROVE  FrontierInv'
  <2>1. FrontierOfCall'
    BY <1>11 DEF EnterStep, FrontierOfCall, FrontierOfWait, OneEngaged, Engaged, StartIsAlone
  <2>2. FrontierOfWait'
    BY <1>11 DEF EnterStep, FrontierOfWait, FrontierOfCall, NoWaitWhileRunning, OneEngaged,
                 Engaged, StartIsAlone
  <2>3. StepsRunOnce'
    <3>1. \A e \in executed : attemptInstance[a] = attemptInstance[e[1]] => e[2] # at[a]
      BY <1>11 DEF EnterStep, FrontierOfCall
    <3>2. executed' = executed \cup {<<a, at[a]>>} /\ attemptInstance' = attemptInstance
      BY <1>11 DEF EnterStep
    <3>. SUFFICES ASSUME NEW e \in executed', NEW f \in executed',
                         attemptInstance[e[1]] = attemptInstance[f[1]], e[2] = f[2]
                  PROVE  e = f
      BY <3>2 DEF StepsRunOnce
    <3>3. CASE e \in executed /\ f \in executed
      BY <3>3 DEF StepsRunOnce
    <3>4. CASE e = <<a, at[a]>> /\ f = <<a, at[a]>>
      BY <3>4
    <3>5. CASE e \in executed /\ f = <<a, at[a]>>
      <4>1. f[1] = a /\ f[2] = at[a]
        BY <3>5
      <4>. QED  BY <3>1, <3>5, <4>1
    <3>6. CASE f \in executed /\ e = <<a, at[a]>>
      <4>1. e[1] = a /\ e[2] = at[a]
        BY <3>6
      <4>. QED  BY <3>1, <3>6, <4>1
    <3>. QED  BY <3>2, <3>3, <3>4, <3>5, <3>6
  <2>. QED  BY <2>1, <2>2, <2>3 DEF FrontierInv
<1>12. ASSUME NEW a \in Attempts, StepContinues(a)
      PROVE  FrontierInv'
  <2>1. FrontierOfCall'
    BY <1>12 DEF StepContinues, FrontierOfCall, FrontierOfWait, OneEngaged, Engaged, StartIsAlone
  <2>2. FrontierOfWait'
    BY <1>12 DEF StepContinues, FrontierOfWait, FrontierOfCall, NoWaitWhileRunning, OneEngaged,
                 Engaged, StartIsAlone
  <2>3. StepsRunOnce'
    BY <1>12 DEF StepContinues, StepsRunOnce, FrontierOfCall
  <2>. QED  BY <2>1, <2>2, <2>3 DEF FrontierInv
<1>13. ASSUME NEW a \in Attempts, NEW verdict \in {"succeeded", "waiting", "failed"}, StepSettles(a, verdict)
      PROVE  FrontierInv'
  <2>1. FrontierOfCall'
    BY <1>13 DEF StepSettles, Conclude, FrontierOfCall, FrontierOfWait, OneEngaged, Engaged,
                 StartIsAlone
  <2>2. FrontierOfWait'
    BY <1>13 DEF StepSettles, Conclude, FrontierOfWait, FrontierOfCall, NoWaitWhileRunning,
                 OneEngaged, Engaged, StartIsAlone
  <2>3. StepsRunOnce'
    BY <1>13 DEF StepSettles, Conclude, StepsRunOnce, FrontierOfCall
  <2>. QED  BY <2>1, <2>2, <2>3 DEF FrontierInv
<1>14. ASSUME NEW a \in Attempts, StepThrows(a)
      PROVE  FrontierInv'
  <2>1. CASE StepSettles(a, "failed")
    BY <2>1, <1>13
  <2>2. CASE ~StepSettles(a, "failed")
    <3>0. /\ pc[a] = "inStep" /\ pc' = [pc EXCEPT ![a] = "done"]
          /\ UNCHANGED <<policy, instance, attempt, attemptInstance, step, finishEvent, at,
                         outcome, resumedFrom, executed>>
      BY <1>14, <2>2, ThrowSettlesOrEscapes
    <3>1. FrontierOfCall'
      BY <3>0 DEF FrontierOfCall, FrontierOfWait, OneEngaged, Engaged, StartIsAlone
    <3>2. FrontierOfWait'
      BY <3>0 DEF FrontierOfWait, FrontierOfCall, NoWaitWhileRunning, OneEngaged, Engaged,
                  StartIsAlone
    <3>3. StepsRunOnce'
      BY <3>0 DEF StepsRunOnce, FrontierOfCall
    <3>. QED  BY <3>1, <3>2, <3>3 DEF FrontierInv
  <2>. QED  BY <2>1, <2>2
<1>15. ASSUME NEW a \in Attempts, FinishAttempt(a)
      PROVE  FrontierInv'
  <2>1. FrontierOfCall'
    BY <1>15 DEF FinishAttempt, FrontierOfCall, FrontierOfWait, OneEngaged, Engaged, StartIsAlone
  <2>2. FrontierOfWait'
    BY <1>15 DEF FinishAttempt, FrontierOfWait, FrontierOfCall, NoWaitWhileRunning, OneEngaged,
                 Engaged, StartIsAlone
  <2>3. StepsRunOnce'
    BY <1>15 DEF FinishAttempt, StepsRunOnce, FrontierOfCall
  <2>. QED  BY <2>1, <2>2, <2>3 DEF FrontierInv
<1>16. ASSUME NEW a \in Attempts, FinishInstance(a)
      PROVE  FrontierInv'
  <2>1. FrontierOfCall'
    BY <1>16 DEF FinishInstance, FrontierOfCall, FrontierOfWait, OneEngaged, Engaged, StartIsAlone
  <2>2. FrontierOfWait'
    BY <1>16 DEF FinishInstance, FrontierOfWait, FrontierOfCall, NoWaitWhileRunning, OneEngaged,
                 Engaged, StartIsAlone
  <2>3. StepsRunOnce'
    BY <1>16 DEF FinishInstance, StepsRunOnce, FrontierOfCall
  <2>. QED  BY <2>1, <2>2, <2>3 DEF FrontierInv
<1>17. ASSUME NEW a \in Attempts, AppendFinishEvent(a)
      PROVE  FrontierInv'
  <2>1. FrontierOfCall'
    BY <1>17 DEF AppendFinishEvent, EventOf, FrontierOfCall, FrontierOfWait, OneEngaged, Engaged,
                 StartIsAlone
  <2>2. FrontierOfWait'
    BY <1>17 DEF AppendFinishEvent, EventOf, FrontierOfWait, FrontierOfCall, NoWaitWhileRunning,
                 OneEngaged, Engaged, StartIsAlone
  <2>3. StepsRunOnce'
    BY <1>17 DEF AppendFinishEvent, EventOf, StepsRunOnce, FrontierOfCall
  <2>. QED  BY <2>1, <2>2, <2>3 DEF FrontierInv
<1>18. ASSUME NEW a \in Attempts, ConsumeWait(a)
      PROVE  FrontierInv'
  <2>1. FrontierOfCall'
    BY <1>18 DEF ConsumeWait, FrontierOfCall, FrontierOfWait, OneEngaged, Engaged, StartIsAlone
  <2>2. FrontierOfWait'
    BY <1>18 DEF ConsumeWait, FrontierOfWait, FrontierOfCall, NoWaitWhileRunning, OneEngaged,
                 Engaged, StartIsAlone
  <2>3. StepsRunOnce'
    BY <1>18 DEF ConsumeWait, StepsRunOnce, FrontierOfCall
  <2>. QED  BY <2>1, <2>2, <2>3 DEF FrontierInv
<1>19. ASSUME NEW a \in Attempts, MarkResumed(a)
      PROVE  FrontierInv'
  <2>1. FrontierOfCall'
    BY <1>19 DEF MarkResumed, FrontierOfCall, FrontierOfWait, OneEngaged, Engaged, StartIsAlone
  <2>2. FrontierOfWait'
    BY <1>19 DEF MarkResumed, FrontierOfWait, FrontierOfCall, NoWaitWhileRunning, OneEngaged,
                 Engaged, StartIsAlone
  <2>3. StepsRunOnce'
    BY <1>19 DEF MarkResumed, StepsRunOnce, FrontierOfCall
  <2>. QED  BY <2>1, <2>2, <2>3 DEF FrontierInv
<1>. QED  BY <1>1, <1>2, <1>3, <1>4, <1>5, <1>6, <1>7, <1>8, <1>9, <1>10, <1>11, <1>12, <1>13,
             <1>14, <1>15, <1>16, <1>17, <1>18, <1>19 DEF Next, CallStep

(* A wait is consumed by the call that picked it, and never waits again. *)
LEMMA AnswerInvStep ==
  ASSUME IInv, AnswerInv, [Next]_vars
  PROVE  AnswerInv'
<1>1. ASSUME NEW a \in Attempts, NEW i \in Instances, Start(a, i)
      PROVE  AnswerInv'
  <2>0. /\ pc[a] = "idle" /\ step' = step /\ executed' = executed /\ at' = at
       /\ pc' = [pc EXCEPT ![a] = "checkPolicy"] /\ attemptInstance[a] = None
       /\ attemptInstance' = [attemptInstance EXCEPT ![a] = i]
       /\ resumedFrom' = resumedFrom
       /\ \A s \in Steps : step[a][s] = "absent" /\ <<a, s>> \notin executed
    BY <1>1, StartFacts
  <2>. USE RuntimeAssumption
       DEF RuntimeAssumption, IInv, TypeOK, AnswerInv, IdleIsFresh, RowFollowsCall, SyncSections,
           Locations, RunningAt, Finishing, Steps, SameInstance
  <2>1. WaitIsLast'
    BY <2>0 DEF WaitIsLast, NoWaitWhileRunning
  <2>2. ResumedBehind'
    BY <2>0 DEF ResumedBehind, WaitIsLast
  <2>3. WaitConsumed'
    BY <2>0 DEF WaitConsumed, TookOver, ResumedBehind
  <2>4. TakesOverFirst'
    BY <2>0 DEF TakesOverFirst, TookOver, WaitConsumed, ResumedBehind
  <2>5. SignalAnsweredOnce'
    BY <2>0 DEF SignalAnsweredOnce, TookOver, TakesOverFirst, ResumedBehind
  <2>. QED  BY <2>1, <2>2, <2>3, <2>4, <2>5 DEF AnswerInv
<1>2. ASSUME NEW a \in Attempts, NEW i \in Instances, Resume(a, i)
      PROVE  AnswerInv'
  <2>0. /\ pc[a] = "idle" /\ step' = step /\ executed' = executed /\ at' = at
       /\ pc' = [pc EXCEPT ![a] = "consumeWait"] /\ attemptInstance[a] = None
       /\ attemptInstance' = [attemptInstance EXCEPT ![a] = i]
       /\ \A s \in Steps : step[a][s] = "absent" /\ <<a, s>> \notin executed
       /\ \A b \in Attempts \ {a} : pc[b] \notin SyncSections
    BY <1>2, ResumeFacts
  <2>00. PICK b \in Attempts, s \in Steps :
           /\ attemptInstance[b] = i /\ step[b][s] = "waiting"
           /\ resumedFrom' = [resumedFrom EXCEPT ![a] = <<b, s>>]
    BY <1>2, ResumeFacts
  <2>. USE RuntimeAssumption
       DEF RuntimeAssumption, IInv, TypeOK, AnswerInv, IdleIsFresh, RowFollowsCall, SyncSections,
           Locations, RunningAt, Finishing, Steps, SameInstance
  <2>1. WaitIsLast'
    BY <2>0 DEF WaitIsLast, NoWaitWhileRunning
  <2>2. ResumedBehind'
    <3>0. resumedFrom'[a] = <<b, s>>
      BY <2>00
    <3>1. resumedFrom'[a][1] = b /\ resumedFrom'[a][2] = s /\ b # a
      BY <2>0, <2>00, <3>0
    <3>2. pc[b] = "done"
      BY <2>0, <2>00 DEF WaitIsLast
    <3>3. \A c \in Attempts : c # a => resumedFrom'[c] = resumedFrom[c] /\ pc'[c] = pc[c]
      BY <2>0, <2>00
    <3>4. pc'[a] = "consumeWait" /\ pc'[b] = "done"
      BY <2>0, <3>1, <3>2
    <3>5. \A c \in Attempts : pc[c] = "done" => pc'[c] = "done"
      BY <2>0
    <3>6. ASSUME NEW c \in Attempts, c # a, resumedFrom'[c] # None
          PROVE  /\ pc'[c] \notin {"idle", "checkPolicy", "closeInstance"}
                 /\ pc'[resumedFrom'[c][1]] = "done"
                 /\ pc'[c] \in {"startStep", "stepGate", "inStep"} => at'[c] > resumedFrom'[c][2]
                 /\ step'[c][resumedFrom'[c][2]] \in {"absent", "succeeded"}
      BY <2>0, <3>3, <3>5, <3>6 DEF ResumedBehind
    <3>7. /\ pc'[a] \notin {"idle", "checkPolicy", "closeInstance"}
          /\ pc'[resumedFrom'[a][1]] = "done"
          /\ pc'[a] \notin {"startStep", "stepGate", "inStep"}
          /\ step'[a][resumedFrom'[a][2]] \in {"absent", "succeeded"}
      BY <2>0, <3>1, <3>4
    <3>. QED  BY <3>6, <3>7 DEF ResumedBehind
  <2>3. WaitConsumed'
    <3>0. resumedFrom'[a] = <<b, s>>
      BY <2>00
    <3>1. resumedFrom'[a][1] = b /\ resumedFrom'[a][2] = s /\ b # a
      BY <2>0, <2>00, <3>0
    <3>2. \A c \in Attempts : c # a => resumedFrom'[c] = resumedFrom[c] /\ pc'[c] = pc[c]
      BY <2>0, <2>00
    <3>3. ~TookOver(a)'
      BY <2>0, <3>1 DEF TookOver
    <3>4. \A c \in Attempts : TookOver(c)' => c # a /\ TookOver(c)
      BY <2>0, <3>2, <3>3 DEF TookOver
    <3>5. pc'[a] # "markResumed"
      BY <2>0
    <3>. QED  BY <2>0, <3>2, <3>4, <3>5 DEF WaitConsumed
  <2>4. TakesOverFirst'
    <3>0. resumedFrom'[a] = <<b, s>>
      BY <2>00
    <3>1. resumedFrom'[a][1] = b /\ resumedFrom'[a][2] = s /\ b # a
      BY <2>0, <2>00, <3>0
    <3>2. \A c \in Attempts : c # a => resumedFrom'[c] = resumedFrom[c] /\ pc'[c] = pc[c]
      BY <2>0, <2>00
    <3>3. ~TookOver(a)'
      BY <2>0, <3>1 DEF TookOver
    <3>4. \A c \in Attempts : TookOver(c)' => c # a /\ TookOver(c)
      BY <2>0, <3>2, <3>3 DEF TookOver
    <3>5. \A c \in Attempts : c # a => pc[c] # "markResumed"
      BY <2>0
    <3>6. \A c \in Attempts : pc'[c] = IF c = a THEN "consumeWait" ELSE pc[c]
      BY <2>0
    <3>. QED  BY <3>5, <3>6 DEF TakesOverFirst
  <2>5. SignalAnsweredOnce'
    <3>0. resumedFrom'[a] = <<b, s>>
      BY <2>00
    <3>1. resumedFrom'[a][1] = b /\ resumedFrom'[a][2] = s /\ b # a
      BY <2>0, <2>00, <3>0
    <3>2. \A c \in Attempts : c # a => resumedFrom'[c] = resumedFrom[c] /\ pc'[c] = pc[c]
      BY <2>0, <2>00
    <3>3. ~TookOver(a)'
      BY <2>0, <3>1 DEF TookOver
    <3>4. \A c \in Attempts : TookOver(c)' => c # a /\ TookOver(c)
      BY <2>0, <3>2, <3>3 DEF TookOver
    <3>. QED  BY <3>2, <3>4 DEF SignalAnsweredOnce
  <2>. QED  BY <2>1, <2>2, <2>3, <2>4, <2>5 DEF AnswerInv
<1>. USE RuntimeAssumption
     DEF RuntimeAssumption, IInv, TypeOK, AnswerInv, IdleIsFresh, RowFollowsCall, SyncSections,
         Locations, RunningAt, Finishing, Steps, SameInstance, At, CpuFree, GoTo, WriteInstance,
         WriteAttempt, WriteStep, database
<1>3. CASE UNCHANGED vars
  <2>1. WaitIsLast'
    BY <1>3 DEF vars, memory, WaitIsLast, NoWaitWhileRunning
  <2>2. ResumedBehind'
    BY <1>3 DEF vars, memory, ResumedBehind, WaitIsLast
  <2>3. WaitConsumed'
    BY <1>3 DEF vars, memory, WaitConsumed, TookOver, ResumedBehind
  <2>4. TakesOverFirst'
    BY <1>3 DEF vars, memory, TakesOverFirst, TookOver, WaitConsumed, ResumedBehind
  <2>5. SignalAnsweredOnce'
    BY <1>3 DEF vars, memory, SignalAnsweredOnce, TookOver, TakesOverFirst, ResumedBehind
  <2>. QED  BY <2>1, <2>2, <2>3, <2>4, <2>5 DEF AnswerInv
<1>4. CASE Restart
  <2>1. WaitIsLast'
    BY <1>4 DEF Restart, Interrupted, WaitIsLast, NoWaitWhileRunning
  <2>2. ResumedBehind'
    BY <1>4 DEF Restart, Interrupted, ResumedBehind, WaitIsLast
  <2>3. WaitConsumed'
    BY <1>4 DEF Restart, Interrupted, WaitConsumed, TookOver, ResumedBehind
  <2>4. TakesOverFirst'
    BY <1>4 DEF Restart, Interrupted, TakesOverFirst, TookOver, WaitConsumed, ResumedBehind
  <2>5. SignalAnsweredOnce'
    BY <1>4 DEF Restart, Interrupted, SignalAnsweredOnce, TookOver, TakesOverFirst, ResumedBehind
  <2>. QED  BY <2>1, <2>2, <2>3, <2>4, <2>5 DEF AnswerInv
<1>5. ASSUME NEW a \in Attempts, BlockAttempt(a)
      PROVE  AnswerInv'
  <2>1. WaitIsLast'
    BY <1>5 DEF BlockAttempt, WaitIsLast, NoWaitWhileRunning
  <2>2. ResumedBehind'
    BY <1>5 DEF BlockAttempt, ResumedBehind, WaitIsLast
  <2>3. WaitConsumed'
    BY <1>5 DEF BlockAttempt, WaitConsumed, TookOver, ResumedBehind
  <2>4. TakesOverFirst'
    BY <1>5 DEF BlockAttempt, TakesOverFirst, TookOver, WaitConsumed, ResumedBehind
  <2>5. SignalAnsweredOnce'
    BY <1>5 DEF BlockAttempt, SignalAnsweredOnce, TookOver, TakesOverFirst, ResumedBehind
  <2>. QED  BY <2>1, <2>2, <2>3, <2>4, <2>5 DEF AnswerInv
<1>6. ASSUME NEW a \in Attempts, CloseInstance(a)
      PROVE  AnswerInv'
  <2>1. WaitIsLast'
    BY <1>6 DEF CloseInstance, WaitIsLast, NoWaitWhileRunning
  <2>2. ResumedBehind'
    BY <1>6 DEF CloseInstance, ResumedBehind, WaitIsLast
  <2>3. WaitConsumed'
    BY <1>6 DEF CloseInstance, WaitConsumed, TookOver, ResumedBehind
  <2>4. TakesOverFirst'
    BY <1>6 DEF CloseInstance, TakesOverFirst, TookOver, WaitConsumed, ResumedBehind
  <2>5. SignalAnsweredOnce'
    BY <1>6 DEF CloseInstance, SignalAnsweredOnce, TookOver, TakesOverFirst, ResumedBehind
  <2>. QED  BY <2>1, <2>2, <2>3, <2>4, <2>5 DEF AnswerInv
<1>7. ASSUME NEW a \in Attempts, AdmitAttempt(a)
      PROVE  AnswerInv'
  <2>1. WaitIsLast'
    BY <1>7 DEF AdmitAttempt, Blocked, ActiveAttempts, WaitIsLast, NoWaitWhileRunning
  <2>2. ResumedBehind'
    BY <1>7 DEF AdmitAttempt, Blocked, ActiveAttempts, ResumedBehind, WaitIsLast
  <2>3. WaitConsumed'
    BY <1>7 DEF AdmitAttempt, Blocked, ActiveAttempts, WaitConsumed, TookOver, ResumedBehind
  <2>4. TakesOverFirst'
    BY <1>7 DEF AdmitAttempt, Blocked, ActiveAttempts, TakesOverFirst, TookOver, WaitConsumed,
                ResumedBehind
  <2>5. SignalAnsweredOnce'
    BY <1>7 DEF AdmitAttempt, Blocked, ActiveAttempts, SignalAnsweredOnce, TookOver,
                TakesOverFirst, ResumedBehind
  <2>. QED  BY <2>1, <2>2, <2>3, <2>4, <2>5 DEF AnswerInv
<1>8. ASSUME NEW a \in Attempts, StartStep(a)
      PROVE  AnswerInv'
  <2>1. WaitIsLast'
    BY <1>8 DEF StartStep, WaitIsLast, NoWaitWhileRunning
  <2>2. ResumedBehind'
    BY <1>8 DEF StartStep, ResumedBehind, WaitIsLast
  <2>3. WaitConsumed'
    BY <1>8 DEF StartStep, WaitConsumed, TookOver, ResumedBehind
  <2>4. TakesOverFirst'
    BY <1>8 DEF StartStep, TakesOverFirst, TookOver, WaitConsumed, ResumedBehind
  <2>5. SignalAnsweredOnce'
    BY <1>8 DEF StartStep, SignalAnsweredOnce, TookOver, TakesOverFirst, ResumedBehind
  <2>. QED  BY <2>1, <2>2, <2>3, <2>4, <2>5 DEF AnswerInv
<1>9. ASSUME NEW a \in Attempts, StepsExhausted(a)
      PROVE  AnswerInv'
  <2>1. WaitIsLast'
    BY <1>9 DEF StepsExhausted, Conclude, WaitIsLast, NoWaitWhileRunning
  <2>2. ResumedBehind'
    BY <1>9 DEF StepsExhausted, Conclude, ResumedBehind, WaitIsLast
  <2>3. WaitConsumed'
    BY <1>9 DEF StepsExhausted, Conclude, WaitConsumed, TookOver, ResumedBehind
  <2>4. TakesOverFirst'
    BY <1>9 DEF StepsExhausted, Conclude, TakesOverFirst, TookOver, WaitConsumed, ResumedBehind
  <2>5. SignalAnsweredOnce'
    BY <1>9 DEF StepsExhausted, Conclude, SignalAnsweredOnce, TookOver, TakesOverFirst,
                ResumedBehind
  <2>. QED  BY <2>1, <2>2, <2>3, <2>4, <2>5 DEF AnswerInv
<1>10. ASSUME NEW a \in Attempts, DenyStep(a)
      PROVE  AnswerInv'
  <2>1. WaitIsLast'
    BY <1>10 DEF DenyStep, Conclude, WaitIsLast, NoWaitWhileRunning
  <2>2. ResumedBehind'
    BY <1>10 DEF DenyStep, Conclude, ResumedBehind, WaitIsLast
  <2>3. WaitConsumed'
    BY <1>10 DEF DenyStep, Conclude, WaitConsumed, TookOver, ResumedBehind
  <2>4. TakesOverFirst'
    BY <1>10 DEF DenyStep, Conclude, TakesOverFirst, TookOver, WaitConsumed, ResumedBehind
  <2>5. SignalAnsweredOnce'
    BY <1>10 DEF DenyStep, Conclude, SignalAnsweredOnce, TookOver, TakesOverFirst, ResumedBehind
  <2>. QED  BY <2>1, <2>2, <2>3, <2>4, <2>5 DEF AnswerInv
<1>11. ASSUME NEW a \in Attempts, EnterStep(a)
      PROVE  AnswerInv'
  <2>1. WaitIsLast'
    BY <1>11 DEF EnterStep, WaitIsLast, NoWaitWhileRunning
  <2>2. ResumedBehind'
    BY <1>11 DEF EnterStep, ResumedBehind, WaitIsLast
  <2>3. WaitConsumed'
    BY <1>11 DEF EnterStep, WaitConsumed, TookOver, ResumedBehind
  <2>4. TakesOverFirst'
    BY <1>11 DEF EnterStep, TakesOverFirst, TookOver, WaitConsumed, ResumedBehind
  <2>5. SignalAnsweredOnce'
    BY <1>11 DEF EnterStep, SignalAnsweredOnce, TookOver, TakesOverFirst, ResumedBehind
  <2>. QED  BY <2>1, <2>2, <2>3, <2>4, <2>5 DEF AnswerInv
<1>12. ASSUME NEW a \in Attempts, StepContinues(a)
      PROVE  AnswerInv'
  <2>1. WaitIsLast'
    BY <1>12 DEF StepContinues, WaitIsLast, NoWaitWhileRunning
  <2>2. ResumedBehind'
    BY <1>12 DEF StepContinues, ResumedBehind, WaitIsLast
  <2>3. WaitConsumed'
    BY <1>12 DEF StepContinues, WaitConsumed, TookOver, ResumedBehind
  <2>4. TakesOverFirst'
    BY <1>12 DEF StepContinues, TakesOverFirst, TookOver, WaitConsumed, ResumedBehind
  <2>5. SignalAnsweredOnce'
    BY <1>12 DEF StepContinues, SignalAnsweredOnce, TookOver, TakesOverFirst, ResumedBehind
  <2>. QED  BY <2>1, <2>2, <2>3, <2>4, <2>5 DEF AnswerInv
<1>13. ASSUME NEW a \in Attempts, NEW verdict \in {"succeeded", "waiting", "failed"}, StepSettles(a, verdict)
      PROVE  AnswerInv'
  <2>1. WaitIsLast'
    BY <1>13 DEF StepSettles, Conclude, WaitIsLast, NoWaitWhileRunning
  <2>2. ResumedBehind'
    BY <1>13 DEF StepSettles, Conclude, ResumedBehind, WaitIsLast
  <2>3. WaitConsumed'
    BY <1>13 DEF StepSettles, Conclude, WaitConsumed, TookOver, ResumedBehind
  <2>4. TakesOverFirst'
    BY <1>13 DEF StepSettles, Conclude, TakesOverFirst, TookOver, WaitConsumed, ResumedBehind
  <2>5. SignalAnsweredOnce'
    BY <1>13 DEF StepSettles, Conclude, SignalAnsweredOnce, TookOver, TakesOverFirst, ResumedBehind
  <2>. QED  BY <2>1, <2>2, <2>3, <2>4, <2>5 DEF AnswerInv
<1>14. ASSUME NEW a \in Attempts, StepThrows(a)
      PROVE  AnswerInv'
  <2>1. CASE StepSettles(a, "failed")
    BY <2>1, <1>13
  <2>2. CASE ~StepSettles(a, "failed")
    <3>0. /\ pc[a] = "inStep" /\ pc' = [pc EXCEPT ![a] = "done"]
          /\ UNCHANGED <<policy, instance, attempt, attemptInstance, step, finishEvent, at,
                         outcome, resumedFrom, executed>>
      BY <1>14, <2>2, ThrowSettlesOrEscapes
    <3>1. WaitIsLast'
      BY <3>0 DEF WaitIsLast, NoWaitWhileRunning
    <3>2. ResumedBehind'
      BY <3>0 DEF ResumedBehind, WaitIsLast
    <3>3. WaitConsumed'
      BY <3>0 DEF WaitConsumed, TookOver, ResumedBehind
    <3>4. TakesOverFirst'
      BY <3>0 DEF TakesOverFirst, TookOver, WaitConsumed, ResumedBehind
    <3>5. SignalAnsweredOnce'
      BY <3>0 DEF SignalAnsweredOnce, TookOver, TakesOverFirst, ResumedBehind
    <3>. QED  BY <3>1, <3>2, <3>3, <3>4, <3>5 DEF AnswerInv
  <2>. QED  BY <2>1, <2>2
<1>15. ASSUME NEW a \in Attempts, FinishAttempt(a)
      PROVE  AnswerInv'
  <2>1. WaitIsLast'
    BY <1>15 DEF FinishAttempt, WaitIsLast, NoWaitWhileRunning
  <2>2. ResumedBehind'
    BY <1>15 DEF FinishAttempt, ResumedBehind, WaitIsLast
  <2>3. WaitConsumed'
    BY <1>15 DEF FinishAttempt, WaitConsumed, TookOver, ResumedBehind
  <2>4. TakesOverFirst'
    BY <1>15 DEF FinishAttempt, TakesOverFirst, TookOver, WaitConsumed, ResumedBehind
  <2>5. SignalAnsweredOnce'
    BY <1>15 DEF FinishAttempt, SignalAnsweredOnce, TookOver, TakesOverFirst, ResumedBehind
  <2>. QED  BY <2>1, <2>2, <2>3, <2>4, <2>5 DEF AnswerInv
<1>16. ASSUME NEW a \in Attempts, FinishInstance(a)
      PROVE  AnswerInv'
  <2>1. WaitIsLast'
    BY <1>16 DEF FinishInstance, WaitIsLast, NoWaitWhileRunning
  <2>2. ResumedBehind'
    BY <1>16 DEF FinishInstance, ResumedBehind, WaitIsLast
  <2>3. WaitConsumed'
    BY <1>16 DEF FinishInstance, WaitConsumed, TookOver, ResumedBehind
  <2>4. TakesOverFirst'
    BY <1>16 DEF FinishInstance, TakesOverFirst, TookOver, WaitConsumed, ResumedBehind
  <2>5. SignalAnsweredOnce'
    BY <1>16 DEF FinishInstance, SignalAnsweredOnce, TookOver, TakesOverFirst, ResumedBehind
  <2>. QED  BY <2>1, <2>2, <2>3, <2>4, <2>5 DEF AnswerInv
<1>17. ASSUME NEW a \in Attempts, AppendFinishEvent(a)
      PROVE  AnswerInv'
  <2>1. WaitIsLast'
    BY <1>17 DEF AppendFinishEvent, EventOf, WaitIsLast, NoWaitWhileRunning
  <2>2. ResumedBehind'
    BY <1>17 DEF AppendFinishEvent, EventOf, ResumedBehind, WaitIsLast
  <2>3. WaitConsumed'
    BY <1>17 DEF AppendFinishEvent, EventOf, WaitConsumed, TookOver, ResumedBehind
  <2>4. TakesOverFirst'
    BY <1>17 DEF AppendFinishEvent, EventOf, TakesOverFirst, TookOver, WaitConsumed, ResumedBehind
  <2>5. SignalAnsweredOnce'
    BY <1>17 DEF AppendFinishEvent, EventOf, SignalAnsweredOnce, TookOver, TakesOverFirst,
                 ResumedBehind
  <2>. QED  BY <2>1, <2>2, <2>3, <2>4, <2>5 DEF AnswerInv
<1>18. ASSUME NEW a \in Attempts, ConsumeWait(a)
      PROVE  AnswerInv'
  <2>1. WaitIsLast'
    BY <1>18 DEF ConsumeWait, WaitIsLast, NoWaitWhileRunning
  <2>2. ResumedBehind'
    BY <1>18 DEF ConsumeWait, ResumedBehind, WaitIsLast
  <2>3. WaitConsumed'
    BY <1>18 DEF ConsumeWait, WaitConsumed, TookOver, ResumedBehind
  <2>4. TakesOverFirst'
    BY <1>18 DEF ConsumeWait, TakesOverFirst, TookOver, WaitConsumed, ResumedBehind
  <2>5. SignalAnsweredOnce'
    BY <1>18 DEF ConsumeWait, SignalAnsweredOnce, TookOver, TakesOverFirst, ResumedBehind
  <2>. QED  BY <2>1, <2>2, <2>3, <2>4, <2>5 DEF AnswerInv
<1>19. ASSUME NEW a \in Attempts, MarkResumed(a)
      PROVE  AnswerInv'
  <2>1. WaitIsLast'
    BY <1>19 DEF MarkResumed, WaitIsLast, NoWaitWhileRunning
  <2>2. ResumedBehind'
    BY <1>19 DEF MarkResumed, ResumedBehind, WaitIsLast
  <2>3. WaitConsumed'
    BY <1>19 DEF MarkResumed, WaitConsumed, TookOver, ResumedBehind
  <2>4. TakesOverFirst'
    BY <1>19 DEF MarkResumed, TakesOverFirst, TookOver, WaitConsumed, ResumedBehind
  <2>5. SignalAnsweredOnce'
    BY <1>19 DEF MarkResumed, SignalAnsweredOnce, TookOver, TakesOverFirst, ResumedBehind
  <2>. QED  BY <2>1, <2>2, <2>3, <2>4, <2>5 DEF AnswerInv
<1>. QED  BY <1>1, <1>2, <1>3, <1>4, <1>5, <1>6, <1>7, <1>8, <1>9, <1>10, <1>11, <1>12, <1>13,
             <1>14, <1>15, <1>16, <1>17, <1>18, <1>19 DEF Next, CallStep

(* Nothing has happened yet in an empty database. *)
LEMMA InitHistory == Init => VerdictInv /\ FrontierInv /\ AnswerInv
<1>. SUFFICES ASSUME Init PROVE VerdictInv /\ FrontierInv /\ AnswerInv
  OBVIOUS
<1>. USE RuntimeAssumption DEF RuntimeAssumption, Init, Steps, RunningAt, Finishing
<1>1. VerdictInv
  BY DEF VerdictInv, InstanceOpen, EventIsLast, FailedStepFails, FactsFollowState
<1>2. FrontierInv
  BY DEF FrontierInv, FrontierOfCall, FrontierOfWait, StepsRunOnce
<1>3. AnswerInv
  BY DEF AnswerInv, WaitIsLast, ResumedBehind, WaitConsumed, TakesOverFirst,
         SignalAnsweredOnce, TookOver
<1>. QED  BY <1>1, <1>2, <1>3

HistoryInv == VerdictInv /\ FrontierInv /\ AnswerInv

(* The three strengthenings are invariants of the runtime. *)
THEOREM HistoryInvariance == Spec => []HistoryInv
<1>1. Init => HistoryInv
  BY InitHistory DEF HistoryInv
<1>2. IInv /\ HistoryInv /\ [Next]_vars => HistoryInv'
  BY VerdictInvStep, FrontierInvStep, AnswerInvStep DEF HistoryInv
<1>. QED  BY <1>1, <1>2, Invariance, PTL DEF Spec

(* Events tell what the rows say, and a failed step is never reported as done. *)
THEOREM FactsAreTrue == Spec => []FactsFollowState
<1>1. HistoryInv => FactsFollowState
  BY DEF HistoryInv, VerdictInv
<1>. QED  BY <1>1, HistoryInvariance, PTL

(* No step of an instance is run twice, across signals and restarts. *)
THEOREM NoStepRunsTwice == Spec => []StepsRunOnce
<1>1. HistoryInv => StepsRunOnce
  BY DEF HistoryInv, FrontierInv
<1>. QED  BY <1>1, HistoryInvariance, PTL

(* One signal answers a waiting step. *)
THEOREM OneAnswer == Spec => []SignalAnsweredOnce
<1>1. HistoryInv => SignalAnsweredOnce
  BY DEF HistoryInv, AnswerInv
<1>. QED  BY <1>1, HistoryInvariance, PTL

(* What VerdictIsFinal says of one step. *)
VerdictsStand ==
  /\ \A a \in Attempts :
       attempt[a] \notin {"absent", "running"} => attempt'[a] = attempt[a]
  /\ \A i \in Instances :
       instance[i] \in {"succeeded", "failed"} => instance'[i] = instance[i]

(* No step of the runtime overturns a verdict. *)
LEMMA NextKeepsVerdicts ==
  ASSUME IInv, VerdictInv, [Next]_vars
  PROVE  VerdictsStand
<1>. USE DEF IInv, VerdictInv, TypeOK, IdleIsFresh, RowFollowsCall, InstanceOpen, RunningAt,
             VerdictsStand, At, GoTo, WriteInstance, WriteAttempt, database
<1>1. CASE UNCHANGED vars
  BY <1>1 DEF vars
<1>2. CASE Restart
  BY <1>2 DEF Restart, Interrupted
<1>3. ASSUME NEW a \in Attempts, NEW i \in Instances, Start(a, i) \/ Resume(a, i)
      PROVE  VerdictsStand
  BY <1>3 DEF Start, Resume
<1>4. ASSUME NEW a \in Attempts, BlockAttempt(a) \/ CloseInstance(a) \/ AdmitAttempt(a)
      PROVE  VerdictsStand
  BY <1>4 DEF BlockAttempt, CloseInstance, AdmitAttempt
<1>5. ASSUME NEW a \in Attempts, StartStep(a) \/ StepsExhausted(a) \/ DenyStep(a) \/ EnterStep(a)
      PROVE  VerdictsStand
  BY <1>5 DEF StartStep, StepsExhausted, DenyStep, EnterStep
<1>6. ASSUME NEW a \in Attempts, StepContinues(a) \/ StepThrows(a)
      PROVE  VerdictsStand
  BY <1>6 DEF StepContinues, StepThrows
<1>7. ASSUME NEW a \in Attempts, NEW verdict \in {"succeeded", "waiting", "failed"},
             StepSettles(a, verdict)
      PROVE  VerdictsStand
  BY <1>7 DEF StepSettles
<1>8. ASSUME NEW a \in Attempts, FinishAttempt(a) \/ FinishInstance(a) \/ AppendFinishEvent(a)
      PROVE  VerdictsStand
  BY <1>8 DEF FinishAttempt, FinishInstance, AppendFinishEvent
<1>9. ASSUME NEW a \in Attempts, ConsumeWait(a) \/ MarkResumed(a)
      PROVE  VerdictsStand
  BY <1>9 DEF ConsumeWait, MarkResumed
<1>. QED  BY <1>1, <1>2, <1>3, <1>4, <1>5, <1>6, <1>7, <1>8, <1>9 DEF Next, CallStep

(* A verdict is final: the action property of the same name. *)
THEOREM VerdictStays == Spec => VerdictIsFinal
<1>1. IInv /\ HistoryInv /\ [Next]_vars => [VerdictsStand]_vars
  BY NextKeepsVerdicts DEF HistoryInv
<1>2. [][VerdictsStand]_vars => VerdictIsFinal
  BY PTL DEF VerdictIsFinal, VerdictsStand
<1>. QED  BY <1>1, <1>2, Invariance, HistoryInvariance, PTL DEF Spec

=============================================================================

------------------------- MODULE EffectExecutorProofs -------------------------
(***************************************************************************)
(* Proofs about EffectExecutor, for every set of effects, keys, inputs and *)
(* results.                                                                *)
(***************************************************************************)
EXTENDS EffectExecutor, TLAPS

(* The unique index: the executions of a key share one row. *)
OneRowPerKey ==
  \A e, f \in Effects :
    effect[e] # "absent" /\ effect[f] # "absent" /\ SameKey(e, f) => e = f

(* The row of an execution agrees with its position. *)
RowFollowsExecution ==
  \A e \in Effects :
    /\ pc[e] = "idle" =>
         effect[e] = "absent" /\ answer[e] = None /\ verdict[e] = None /\ e \notin entered
    /\ pc[e] \in {"appendStarted", "gate", "inHandler"} => effect[e] = "running" /\ verdict[e] = None
    /\ pc[e] # "done" => ~ Told(e, "succeeded") /\ ~ Told(e, "failed")
    /\ pc[e] \in {"gate", "inHandler", "appendEnd"} => Told(e, "started")
    /\ pc[e] \notin {"done", "idle"} => answer[e] = None
    /\ pc[e] = "appendStarted" => e \notin entered
    /\ pc[e] = "inHandler" => e \in entered
    /\ pc[e] = "appendEnd" =>
         \/ /\ verdict[e] \in Results /\ e \in entered
            /\ effect[e] = "succeeded" /\ output[e] = JsonOf[verdict[e]]
         \/ verdict[e] \in Errors /\ effect[e] = "failed"

(* A result whose event is not appended yet was given to nobody. *)
KeptToItself ==
  \A e, f \in Effects :
    pc[e] = "appendEnd" /\ verdict[e] \in Results /\ SameKey(e, f) => answer[f] \notin Results

(* A handed out result is in the row it came from, and fits its input. *)
AnswerFromRow ==
  \A e \in Effects :
    answer[e] \in Results =>
      \E f \in Effects :
        /\ f = e \/ SameKey(e, f)
        /\ f = e \/ SameInput(e, f)
        /\ effect[f] = "succeeded" /\ output[f] = JsonOf[answer[e]]

(* A row that succeeded holds a result as JSON keeps it, others hold none. *)
OutputIsJson ==
  \A e \in Effects :
    IF effect[e] = "succeeded" THEN output[e] \in Results /\ JsonOf[output[e]] = output[e]
    ELSE output[e] = None

EInv ==
  /\ TypeOK
  /\ OneRowPerKey
  /\ RowFollowsExecution
  /\ KeptToItself
  /\ AnswerFromRow
  /\ OutputIsJson
  /\ EventsFollowRow
-----------------------------------------------------------------------------
(* Answers stay in their rows when no answer becomes a result and no row that *)
(* succeeded is written, but for one that was given to nobody.                *)
LEMMA AnswersStand ==
  ASSUME AnswerFromRow,
         \A g \in Effects : answer'[g] \in Results => answer'[g] = answer[g],
         \A g \in Effects : effect[g] = "succeeded" =>
           \/ effect'[g] = "succeeded" /\ output'[g] = output[g]
           \/ \A h \in Effects : g = h \/ SameKey(h, g) => answer'[h] \notin Results
  PROVE  AnswerFromRow'
<1>1. ASSUME NEW e \in Effects, answer'[e] \in Results
      PROVE  \E f \in Effects :
               /\ f = e \/ SameKey(e, f)
               /\ f = e \/ SameInput(e, f)
               /\ effect'[f] = "succeeded" /\ output'[f] = JsonOf[answer'[e]]
  <2>1. PICK f \in Effects :
          /\ f = e \/ SameKey(e, f)
          /\ f = e \/ SameInput(e, f)
          /\ effect[f] = "succeeded" /\ output[f] = JsonOf[answer[e]]
    BY <1>1 DEF AnswerFromRow
  <2>. QED  BY <1>1, <2>1
<1>. QED  BY <1>1 DEF AnswerFromRow, SameKey, SameInput

(* Every step keeps the invariant: one case per action, one step per conjunct. *)
LEMMA EffectNext ==
  ASSUME EInv, [Next]_vars
  PROVE  EInv'
<1>. USE EffectAssumption, ErrorsAreNoResults
     DEF EffectAssumption, ErrorsAreNoResults, Errors, EInv, TypeOK, RowFollowsExecution, At, GoTo,
         SyncSections, database, Told
<1>1. CASE UNCHANGED vars
  <2>1. TypeOK'
    BY <1>1 DEF vars, Statuses, Locations
  <2>2. OneRowPerKey'
    BY <1>1 DEF vars, OneRowPerKey, SameKey
  <2>3. RowFollowsExecution'
    BY <1>1 DEF vars
  <2>4. AnswerFromRow'
    BY <1>1 DEF vars, AnswerFromRow, SameKey, SameInput
  <2>5. OutputIsJson'
    BY <1>1 DEF vars, OutputIsJson
  <2>7. KeptToItself'
    BY <1>1 DEF vars, KeptToItself, SameKey
  <2>6. EventsFollowRow'
    BY <1>1 DEF vars, EventsFollowRow
  <2>. QED  BY <2>1, <2>2, <2>3, <2>4, <2>5, <2>6, <2>7
<1>2. CASE Restart
  <2>1. TypeOK'
    BY <1>2 DEF Restart, Statuses, Locations
  <2>2. OneRowPerKey'
    BY <1>2 DEF Restart, OneRowPerKey, SameKey
  <2>3. RowFollowsExecution'
    BY <1>2 DEF Restart
  <2>4. AnswerFromRow'
    BY <1>2 DEF Restart, AnswerFromRow, SameKey, SameInput
  <2>5. OutputIsJson'
    BY <1>2 DEF Restart, OutputIsJson
  <2>7. KeptToItself'
    BY <1>2 DEF Restart, KeptToItself, SameKey
  <2>6. EventsFollowRow'
    BY <1>2 DEF Restart, EventsFollowRow
  <2>. QED  BY <2>1, <2>2, <2>3, <2>4, <2>5, <2>6, <2>7
<1>3. ASSUME NEW e \in Effects, Reuse(e)
      PROVE  EInv'
  <2>1. TypeOK'
    BY <1>3 DEF Reuse, WithKeyOf, Answer, Statuses, Locations
  <2>2. OneRowPerKey'
    BY <1>3 DEF Reuse, WithKeyOf, Answer, OneRowPerKey, SameKey
  <2>3. RowFollowsExecution'
    <3>1. /\ UNCHANGED <<effect, output, events, verdict, entered>>
          /\ \A g \in Effects \ {e} : pc'[g] = pc[g] /\ answer'[g] = answer[g]
          /\ pc'[e] = "done"
      BY <1>3 DEF Reuse, Answer
    <3>. QED  BY <3>1
  <2>4. AnswerFromRow'
    <3>1. PICK f \in WithKeyOf(e) :
            /\ effect[f] = "succeeded" /\ SameInput(e, f)
            /\ answer' = [answer EXCEPT ![e] = output[f]]
      BY <1>3 DEF Reuse, Answer
    <3>2. f \in Effects /\ SameKey(e, f) /\ effect' = effect /\ output' = output
      BY <1>3 DEF Reuse, WithKeyOf, SameKey
    <3>3. output[f] = JsonOf[output[f]] /\ answer'[e] = output[f]
      BY <3>1, <3>2 DEF OutputIsJson
    <3>4. ASSUME NEW g \in Effects, g # e
          PROVE  answer'[g] = answer[g]
      BY <3>1, <3>4
    <3>. QED  BY <3>1, <3>2, <3>3, <3>4 DEF AnswerFromRow
  <2>5. OutputIsJson'
    BY <1>3 DEF Reuse, WithKeyOf, Answer, OutputIsJson
  <2>7. KeptToItself'
    BY <1>3 DEF Reuse, WithKeyOf, Answer, KeptToItself, SameKey
  <2>6. EventsFollowRow'
    <3>1. PICK f \in Effects : effect[f] = "succeeded" /\ answer' = [answer EXCEPT ![e] = output[f]]
      BY <1>3 DEF Reuse, WithKeyOf, Answer
    <3>2. output[f] \in Results
      BY <3>1 DEF OutputIsJson
    <3>3. UNCHANGED <<effect, events, entered>> /\ e \notin entered
      BY <1>3 DEF Reuse
    <3>. QED  BY <3>1, <3>2, <3>3 DEF EventsFollowRow
  <2>. QED  BY <2>1, <2>2, <2>3, <2>4, <2>5, <2>6, <2>7
<1>4. ASSUME NEW e \in Effects, Conflict(e)
      PROVE  EInv'
  <2>1. TypeOK'
    BY <1>4 DEF Conflict, WithKeyOf, Answer, Statuses, Locations
  <2>2. OneRowPerKey'
    BY <1>4 DEF Conflict, WithKeyOf, Answer, OneRowPerKey, SameKey
  <2>3. RowFollowsExecution'
    BY <1>4 DEF Conflict, WithKeyOf, Answer
  <2>4. AnswerFromRow'
    BY <1>4, AnswersStand DEF Conflict, WithKeyOf, Answer
  <2>5. OutputIsJson'
    BY <1>4 DEF Conflict, WithKeyOf, Answer, OutputIsJson
  <2>7. KeptToItself'
    BY <1>4 DEF Conflict, WithKeyOf, Answer, KeptToItself, SameKey
  <2>6. EventsFollowRow'
    BY <1>4 DEF Conflict, WithKeyOf, Answer, EventsFollowRow
  <2>. QED  BY <2>1, <2>2, <2>3, <2>4, <2>5, <2>6, <2>7
<1>5. ASSUME NEW e \in Effects, Duplicate(e)
      PROVE  EInv'
  <2>1. TypeOK'
    BY <1>5 DEF Duplicate, WithKeyOf, Answer, Statuses, Locations
  <2>2. OneRowPerKey'
    BY <1>5 DEF Duplicate, WithKeyOf, Answer, OneRowPerKey, SameKey
  <2>3. RowFollowsExecution'
    BY <1>5 DEF Duplicate, WithKeyOf, Answer
  <2>4. AnswerFromRow'
    BY <1>5, AnswersStand DEF Duplicate, WithKeyOf, Answer
  <2>5. OutputIsJson'
    BY <1>5 DEF Duplicate, WithKeyOf, Answer, OutputIsJson
  <2>7. KeptToItself'
    BY <1>5 DEF Duplicate, WithKeyOf, Answer, KeptToItself, SameKey
  <2>6. EventsFollowRow'
    BY <1>5 DEF Duplicate, WithKeyOf, Answer, EventsFollowRow
  <2>. QED  BY <2>1, <2>2, <2>3, <2>4, <2>5, <2>6, <2>7
<1>6. ASSUME NEW e \in Effects, Create(e)
      PROVE  EInv'
  <2>1. TypeOK'
    BY <1>6 DEF Create, WithKeyOf, Statuses, Locations
  <2>2. OneRowPerKey'
    BY <1>6 DEF Create, WithKeyOf, OneRowPerKey, SameKey
  <2>3. RowFollowsExecution'
    BY <1>6 DEF Create, WithKeyOf
  <2>4. AnswerFromRow'
    BY <1>6, AnswersStand DEF Create, WithKeyOf
  <2>5. OutputIsJson'
    BY <1>6 DEF Create, WithKeyOf, OutputIsJson
  <2>7. KeptToItself'
    BY <1>6 DEF Create, WithKeyOf, KeptToItself, SameKey
  <2>6. EventsFollowRow'
    BY <1>6 DEF Create, WithKeyOf, EventsFollowRow
  <2>. QED  BY <2>1, <2>2, <2>3, <2>4, <2>5, <2>6, <2>7
<1>7. ASSUME NEW e \in Effects, AppendStarted(e)
      PROVE  EInv'
  <2>1. TypeOK'
    BY <1>7 DEF AppendStarted, Statuses, Locations, EventTypes
  <2>2. OneRowPerKey'
    BY <1>7 DEF AppendStarted, OneRowPerKey, SameKey
  <2>3. RowFollowsExecution'
    BY <1>7 DEF AppendStarted
  <2>4. AnswerFromRow'
    BY <1>7, AnswersStand DEF AppendStarted
  <2>5. OutputIsJson'
    BY <1>7 DEF AppendStarted, OutputIsJson
  <2>7. KeptToItself'
    BY <1>7 DEF AppendStarted, KeptToItself, SameKey
  <2>6. EventsFollowRow'
    BY <1>7 DEF AppendStarted, EventsFollowRow
  <2>. QED  BY <2>1, <2>2, <2>3, <2>4, <2>5, <2>6, <2>7
<1>8. ASSUME NEW e \in Effects, Refuse(e)
      PROVE  EInv'
  <2>1. TypeOK'
    BY <1>8 DEF Refuse, Fail, Statuses, Locations
  <2>2. OneRowPerKey'
    BY <1>8 DEF Refuse, Fail, OneRowPerKey, SameKey
  <2>3. RowFollowsExecution'
    <3>1. PICK code \in Errors : Fail(e, code)
      BY <1>8 DEF Refuse
    <3>2. /\ Told(e, "started") /\ answer[e] = None
          /\ ~ Told(e, "succeeded") /\ ~ Told(e, "failed")
      BY <1>8 DEF Refuse
    <3>. QED  BY <3>1, <3>2 DEF Fail
  <2>4. AnswerFromRow'
    BY <1>8, AnswersStand DEF Refuse, Fail
  <2>5. OutputIsJson'
    BY <1>8 DEF Refuse, Fail, OutputIsJson
  <2>7. KeptToItself'
    BY <1>8 DEF Refuse, Fail, KeptToItself, SameKey
  <2>6. EventsFollowRow'
    BY <1>8 DEF Refuse, Fail, EventsFollowRow
  <2>. QED  BY <2>1, <2>2, <2>3, <2>4, <2>5, <2>6, <2>7
<1>9. ASSUME NEW e \in Effects, EnterHandler(e)
      PROVE  EInv'
  <2>1. TypeOK'
    BY <1>9 DEF EnterHandler, Statuses, Locations
  <2>2. OneRowPerKey'
    BY <1>9 DEF EnterHandler, OneRowPerKey, SameKey
  <2>3. RowFollowsExecution'
    BY <1>9 DEF EnterHandler
  <2>4. AnswerFromRow'
    BY <1>9, AnswersStand DEF EnterHandler
  <2>5. OutputIsJson'
    BY <1>9 DEF EnterHandler, OutputIsJson
  <2>7. KeptToItself'
    BY <1>9 DEF EnterHandler, KeptToItself, SameKey
  <2>6. EventsFollowRow'
    BY <1>9 DEF EnterHandler, EventsFollowRow
  <2>. QED  BY <2>1, <2>2, <2>3, <2>4, <2>5, <2>6, <2>7
<1>10. ASSUME NEW e \in Effects, HandlerReturns(e)
      PROVE  EInv'
  <2>1. TypeOK'
    BY <1>10 DEF HandlerReturns, Statuses, Locations
  <2>2. OneRowPerKey'
    BY <1>10 DEF HandlerReturns, OneRowPerKey, SameKey
  <2>3. RowFollowsExecution'
    <3>1. /\ e \in entered /\ Told(e, "started") /\ answer[e] = None
          /\ ~ Told(e, "succeeded") /\ ~ Told(e, "failed")
      BY <1>10 DEF HandlerReturns
    <3>2. PICK r \in Results : output' = [output EXCEPT ![e] = JsonOf[r]] /\ verdict' = [verdict EXCEPT ![e] = r]
      BY <1>10 DEF HandlerReturns
    <3>3. /\ effect' = [effect EXCEPT ![e] = "succeeded"] /\ pc' = [pc EXCEPT ![e] = "appendEnd"]
          /\ UNCHANGED <<events, answer, entered>>
      BY <1>10 DEF HandlerReturns
    <3>. QED  BY <3>1, <3>2, <3>3
  <2>4. AnswerFromRow'
    BY <1>10, AnswersStand DEF HandlerReturns
  <2>5. OutputIsJson'
    BY <1>10 DEF HandlerReturns, OutputIsJson
  <2>7. KeptToItself'
    <3>1. effect[e] = "running" /\ answer[e] = None
      BY <1>10 DEF HandlerReturns
    <3>2. ASSUME NEW f \in Effects, SameKey(e, f), answer[f] \in Results
          PROVE  FALSE
      <4>1. PICK g \in Effects : (g = f \/ SameKey(f, g)) /\ effect[g] = "succeeded"
        BY <3>2 DEF AnswerFromRow
      <4>2. SameKey(e, g)
        BY <3>2, <4>1 DEF SameKey
      <4>. QED  BY <3>1, <4>1, <4>2 DEF OneRowPerKey
    <3>3. /\ answer' = answer
          /\ \A g \in Effects \ {e} : pc'[g] = pc[g] /\ verdict'[g] = verdict[g]
      BY <1>10 DEF HandlerReturns
    <3>. QED  BY <3>2, <3>3 DEF KeptToItself, SameKey
  <2>6. EventsFollowRow'
    BY <1>10 DEF HandlerReturns, EventsFollowRow
  <2>. QED  BY <2>1, <2>2, <2>3, <2>4, <2>5, <2>6, <2>7
<1>11. ASSUME NEW e \in Effects, HandlerThrows(e)
      PROVE  EInv'
  <2>1. TypeOK'
    BY <1>11 DEF HandlerThrows, Fail, Statuses, Locations
  <2>2. OneRowPerKey'
    BY <1>11 DEF HandlerThrows, Fail, OneRowPerKey, SameKey
  <2>3. RowFollowsExecution'
    BY <1>11 DEF HandlerThrows, Fail
  <2>4. AnswerFromRow'
    BY <1>11, AnswersStand DEF HandlerThrows, Fail
  <2>5. OutputIsJson'
    BY <1>11 DEF HandlerThrows, Fail, OutputIsJson
  <2>7. KeptToItself'
    BY <1>11 DEF HandlerThrows, Fail, KeptToItself, SameKey
  <2>6. EventsFollowRow'
    BY <1>11 DEF HandlerThrows, Fail, EventsFollowRow
  <2>. QED  BY <2>1, <2>2, <2>3, <2>4, <2>5, <2>6, <2>7
<1>12. ASSUME NEW e \in Effects, AppendEnd(e)
      PROVE  EInv'
  <2>1. TypeOK'
    <3>1. events' \in SUBSET (Effects \X EventTypes)
      BY <1>12 DEF AppendEnd, EventTypes
    <3>. QED  BY <1>12, <3>1 DEF AppendEnd, Answer, Statuses, Locations
  <2>2. OneRowPerKey'
    BY <1>12 DEF AppendEnd, Answer, OneRowPerKey, SameKey
  <2>3. RowFollowsExecution'
    BY <1>12 DEF AppendEnd, Answer
  <2>4. AnswerFromRow'
    <3>1. UNCHANGED <<effect, output>> /\ answer' = [answer EXCEPT ![e] = verdict[e]]
      BY <1>12 DEF AppendEnd, Answer
    <3>2. CASE verdict[e] \in Errors
      BY <3>1, <3>2, AnswersStand
    <3>3. CASE effect[e] = "succeeded" /\ output[e] = JsonOf[verdict[e]]
      <4>1. ASSUME NEW g \in Effects, g # e
            PROVE  answer'[g] = answer[g]
        BY <3>1, <4>1
      <4>. QED  BY <3>1, <3>3, <4>1 DEF AnswerFromRow, SameKey, SameInput
    <3>. QED  BY <1>12, <3>2, <3>3 DEF AppendEnd
  <2>5. OutputIsJson'
    BY <1>12 DEF AppendEnd, Answer, OutputIsJson
  <2>7. KeptToItself'
    BY <1>12 DEF AppendEnd, Answer, KeptToItself, SameKey
  <2>6. EventsFollowRow'
    BY <1>12 DEF AppendEnd, Answer, EventsFollowRow
  <2>. QED  BY <2>1, <2>2, <2>3, <2>4, <2>5, <2>6, <2>7
<1>13. ASSUME NEW e \in Effects, AppendThrows(e)
      PROVE  EInv'
  <2>1. TypeOK'
    BY <1>13 DEF AppendThrows, Fail, Statuses, Locations
  <2>2. OneRowPerKey'
    BY <1>13 DEF AppendThrows, Fail, OneRowPerKey, SameKey
  <2>3. RowFollowsExecution'
    BY <1>13 DEF AppendThrows, Fail
  <2>4. AnswerFromRow'
    <3>1. /\ answer' = answer /\ answer[e] = None /\ SameKey(e, e) \in BOOLEAN
          /\ \A g \in Effects \ {e} : effect'[g] = effect[g] /\ output'[g] = output[g]
      BY <1>13 DEF AppendThrows, Fail, SameKey
    <3>2. \A h \in Effects : SameKey(h, e) => answer[h] \notin Results
      BY <1>13 DEF AppendThrows, KeptToItself, SameKey
    <3>. QED  BY <3>1, <3>2, AnswersStand
  <2>5. OutputIsJson'
    BY <1>13 DEF AppendThrows, Fail, OutputIsJson
  <2>7. KeptToItself'
    BY <1>13 DEF AppendThrows, Fail, KeptToItself, SameKey
  <2>6. EventsFollowRow'
    BY <1>13 DEF AppendThrows, Fail, EventsFollowRow
  <2>. QED  BY <2>1, <2>2, <2>3, <2>4, <2>5, <2>6, <2>7
<1>14. ASSUME NEW e \in Effects, WriteThrows(e)
      PROVE  EInv'
  <2>1. TypeOK'
    BY <1>14 DEF WriteThrows, Answer, Statuses, Locations
  <2>2. OneRowPerKey'
    BY <1>14 DEF WriteThrows, Answer, OneRowPerKey, SameKey
  <2>3. RowFollowsExecution'
    BY <1>14 DEF WriteThrows, Answer
  <2>4. AnswerFromRow'
    BY <1>14, AnswersStand DEF WriteThrows, Answer
  <2>5. OutputIsJson'
    BY <1>14 DEF WriteThrows, Answer, OutputIsJson
  <2>7. KeptToItself'
    BY <1>14 DEF WriteThrows, Answer, KeptToItself, SameKey
  <2>6. EventsFollowRow'
    BY <1>14 DEF WriteThrows, Answer, EventsFollowRow
  <2>. QED  BY <2>1, <2>2, <2>3, <2>4, <2>5, <2>6, <2>7
<1>. QED  BY <1>1, <1>2, <1>3, <1>4, <1>5, <1>6, <1>7, <1>8, <1>9, <1>10, <1>11, <1>12, <1>13, <1>14 DEF Next, ExecutionStep

(* Nothing is recorded in an empty database. *)
LEMMA EffectInit == Init => EInv
<1>. SUFFICES ASSUME Init PROVE EInv
  OBVIOUS
<1>. USE EffectAssumption, ErrorsAreNoResults DEF EffectAssumption, Init
<1>1. TypeOK
  BY DEF TypeOK, Statuses, Locations
<1>2. OneRowPerKey /\ RowFollowsExecution /\ EventsFollowRow
  BY DEF OneRowPerKey, RowFollowsExecution, EventsFollowRow, Told, ErrorsAreNoResults, Errors
<1>3. KeptToItself /\ AnswerFromRow /\ OutputIsJson
  BY DEF KeptToItself, AnswerFromRow, OutputIsJson
<1>. QED  BY <1>1, <1>2, <1>3 DEF EInv

(* EInv is an inductive invariant of the effect boundary. *)
THEOREM EffectInvariance == Spec => []EInv
<1>1. EInv /\ [Next]_vars => EInv'
  BY EffectNext
<1>. QED  BY EffectInit, <1>1, PTL DEF Spec

(* Rows and executions stay in the states the code knows. *)
THEOREM EffectTypeCorrect == Spec => []TypeOK
<1>1. EInv => TypeOK
  BY DEF EInv
<1>. QED  BY <1>1, EffectInvariance, PTL

(* The handler of a key is called at most once, through failures and restarts. *)
THEOREM AtMostOnce == Spec => []HandlerOncePerKey
<1>1. ASSUME EInv, NEW e \in entered, NEW f \in entered, SameKey(e, f)
      PROVE  e = f
  <2>1. e \in Effects /\ f \in Effects
    BY <1>1 DEF EInv, TypeOK
  <2>2. effect[e] # "absent" /\ effect[f] # "absent"
    BY <1>1, <2>1 DEF EInv, EventsFollowRow, Told
  <2>. QED  BY <1>1, <2>1, <2>2 DEF EInv, OneRowPerKey
<1>2. EInv => HandlerOncePerKey
  BY <1>1 DEF HandlerOncePerKey
<1>. QED  BY <1>2, EffectInvariance, PTL

(* A returned result can be read again after any crash. *)
THEOREM ResultIsDurable == Spec => []ReturnedIsRecorded
<1>1. EInv => ReturnedIsRecorded
  BY DEF EInv, AnswerFromRow, ReturnedIsRecorded
<1>. QED  BY <1>1, EffectInvariance, PTL

(* One key, one result, for the input it was computed from. *)
THEOREM ResultFits == Spec => []ReusedResultFits
<1>1. ASSUME EInv, NEW e \in Effects, NEW f \in Effects, SameKey(e, f), answer[e] \in Results
      PROVE  /\ answer[f] \in Results => JsonOf[answer[e]] = JsonOf[answer[f]]
             /\ f \in entered => SameInput(e, f)
  <2>1. PICK g \in Effects :
          /\ g = e \/ SameKey(e, g)
          /\ g = e \/ SameInput(e, g)
          /\ effect[g] = "succeeded" /\ output[g] = JsonOf[answer[e]]
    BY <1>1 DEF EInv, AnswerFromRow
  <2>2. ASSUME NEW h \in Effects, h = f \/ SameKey(f, h), effect[h] # "absent"
        PROVE  g = h
    BY <1>1, <2>1, <2>2 DEF EInv, OneRowPerKey, SameKey
  <2>3. ASSUME answer[f] \in Results
        PROVE  JsonOf[answer[e]] = JsonOf[answer[f]]
    <3>1. PICK h \in Effects :
            /\ h = f \/ SameKey(f, h)
            /\ effect[h] = "succeeded" /\ output[h] = JsonOf[answer[f]]
      BY <1>1, <2>3 DEF EInv, AnswerFromRow
    <3>. QED  BY <2>1, <2>2, <3>1
  <2>4. ASSUME f \in entered
        PROVE  SameInput(e, f)
    <3>1. effect[f] # "absent"
      BY <1>1, <2>4 DEF EInv, EventsFollowRow, Told
    <3>2. g = f
      BY <2>2, <3>1
    <3>. QED  BY <2>1, <3>2 DEF SameInput
  <2>. QED  BY <2>3, <2>4
<1>2. EInv => ReusedResultFits
  BY <1>1 DEF ReusedResultFits, SameInput
<1>. QED  BY <1>2, EffectInvariance, PTL

(* No event contradicts the row it tells of, and an answer is told by its event, *)
(* whichever writes throw: the catch that writes a row again included.            *)
THEOREM EventsAreTrue == Spec => []EventsFollowRow
<1>1. EInv => EventsFollowRow
  BY DEF EInv
<1>. QED  BY <1>1, EffectInvariance, PTL

(* What RecordIsFinal says of one step. *)
RecordsStand ==
  \A e \in Effects :
    pc[e] = "done" \/ effect[e] = "failed" => effect'[e] = effect[e] /\ output'[e] = output[e]

(* A step only writes the row of its own execution, and no failed one. *)
LEMMA EffectRecordsStand ==
  ASSUME EInv, [Next]_vars
  PROVE  RecordsStand
<1>. USE DEF EInv, TypeOK, RowFollowsExecution, RecordsStand, At, database
<1>1. CASE UNCHANGED vars \/ Restart
  BY <1>1 DEF vars, Restart
<1>2. ASSUME NEW e \in Effects, Reuse(e) \/ Conflict(e) \/ Duplicate(e) \/ Create(e)
      PROVE  RecordsStand
  BY <1>2 DEF Reuse, Conflict, Duplicate, Create
<1>3. ASSUME NEW e \in Effects, ExecutionStep(e)
      PROVE  RecordsStand
  <2>1. CASE AppendStarted(e) \/ EnterHandler(e) \/ AppendEnd(e)
    BY <2>1 DEF AppendStarted, EnterHandler, AppendEnd
  <2>2. CASE HandlerReturns(e)
    BY <2>2 DEF HandlerReturns
  <2>3. CASE Refuse(e) \/ HandlerThrows(e) \/ AppendThrows(e)
    <3>1. effect[e] # "failed" /\ pc[e] # "done"
      BY <2>3, ErrorsAreNoResults DEF Refuse, HandlerThrows, AppendThrows, Errors
    <3>2. \A f \in Effects \ {e} : effect'[f] = effect[f] /\ output'[f] = output[f]
      BY <2>3 DEF Refuse, HandlerThrows, AppendThrows, Fail
    <3>. QED  BY <3>1, <3>2
  <2>. QED  BY <1>3, <2>1, <2>2, <2>3 DEF ExecutionStep
<1>4. ASSUME NEW e \in Effects, WriteThrows(e)
      PROVE  RecordsStand
  BY <1>4 DEF WriteThrows
<1>. QED  BY <1>1, <1>2, <1>3, <1>4 DEF Next

(* The record of an effect is final: the action property of the same name. *)
THEOREM RecordStays == Spec => RecordIsFinal
<1>1. EInv /\ [Next]_vars => [RecordsStand]_vars
  BY EffectRecordsStand
<1>2. [][RecordsStand]_vars => RecordIsFinal
  BY PTL DEF RecordIsFinal, RecordsStand
<1>. QED  BY <1>1, <1>2, EffectInvariance, PTL DEF Spec

-----------------------------------------------------------------------------
(***************************************************************************)
(* The refinement of EffectOnce.                                           *)
(***************************************************************************)
LEMMA OnceInit == Init => Once!Init
  BY DEF Init, Once!Init

(* An execution that begins to answer has not answered before. *)
LEMMA OnceThrow ==
  ASSUME EInv, NEW e \in Effects, NEW error \in Errors, answer[e] = None,
         answer' = [answer EXCEPT ![e] = error], UNCHANGED <<entered, output>>
  PROVE  Once!Next
<1>1. Once!Refuse(e)
  BY DEF Once!Refuse, Once!Answer
<1>. QED  BY <1>1 DEF Once!Next

(* Before its row is created an execution has neither answer nor output. *)
LEMMA OnceIdle ==
  ASSUME EInv, NEW e \in Effects, pc[e] = "idle"
  PROVE  answer[e] = None /\ output[e] = None /\ e \notin entered
  BY DEF EInv, RowFollowsExecution, OutputIsJson

(* Every step of the executor is a step of the promise, or none. *)
LEMMA OnceStep ==
  ASSUME EInv, [Next]_vars
  PROVE  [Once!Next]_(Once!vars)
<1>. USE DEF EInv, TypeOK, At, GoTo, database, Once!vars
<1>1. CASE UNCHANGED vars \/ Restart
  BY <1>1 DEF vars, Restart
<1>2. ASSUME NEW e \in Effects, Reuse(e)
      PROVE  Once!Next
  <2>1. PICK f \in WithKeyOf(e) :
          effect[f] = "succeeded" /\ SameInput(e, f) /\ Answer(e, output[f])
    BY <1>2 DEF Reuse
  <2>2. f \in Effects /\ Once!Same(e, f) /\ Once!Fits(e, f)
    BY <2>1 DEF WithKeyOf, SameInput, Once!Same, Once!Fits
  <2>3. output[f] # None
    BY <2>1, <2>2, EffectAssumption DEF OutputIsJson, EffectAssumption
  <2>4. answer[e] = None /\ e \notin entered
    BY <1>2, OnceIdle DEF Reuse
  <2>5. Once!GiveKept(e, f)
    BY <1>2, <2>1, <2>2, <2>3, <2>4 DEF Reuse, Answer, Once!GiveKept, Once!Answer
  <2>. QED  BY <2>2, <2>5 DEF Once!Next
<1>3. ASSUME NEW e \in Effects, Conflict(e) \/ Duplicate(e)
      PROVE  Once!Next
  <2>1. answer[e] = None /\ output[e] = None
    BY <1>3, OnceIdle DEF Conflict, Duplicate
  <2>2. PICK error \in Errors : answer' = [answer EXCEPT ![e] = error]
    BY <1>3 DEF Conflict, Duplicate, Answer, Errors
  <2>. QED  BY <1>3, <2>1, <2>2, OnceThrow DEF Conflict, Duplicate
<1>4. ASSUME NEW e \in Effects, Create(e) \/ AppendStarted(e)
      PROVE  UNCHANGED Once!vars
  BY <1>4 DEF Create, AppendStarted
<1>5. ASSUME NEW e \in Effects, Refuse(e) \/ HandlerThrows(e)
      PROVE  UNCHANGED Once!vars
  <2>1. output[e] = None
    BY <1>5 DEF Refuse, HandlerThrows, RowFollowsExecution, OutputIsJson
  <2>2. output' = output
    BY <1>5, <2>1 DEF Refuse, HandlerThrows, Fail
  <2>. QED  BY <1>5, <2>2 DEF Refuse, HandlerThrows, Fail
<1>6. ASSUME NEW e \in Effects, EnterHandler(e)
      PROVE  [Once!Next]_(Once!vars)
  <2>1. effect[e] = "running"
    BY <1>6 DEF EnterHandler, RowFollowsExecution
  <2>2. ASSUME NEW f \in entered, Once!Same(e, f)
        PROVE  f = e
    <3>1. f \in Effects /\ effect[f] # "absent"
      BY <2>2 DEF EventsFollowRow
    <3>. QED  BY <2>1, <2>2, <3>1 DEF OneRowPerKey, SameKey, Once!Same
  <2>3. CASE e \in entered
    BY <1>6, <2>3 DEF EnterHandler
  <2>4. CASE e \notin entered
    <3>1. Once!Work(e)
      BY <1>6, <2>2, <2>4 DEF EnterHandler, Once!Work
    <3>. QED  BY <3>1 DEF Once!Next
  <2>. QED  BY <2>3, <2>4
<1>7. ASSUME NEW e \in Effects, HandlerReturns(e)
      PROVE  Once!Next
  <2>1. e \in entered /\ answer[e] = None /\ output[e] = None
    BY <1>7 DEF HandlerReturns, RowFollowsExecution, OutputIsJson
  <2>2. Once!Keep(e)
    BY <1>7, <2>1 DEF HandlerReturns, Once!Keep
  <2>. QED  BY <2>2 DEF Once!Next
<1>8. ASSUME NEW e \in Effects, AppendEnd(e)
      PROVE  Once!Next
  <2>1. answer[e] = None /\ answer' = [answer EXCEPT ![e] = verdict[e]]
    BY <1>8 DEF AppendEnd, Answer, RowFollowsExecution
  <2>2. CASE verdict[e] \in Results /\ effect[e] = "succeeded" /\ output[e] = JsonOf[verdict[e]]
    <3>1. output[e] # None
      BY <2>2, EffectAssumption DEF EffectAssumption
    <3>2. Once!GiveOwn(e)
      BY <1>8, <2>1, <2>2, <3>1 DEF AppendEnd, Once!GiveOwn, Once!Answer
    <3>. QED  BY <3>2 DEF Once!Next
  <2>3. CASE verdict[e] \in Errors /\ effect[e] = "failed"
    <3>1. output[e] = None
      BY <2>3 DEF OutputIsJson
    <3>. QED  BY <1>8, <2>1, <2>3, <3>1, OnceThrow DEF AppendEnd
  <2>. QED  BY <1>8, <2>2, <2>3 DEF AppendEnd, RowFollowsExecution
<1>9. ASSUME NEW e \in Effects, AppendThrows(e)
      PROVE  Once!Next
  <2>1. /\ output' = [output EXCEPT ![e] = None] /\ UNCHANGED <<answer, entered>>
        /\ answer[e] = None /\ verdict[e] \in Results /\ pc[e] = "appendEnd"
    BY <1>9 DEF AppendThrows, Fail, RowFollowsExecution
  <2>2. output[e] # None
    BY <2>1, EffectAssumption, ErrorsAreNoResults DEF RowFollowsExecution, EffectAssumption
  <2>3. \A f \in Effects : Once!Same(e, f) => answer[f] \notin Results
    BY <2>1 DEF KeptToItself, SameKey, Once!Same
  <2>4. Once!Lose(e)
    BY <2>1, <2>2, <2>3 DEF Once!Lose
  <2>. QED  BY <2>4 DEF Once!Next
<1>10. ASSUME NEW e \in Effects, WriteThrows(e)
       PROVE  Once!Next
  <2>1. answer[e] = None
    BY <1>10 DEF WriteThrows, RowFollowsExecution
  <2>. QED  BY <1>10, <2>1, OnceThrow DEF WriteThrows, Answer, Errors
<1>. QED  BY <1>1, <1>2, <1>3, <1>4, <1>5, <1>6, <1>7, <1>8, <1>9, <1>10 DEF Next, ExecutionStep

(* The executor implements EffectOnce, for any effects, keys and inputs. *)
THEOREM PromiseIsKept == Spec => KeepsThePromise
<1>1. EInv /\ [Next]_vars => [Once!Next]_(Once!vars)
  BY OnceStep
<1>. QED  BY OnceInit, <1>1, EffectInvariance, PTL DEF Spec, KeepsThePromise, Once!Spec
=============================================================================

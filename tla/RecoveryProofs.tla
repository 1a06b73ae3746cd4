--------------------------- MODULE RecoveryProofs ---------------------------
(***************************************************************************)
(* Proofs about Recovery, for every set of recoveries, actions, calls,     *)
(* memories and artifacts.  The four parts of the state are proved about   *)
(* one by one: a lemma says what a step does to a part, an invariant is    *)
(* kept by each of these moves.                                            *)
(***************************************************************************)
EXTENDS Recovery, FiniteSetTheorems, TLAPS

ControlTyped ==
  /\ action \in [Actions -> ActionRows]
  /\ call \in [Calls -> [pc : {"idle", "inHandler", "done"}, action : Actions \cup {NoAction}]]
  /\ emitted \subseteq Actions \X EventTypes /\ handled \cup silent \subseteq Actions
  /\ \A c \in Calls : call[c].pc = "inHandler" => call[c].action \in Actions

Parsed(a) == parsePayload(action[a].type, action[a].payload)

(* Type and payload of a row stay, so whether it parses tells the actions   *)
(* that reach a handler from those that are refused before.                 *)
HandledParsed ==
  \A a \in Actions :
    /\ a \in handled => action[a].status # "absent" /\ Parsed(a)
    /\ Told(a, "processing_failed") => action[a].status = "failed" /\ ~Parsed(a)
CallsParsed ==
  \A c \in Calls : call[c].pc = "inHandler" =>
    /\ Parsed(call[c].action) /\ action[call[c].action].status # "absent"
    /\ Told(call[c].action, "processing_started")

ControlInv == ControlTyped /\ HandledParsed /\ CallsParsed /\ ActionsAreTrue

(* What a step does to the control actions. *)
LEMMA ControlMoves ==
  ASSUME [Next]_vars
  PROVE  \/ UNCHANGED controlVars
         \/ \E r \in Recoveries : RequestApproval(r)
         \/ \E c \in Calls, a \in Actions : ProcessStored(c, a)
         \/ \E c \in Calls, a \in Actions, t \in Commands : Command(c, a, t)
         \/ \E c \in Calls : CallStep(c)
         \/ CallsDie /\ UNCHANGED <<action, emitted, handled, silent>>
         \/ \E c \in Calls : DieBeforeEvent(c)
<1>1. CASE UNCHANGED vars
  BY <1>1 DEF vars
<1>2. CASE \E r \in Recoveries : RecoveryStep(r)
  BY <1>2 DEF RecoveryStep, Start, CollectFile, CollectRow, CollectFails, Classify, Propose_,
              PassThrough, Resume, Execute, Record
<1>3. CASE Death
  BY <1>3 DEF Death
<1>4. CASE Operate
  BY <1>4 DEF Operate
<1>5. CASE Handle
  BY <1>5 DEF Handle
<1>6. CASE Govern \/ Retain
  BY <1>6 DEF Govern, Retain
<1>7. QED
  BY <1>1, <1>2, <1>3, <1>4, <1>5, <1>6 DEF Next

(* The schemas are made of fields, and so is the payload of an approval. *)
LEMMA PayloadsTyped ==
  /\ \A t \in ActionTypes : actionTypeSchemas[t] \in SUBSET Fields
  /\ {"artifactId", "reason"} \in SUBSET Fields
  /\ "trigger_recovery" \in ActionTypes
  /\ Commands \subseteq ActionTypes
<1>1. \A t \in ActionTypes : actionTypeSchemas[t] \in SUBSET Fields
  BY DEF Fields
<1>2. {"reject_step", "trigger_recovery", "cancel_workflow", "resume_workflow", "confirm_memory",
       "delete_memory"} \subseteq ActionTypes
  BY DEF ActionTypes, actionTypeSchemas
<1>3. "reason" \in actionTypeSchemas["reject_step"]
  BY DEF actionTypeSchemas
<1>4. "artifactId" \in Fields
  <2>. DEFINE Listed == UNION {actionTypeSchemas[t] : t \in ActionTypes}
  <2>1. Fields = {"artifactId"} \cup Listed
    BY DEF Fields
  <2>. HIDE DEF Listed
  <2>2. QED
    BY <2>1
<1>5. QED
  BY <1>1, <1>2, <1>3, <1>4, CommandAssumption DEF CommandTypes

(* Processing a row that is absent or pending, as it is read or created. *)
LEMMA ProcessKeepsControl ==
  ASSUME ControlInv, NEW c \in Calls, NEW a \in Actions, NEW r \in ActionRows,
         action[a].status \in {"absent", "pending"}, r.status = "pending",
         action[a].status = "pending" => r = action[a],
         Process(c, a, r), UNCHANGED handled
  PROVE  ControlInv'
<1>. DEFINE parsed == parsePayload(r.type, r.payload)
            new    == IF parsed THEN r ELSE [r EXCEPT !.status = "failed"]
            type   == IF parsed THEN "processing_started" ELSE "processing_failed"
<1>1. /\ <<a, "processing_failed">> \notin emitted
      /\ a \in handled => r = action[a] /\ parsed
  BY DEF ControlInv, HandledParsed, Parsed, Told
<1>2. /\ action' = [action EXCEPT ![a] = new]
      /\ \/ /\ emitted' = emitted \cup {<<a, type>>} /\ silent' = silent
            /\ call' = [call EXCEPT ![c] = [pc |-> IF parsed THEN "inHandler" ELSE "done", action |-> a]]
         \/ /\ emitted' = emitted /\ silent' = silent \cup {a}
            /\ call' = [call EXCEPT ![c] = [pc |-> "done", action |-> a]]
  BY DEF Process, Go
<1>3. /\ new \in ActionRows /\ new.type = r.type /\ new.payload = r.payload
      /\ new.status = IF parsed THEN "pending" ELSE "failed"
  BY DEF ActionRows, Statuses
<1>4. \A d \in Calls : call'[d].pc = "inHandler" =>
        \/ d = c /\ parsed /\ call'[d].action = a /\ <<a, "processing_started">> \in emitted'
        \/ call'[d] = call[d]
  BY <1>2 DEF ControlInv, ControlTyped
<1>5. \A d \in Calls : call[d].pc = "inHandler" /\ call[d].action = a => parsed
  BY DEF ControlInv, ControlTyped, CallsParsed, Parsed
<1>6. type \in {"processing_started", "processing_failed"} /\ (type = "processing_failed" <=> ~parsed)
  OBVIOUS
<1>. HIDE DEF parsed, new, type
<1>7. /\ emitted \subseteq emitted' /\ emitted' \subseteq emitted \cup {<<a, type>>}
      /\ silent \subseteq silent' /\ (<<a, type>> \in emitted' \/ a \in silent')
  BY <1>2
<1>t. /\ \A b \in Actions, t \in EventTypes : Told(b, t) => Told(b, t)'
      /\ \A b \in Actions, t \in EventTypes : Told(b, t)' => Told(b, t) \/ (b = a /\ t = type)
      /\ EventTypes = {"completed", "failed", "processing_started", "processing_failed"}
  BY <1>2 DEF Told, EventTypes
<1>8. ControlTyped'
  <2>1. call' \in [Calls -> [pc : {"idle", "inHandler", "done"}, action : Actions \cup {NoAction}]]
    BY <1>2 DEF ControlInv, ControlTyped
  <2>2. emitted' \subseteq Actions \X EventTypes /\ handled' \cup silent' \subseteq Actions
    BY <1>2, <1>6 DEF ControlInv, ControlTyped, EventTypes
  <2>3. QED
    BY <1>2, <1>3, <1>4, <2>1, <2>2 DEF ControlInv, ControlTyped
<1>9. /\ action'[a] = new /\ \A b \in Actions : b # a => action'[b] = action[b]
  BY <1>2, <1>3 DEF ControlInv, ControlTyped
<1>10. /\ Parsed(a)' <=> parsed
       /\ \A b \in Actions : b # a => (Parsed(b)' <=> Parsed(b))
  BY <1>3, <1>9 DEF Parsed, parsed
<1>11. HandledParsed'
  BY <1>1, <1>3, <1>6, <1>7, <1>9, <1>10 DEF ControlInv, HandledParsed, Told
<1>12. CallsParsed'
  <2>1. \A b \in Actions : Told(b, "processing_started") => Told(b, "processing_started")'
    BY <1>7 DEF Told
  <2>2. \A d \in Calls : call'[d].pc = "inHandler" =>
          \/ parsed /\ call'[d].action = a /\ Told(a, "processing_started")'
          \/ call'[d] = call[d] /\ (call[d].action = a => parsed)
    BY <1>4, <1>5 DEF Told
  <2>3. QED
    BY <1>3, <1>9, <1>10, <2>1, <2>2 DEF ControlInv, ControlTyped, CallsParsed
<1>13. ActionsAreTrue'
  <2>0. ASSUME NEW b \in Actions, b # a
        PROVE  /\ Told(b, "completed")' <=> Told(b, "completed")
               /\ Told(b, "failed")' <=> Told(b, "failed")
               /\ Told(b, "processing_failed")' <=> Told(b, "processing_failed")
               /\ Told(b, "processing_started")' <=> Told(b, "processing_started")
    BY <1>t, <2>0
  <2>1. \A b \in Actions : b # a => TrueOf(b)'
    BY <1>7, <1>9, <2>0 DEF ControlInv, ActionsAreTrue, TrueOf
  <2>2. TrueOf(a)
    BY DEF ControlInv, ActionsAreTrue
  <2>3. Told(a, type)' \/ a \in silent'
    BY <1>7 DEF Told
  <2>4. /\ \A t \in EventTypes : t # type => (Told(a, t)' <=> Told(a, t))
        /\ \A t \in EventTypes : Told(a, t) => Told(a, t)'
        /\ a \in silent => a \in silent'
    BY <1>7, <1>t
  <2>5. TrueOf(a)'
    <3>1. CASE parsed
      BY <3>1, <1>1, <1>3, <1>6, <1>9, <1>t, <2>2, <2>3, <2>4 DEF TrueOf
    <3>2. CASE ~parsed
      <4>1. a \notin handled /\ type = "processing_failed" /\ action'[a].status = "failed"
        BY <3>2, <1>1, <1>3, <1>6, <1>9
      <4>2. ~Told(a, "completed")'
        BY <4>1, <1>t, <2>2, <2>3, <2>4 DEF TrueOf
      <4>3. QED
        BY <4>1, <4>2, <1>t, <2>3, <2>4 DEF TrueOf
    <3>3. QED
      BY <3>1, <3>2
  <2>6. QED
    BY <2>1, <2>5 DEF ActionsAreTrue
<1>14. QED
  BY <1>8, <1>11, <1>12, <1>13 DEF ControlInv

LEMMA ControlInitially ==
  ASSUME Init
  PROVE  ControlInv
<1>1. \A a \in Actions : action[a] \in ActionRows
  BY DEF Init, ControlInit, ActionRows, Statuses
<1>2. QED
  BY <1>1 DEF Init, ControlInit, ControlInv, ControlTyped, HandledParsed, CallsParsed, ActionsAreTrue, TrueOf, Told

(* A status is all that updateStatus writes. *)
LEMMA StatusWritten ==
  ASSUME ControlInv, NEW a \in Actions, NEW s \in {"completed", "failed"}, UpdateStatus(a, s)
  PROVE  /\ action' \in [Actions -> ActionRows]
         /\ \A b \in Actions : b # a => action'[b] = action[b]
         /\ \A b \in Actions : Parsed(b)' <=> Parsed(b)
         /\ action'[a].status = s
<1>1. action' = [action EXCEPT ![a] = [action[a] EXCEPT !.status = s]]
  BY DEF UpdateStatus
<1>2. action[a] \in [status : Statuses, type : ActionTypes \cup {"none"}, payload : SUBSET Fields]
  BY DEF ControlInv, ControlTyped, ActionRows
<1>3. s \in Statuses
  BY DEF Statuses
<1>. DEFINE new == [action[a] EXCEPT !.status = s]
<1>4. /\ new \in [status : Statuses, type : ActionTypes \cup {"none"}, payload : SUBSET Fields]
      /\ new.type = action[a].type /\ new.payload = action[a].payload /\ new.status = s
  BY <1>2, <1>3
<1>. HIDE DEF new
<1>5. action' = [action EXCEPT ![a] = new]
  BY <1>1 DEF new
<1>6. /\ action' \in [Actions -> ActionRows] /\ action'[a] = new
      /\ \A b \in Actions : b # a => action'[b] = action[b]
  BY <1>4, <1>5 DEF ControlInv, ControlTyped, ActionRows
<1>7. \A b \in Actions : Parsed(b)' <=> Parsed(b)
  BY <1>4, <1>6 DEF Parsed
<1>8. QED
  BY <1>4, <1>6, <1>7

(* A call that awaits its handler ends: it may write a status, tell of it in *)
(* events, and have had its effect.                                          *)
LEMMA UpdateKeepsControl ==
  ASSUME ControlInv, NEW c \in Calls, call[c].pc = "inHandler",
         NEW a \in Actions, call[c].action = a, NEW told \in SUBSET {"completed", "failed"},
         \/ UNCHANGED action
         \/ UpdateStatus(a, "completed") /\ a \in handled'
         \/ UpdateStatus(a, "failed") /\ ("failed" \in told \/ a \in silent'),
         handled' \in {handled, handled \cup {a}}, silent' \in {silent, silent \cup {a}},
         \A b \in Actions, t \in EventTypes :
           <<b, t>> \in emitted' <=> <<b, t>> \in emitted \/ (b = a /\ t \in told),
         emitted' \subseteq Actions \X EventTypes,
         "completed" \in told => a \in handled',
         handled' = handled \/ "completed" \in told \/ a \in silent',
         call' \in [Calls -> [pc : {"idle", "inHandler", "done"}, action : Actions \cup {NoAction}]],
         \A d \in Calls : call'[d].pc = "inHandler" => call[d] = call'[d]
  PROVE  ControlInv'
<1>1. Parsed(a) /\ ~Told(a, "processing_failed") /\ action[a].status # "absent"
      /\ Told(a, "processing_started")
  BY DEF ControlInv, ControlTyped, CallsParsed, HandledParsed, Told
<1>2. /\ action' \in [Actions -> ActionRows]
      /\ \A b \in Actions : b # a => action'[b] = action[b]
      /\ \A b \in Actions : Parsed(b)' <=> Parsed(b)
      /\ \/ action'[a].status = action[a].status
         \/ action'[a].status = "completed" /\ a \in handled'
         \/ action'[a].status = "failed" /\ ("failed" \in told \/ a \in silent')
  <2>1. CASE UNCHANGED action
    BY <2>1 DEF ControlInv, ControlTyped, Parsed
  <2>2. CASE UpdateStatus(a, "completed") /\ a \in handled'
    BY <2>2, StatusWritten
  <2>3. CASE UpdateStatus(a, "failed") /\ ("failed" \in told \/ a \in silent')
    BY <2>3, StatusWritten
  <2>4. QED
    BY <2>1, <2>2, <2>3
<1>3. {"completed", "failed", "processing_started", "processing_failed"} = EventTypes
      /\ "processing_failed" \notin told
  BY DEF EventTypes
<1>4. /\ \A b \in Actions : Told(b, "completed")' <=> Told(b, "completed") \/ (b = a /\ "completed" \in told)
      /\ \A b \in Actions : Told(b, "failed")' <=> Told(b, "failed") \/ (b = a /\ "failed" \in told)
      /\ \A b \in Actions : Told(b, "processing_failed")' <=> Told(b, "processing_failed")
      /\ \A b \in Actions : Told(b, "processing_started") => Told(b, "processing_started")'
  BY <1>3 DEF Told
<1>5. ControlTyped'
  BY <1>2 DEF ControlInv, ControlTyped
<1>6. HandledParsed'
  BY <1>1, <1>2, <1>4 DEF ControlInv, HandledParsed
<1>7. CallsParsed'
  BY <1>2, <1>4, <1>1 DEF ControlInv, ControlTyped, CallsParsed
<1>8. ActionsAreTrue'
  <2>1. \A b \in Actions : b # a => TrueOf(b)'
    BY <1>2, <1>4 DEF ControlInv, ActionsAreTrue, TrueOf
  <2>2. TrueOf(a)'
    BY <1>1, <1>2, <1>4 DEF ControlInv, ActionsAreTrue, TrueOf
  <2>3. QED
    BY <2>1, <2>2 DEF ActionsAreTrue
<1>9. QED
  BY <1>5, <1>6, <1>7, <1>8 DEF ControlInv

(* The process dies, and with it its calls. *)
LEMMA DeadCalls ==
  ASSUME ControlTyped, CallsDie
  PROVE  /\ call' \in [Calls -> [pc : {"idle", "inHandler", "done"}, action : Actions \cup {NoAction}]]
         /\ \A c \in Calls : call'[c].pc # "inHandler"
BY DEF ControlTyped, CallsDie

(* Each move keeps the invariant. *)
LEMMA ControlNext ==
  ASSUME ControlInv, [Next]_vars
  PROVE  ControlInv'
<1>1. CASE UNCHANGED controlVars
  BY <1>1 DEF controlVars, ControlInv, ControlTyped, HandledParsed, CallsParsed, Parsed, ActionsAreTrue,
                 TrueOf, Told
<1>c. ASSUME NEW c \in Calls, call[c].pc = "inHandler", CutShort(call[c].action),
             call' \in [Calls -> [pc : {"idle", "inHandler", "done"}, action : Actions \cup {NoAction}]],
             \A d \in Calls : call'[d].pc = "inHandler" => call[d] = call'[d]
      PROVE  ControlInv'
  <2>1. PICK a \in Actions : call[c].action = a
    BY <1>c DEF ControlInv, ControlTyped
  <2>2. PICK told \in SUBSET {"completed", "failed"} : told = {}
    OBVIOUS
  <2>3. /\ emitted' \subseteq Actions \X EventTypes
        /\ \A b \in Actions, t \in EventTypes :
             <<b, t>> \in emitted' <=> <<b, t>> \in emitted \/ (b = a /\ t \in told)
    BY <1>c, <2>2 DEF CutShort, ControlInv, ControlTyped
  <2>4. /\ a \in silent' /\ silent' \in {silent, silent \cup {a}}
        /\ handled' \in {handled, handled \cup {a}} /\ "completed" \notin told
        /\ \/ UNCHANGED action
           \/ UpdateStatus(a, "completed") /\ a \in handled'
           \/ UpdateStatus(a, "failed")
    BY <1>c, <2>1, <2>2 DEF CutShort
  <2>5. QED
    BY <1>c, <2>1, <2>3, <2>4, UpdateKeepsControl
<1>2. ASSUME NEW r \in Recoveries, RequestApproval(r) PROVE ControlInv'
  <2>. DEFINE a == ControlOf[r]
             new == Pending("trigger_recovery", {"artifactId", "reason"})
  <2>1. a \in Actions /\ action[a].status = "absent" /\ action' = [action EXCEPT ![a] = new]
        /\ UNCHANGED <<call, emitted, handled, silent>>
    BY <1>2, RecoveryAssumption DEF RequestApproval
  <2>2. new \in ActionRows /\ new.status = "pending"
    BY PayloadsTyped DEF Pending, ActionRows, Statuses
  <2>3. a \notin handled /\ <<a, "processing_failed">> \notin emitted
        /\ <<a, "completed">> \notin emitted /\ \A c \in Calls : call[c].pc = "inHandler" => call[c].action # a
    BY <2>1 DEF ControlInv, HandledParsed, CallsParsed, ActionsAreTrue, TrueOf, Told
  <2>. HIDE DEF new
  <2>4. ControlTyped'
    BY <2>1, <2>2 DEF ControlInv, ControlTyped
  <2>5. HandledParsed'
    BY <2>1, <2>3 DEF ControlInv, ControlTyped, HandledParsed, Parsed, Told
  <2>6. CallsParsed'
    BY <2>1, <2>3 DEF ControlInv, ControlTyped, CallsParsed, Parsed, Told
  <2>7. ActionsAreTrue'
    BY <2>1, <2>2, <2>3 DEF ControlInv, ControlTyped, ActionsAreTrue, TrueOf, Told
  <2>8. QED
    BY <2>4, <2>5, <2>6, <2>7 DEF ControlInv
<1>3. ASSUME NEW c \in Calls, NEW a \in Actions, ProcessStored(c, a) PROVE ControlInv'
  BY <1>3, ProcessKeepsControl DEF ProcessStored, ControlInv, ControlTyped
<1>4. ASSUME NEW c \in Calls, NEW a \in Actions, NEW t \in Commands, Command(c, a, t) PROVE ControlInv'
  <2>1. Pending(t, actionTypeSchemas[t]) \in ActionRows /\ Pending(t, actionTypeSchemas[t]).status = "pending"
    BY PayloadsTyped DEF Pending, ActionRows, Statuses
  <2>2. action[a].status = "absent" /\ Process(c, a, Pending(t, actionTypeSchemas[t])) /\ UNCHANGED handled
    BY <1>4 DEF Command
  <2>3. QED
    BY <2>1, <2>2, ProcessKeepsControl
<1>5. ASSUME NEW c \in Calls, CallStep(c) PROVE ControlInv'
  <2>1. PICK a \in Actions : call[c].action = a /\ call[c].pc = "inHandler"
    BY <1>5 DEF CallStep, HandlerSucceeds, HandlerFails, SuccessThrows, CatchThrows, ControlInv, ControlTyped
  <2>2. /\ call' \in [Calls -> [pc : {"idle", "inHandler", "done"}, action : Actions \cup {NoAction}]]
        /\ \A d \in Calls : call'[d].pc = "inHandler" => call[d] = call'[d]
    <3>1. call' = [call EXCEPT ![c] = [pc |-> "done", action |-> a]]
      BY <1>5, <2>1 DEF CallStep, HandlerSucceeds, HandlerFails, SuccessThrows, CatchThrows, Returns, Go
    <3>2. QED
      BY <2>1, <3>1 DEF ControlInv, ControlTyped
  <2>3. ASSUME NEW told \in SUBSET {"completed", "failed"}, NEW type, told = {type},
               emitted' = emitted \cup {<<a, type>>}
        PROVE  /\ emitted' \subseteq Actions \X EventTypes
               /\ \A b \in Actions, t \in EventTypes :
                    <<b, t>> \in emitted' <=> <<b, t>> \in emitted \/ (b = a /\ t \in told)
    BY <2>3 DEF ControlInv, ControlTyped, EventTypes
  <2>4. CASE HandlerSucceeds(c)
    <3>1. PICK told \in SUBSET {"completed", "failed"} : told = {"completed"}
      OBVIOUS
    <3>2. /\ UpdateStatus(a, "completed") /\ handled' = handled \cup {a} /\ silent' = silent
          /\ emitted' = emitted \cup {<<a, "completed">>}
      BY <2>1, <2>4 DEF HandlerSucceeds
    <3>3. /\ emitted' \subseteq Actions \X EventTypes
          /\ \A b \in Actions, t \in EventTypes :
               <<b, t>> \in emitted' <=> <<b, t>> \in emitted \/ (b = a /\ t \in told)
      BY <2>3, <3>1, <3>2
    <3>4. /\ "completed" \in told => a \in handled'
          /\ handled' = handled \/ "completed" \in told \/ a \in silent'
          /\ \/ UpdateStatus(a, "completed") /\ a \in handled'
             \/ UpdateStatus(a, "failed") /\ ("failed" \in told \/ a \in silent')
      BY <3>1, <3>2
    <3>5. QED
      BY <2>1, <2>2, <3>2, <3>3, <3>4, UpdateKeepsControl
  <2>5. CASE HandlerFails(c)
    <3>1. PICK told \in SUBSET {"completed", "failed"} : told = {"failed"}
      OBVIOUS
    <3>2. /\ UpdateStatus(a, "failed") /\ handled' = handled /\ silent' = silent
          /\ emitted' = emitted \cup {<<a, "failed">>}
      BY <2>1, <2>5 DEF HandlerFails
    <3>3. /\ emitted' \subseteq Actions \X EventTypes
          /\ \A b \in Actions, t \in EventTypes :
               <<b, t>> \in emitted' <=> <<b, t>> \in emitted \/ (b = a /\ t \in told)
      BY <2>3, <3>1, <3>2
    <3>4. /\ "completed" \in told => a \in handled'
          /\ handled' = handled \/ "completed" \in told \/ a \in silent'
          /\ \/ UpdateStatus(a, "completed") /\ a \in handled'
             \/ UpdateStatus(a, "failed") /\ ("failed" \in told \/ a \in silent')
      BY <3>1, <3>2
    <3>5. QED
      BY <2>1, <2>2, <3>2, <3>3, <3>4, UpdateKeepsControl
  <2>6. CASE SuccessThrows(c)
    <3>1. PICK told \in SUBSET {"completed", "failed"} : told = {"failed"}
      OBVIOUS
    <3>2. /\ UpdateStatus(a, "failed") /\ handled' = handled \cup {a} /\ silent' = silent \cup {a}
          /\ emitted' = emitted \cup {<<a, "failed">>}
      BY <2>1, <2>6 DEF SuccessThrows
    <3>3. /\ emitted' \subseteq Actions \X EventTypes
          /\ \A b \in Actions, t \in EventTypes :
               <<b, t>> \in emitted' <=> <<b, t>> \in emitted \/ (b = a /\ t \in told)
      BY <2>3, <3>1, <3>2
    <3>4. /\ handled' \in {handled, handled \cup {a}} /\ silent' \in {silent, silent \cup {a}}
          /\ "completed" \in told => a \in handled'
          /\ handled' = handled \/ "completed" \in told \/ a \in silent'
          /\ \/ UpdateStatus(a, "completed") /\ a \in handled'
             \/ UpdateStatus(a, "failed") /\ ("failed" \in told \/ a \in silent')
      BY <3>1, <3>2
    <3>5. QED
      BY <2>1, <2>2, <3>3, <3>4, UpdateKeepsControl
  <2>7. CASE CatchThrows(c)
    BY <2>2, <2>7, <1>c DEF CatchThrows
  <2>8. QED
    BY <1>5, <2>4, <2>5, <2>6, <2>7 DEF CallStep
<1>7. CASE CallsDie /\ UNCHANGED <<action, emitted, handled, silent>>
  BY <1>7, DeadCalls
     DEF ControlInv, ControlTyped, HandledParsed, CallsParsed, Parsed, ActionsAreTrue, TrueOf, Told
<1>8. ASSUME NEW c \in Calls, DieBeforeEvent(c) PROVE ControlInv'
  <2>1. CallsDie /\ CutShort(call[c].action) /\ call[c].pc = "inHandler"
    BY <1>8 DEF DieBeforeEvent
  <2>2. /\ call' \in [Calls -> [pc : {"idle", "inHandler", "done"}, action : Actions \cup {NoAction}]]
        /\ \A d \in Calls : call'[d].pc # "inHandler"
    BY <2>1, DeadCalls DEF ControlInv
  <2>3. QED
    BY <2>1, <2>2, <1>c
<1>9. QED
  BY <1>1, <1>2, <1>3, <1>4, <1>5, <1>7, <1>8, ControlMoves

(* The invariant of the control actions. *)
LEMMA ControlAlways == Spec => []ControlInv
BY ControlInitially, ControlNext, PTL DEF Spec

(* A completed action has had its effect, and its events tell it, for *)
(* any number of process() calls of it and deaths between the writes.        *)
THEOREM ActionsStayTrue == Spec => []ActionsAreTrue
BY ControlAlways, PTL DEF ControlInv

(* What a step does to an action that has its verdict. *)
LEMMA VerdictStep ==
  ASSUME ControlInv, [Next]_vars, NEW a \in Actions, Settled(a)
  PROVE  action'[a] = action[a] /\ Settled(a)'
<1>. USE DEF ControlInv, ControlTyped, Settled
<1>1. CASE UNCHANGED controlVars
  BY <1>1 DEF controlVars
<1>2. CASE \E r \in Recoveries : RequestApproval(r)
  BY <1>2 DEF RequestApproval
<1>3. ASSUME NEW c \in Calls, NEW b \in Actions, NEW r \in ActionRows,
             action[b].status \in {"absent", "pending"}, Process(c, b, r)
      PROVE  action'[a] = action[a] /\ Settled(a)'
  <2>1. a # b
    BY <1>3
  <2>2. /\ action'[a] = action[a]
        /\ call' = [call EXCEPT ![c] = call'[c]] /\ call'[c].action = b
    BY <1>3, <2>1 DEF Process, Go
  <2>3. QED
    BY <2>1, <2>2
<1>4. CASE \E c \in Calls, b \in Actions : ProcessStored(c, b)
  BY <1>3, <1>4 DEF ProcessStored
<1>5. CASE \E c \in Calls, b \in Actions, t \in Commands : Command(c, b, t)
  <2>1. \A t \in Commands : Pending(t, actionTypeSchemas[t]) \in ActionRows
    BY PayloadsTyped DEF Pending, ActionRows, Statuses
  <2>2. QED
    BY <1>3, <1>5, <2>1 DEF Command
<1>6. CASE \E c \in Calls : CallStep(c)
  BY <1>6 DEF CallStep, HandlerSucceeds, HandlerFails, SuccessThrows, CatchThrows, CutShort,
              UpdateStatus, Returns, Go
<1>7. CASE CallsDie /\ UNCHANGED <<action, emitted, handled, silent>>
  BY <1>7, DeadCalls
<1>8. CASE \E c \in Calls : DieBeforeEvent(c)
  BY <1>8, DeadCalls DEF DieBeforeEvent, CutShort, UpdateStatus
<1>9. QED
  BY <1>1, <1>2, <1>4, <1>5, <1>6, <1>7, <1>8, ControlMoves

(* A verdict stays, once no other call is in the handler of the action. *)
THEOREM VerdictsStay == Spec => VerdictStays
<1>1. ControlInv /\ [Next]_vars =>
        [\A a \in Actions : Settled(a) => action'[a] = action[a] /\ Settled(a)']_vars
  BY VerdictStep
<1>2. QED
  BY <1>1, ControlAlways, PTL DEF Spec, VerdictStays

-----------------------------------------------------------------------------
ArtifactTyped ==
  /\ row \in [ArtifactIds -> RowStates]
  /\ pinned \cup aged \cup file \cup spared \subseteq ArtifactIds
  /\ pass \in [kind : PassKinds \cup {"none"}, todo : SUBSET ArtifactIds,
               at : ArtifactIds \cup {NoArtifact}]

(* A pass works on nothing that was pinned when it read its list. *)
ListIsSpared ==
  /\ pass.todo # {} => pass.kind \in PassKinds
  /\ \A a \in spared : row[a] = "live" => a \notin pass.todo

ArtifactInv == ArtifactTyped /\ ListIsSpared

(* What a step does to the artifacts. *)
LEMMA ArtifactMoves ==
  ASSUME [Next]_vars
  PROVE  \/ UNCHANGED artifactVars
         \/ \E r \in Recoveries : WriteFile(DiagOf[r]) \/ InsertRow(DiagOf[r])
         \/ PassDies /\ UNCHANGED <<row, pinned, aged, file, spared>>
         \/ ArtifactCommand
         \/ PassStep
<1>1. CASE UNCHANGED vars
  BY <1>1 DEF vars
<1>2. CASE \E r \in Recoveries : RecoveryStep(r)
  BY <1>2 DEF RecoveryStep, Start, CollectFile, CollectRow, CollectFails, Classify, Propose_,
              RequestApproval, PassThrough, Resume, Execute, Record
<1>3. CASE Death
  BY <1>3 DEF Death
<1>4. CASE Operate \/ Handle \/ Govern
  BY <1>4 DEF Operate, Handle, Govern
<1>5. CASE Retain
  BY <1>5 DEF Retain
<1>6. QED
  BY <1>1, <1>2, <1>3, <1>4, <1>5 DEF Next

(* No list of a pass has a live artifact that is pinned. *)
LEMMA ListsSparePinned ==
  ASSUME NEW kind \in PassKinds
  PROVE  /\ Candidates(kind) \subseteq ArtifactIds
         /\ \A a \in pinned : row[a] = "live" => a \notin Candidates(kind)
BY DEF PassKinds, Candidates, listExpired, listOrphaned, listExpiredUnpinned

(* One case per move. *)
LEMMA ArtifactNext ==
  ASSUME ArtifactInv, [Next]_vars
  PROVE  ArtifactInv'
<1>. USE DEF ArtifactInv, ArtifactTyped, ListIsSpared, RowStates
<1>1. CASE UNCHANGED artifactVars
  BY <1>1 DEF artifactVars
<1>2. CASE \E r \in Recoveries : WriteFile(DiagOf[r]) \/ InsertRow(DiagOf[r])
  BY <1>2, RecoveryAssumption DEF WriteFile, InsertRow
<1>3. CASE PassDies /\ UNCHANGED <<row, pinned, aged, file, spared>>
  BY <1>3 DEF PassDies, NoPass
<1>4. CASE \E a \in ArtifactIds, value \in BOOLEAN : SetPinned(a, value)
  BY <1>4 DEF SetPinned, NoPass
<1>5. CASE \E a \in ArtifactIds : Age(a)
  BY <1>5 DEF Age
<1>6. ASSUME NEW kind \in PassKinds, StartPass(kind) PROVE ArtifactInv'
  BY <1>6, ListsSparePinned DEF StartPass, NoPass
<1>7. CASE \E a \in ArtifactIds : Unlink(a)
  BY <1>7 DEF Unlink
<1>8. ASSUME NEW a \in ArtifactIds, MarkAndMoveOn(a) PROVE ArtifactInv'
  <2>1. \E s \in {"absent", "expired", "deleted"} : row' = [row EXCEPT ![a] = s]
    BY <1>8 DEF MarkAndMoveOn, Mark, PassKinds
  <2>2. pass'.todo = pass.todo \ {a} /\ (pass'.todo # {} => pass'.kind = pass.kind)
    BY <1>8 DEF MarkAndMoveOn, NoPass
  <2>3. pass' \in [kind : PassKinds \cup {"none"}, todo : SUBSET ArtifactIds,
                   at : ArtifactIds \cup {NoArtifact}]
    BY <1>8 DEF MarkAndMoveOn, NoPass
  <2>4. QED
    BY <1>8, <2>1, <2>2, <2>3 DEF MarkAndMoveOn
<1>9. QED
  BY <1>1, <1>2, <1>3, <1>4, <1>5, <1>6, <1>7, <1>8, ArtifactMoves DEF ArtifactCommand, PassStep

LEMMA ArtifactAlways == Spec => []ArtifactInv
<1>1. Init => ArtifactInv
  BY DEF Init, ArtifactInit, ArtifactInv, ArtifactTyped, ListIsSpared, RowStates, NoPass
<1>2. QED
  BY <1>1, ArtifactNext, PTL DEF Spec

(* What was pinned before a pass read its list keeps its row and its file. *)
THEOREM PinnedAreKept == Spec => PinnedIsKept
<1>1. ASSUME ArtifactInv, [Next]_vars, NEW a \in spared, row[a] = "live"
      PROVE  row'[a] = "live" /\ (a \in file => a \in file')
  <2>. USE <1>1 DEF ArtifactInv, ArtifactTyped, ListIsSpared
  <2>1. CASE UNCHANGED artifactVars
    BY <2>1 DEF artifactVars
  <2>2. CASE \E r \in Recoveries : WriteFile(DiagOf[r]) \/ InsertRow(DiagOf[r])
    BY <2>2 DEF WriteFile, InsertRow
  <2>3. CASE PassDies /\ UNCHANGED <<row, pinned, aged, file, spared>>
    BY <2>3
  <2>4. CASE ArtifactCommand
    BY <2>4 DEF ArtifactCommand, SetPinned, Age, StartPass
  <2>5. CASE PassStep
    BY <2>5 DEF PassStep, Unlink, MarkAndMoveOn, Mark
  <2>6. QED
    BY <2>1, <2>2, <2>3, <2>4, <2>5, ArtifactMoves
<1>2. ArtifactInv /\ [Next]_vars =>
        [\A a \in spared : row[a] = "live" => row'[a] = "live" /\ (a \in file => a \in file')]_vars
  BY <1>1
<1>3. QED
  BY <1>2, ArtifactAlways, PTL DEF Spec, PinnedIsKept

-----------------------------------------------------------------------------
Entries == [from : MEMORY_STATUSES \cup {"none"}, to : MEMORY_STATUSES]

MemoryTyped ==
  /\ memory \in [Memories -> MemoryRows]
  /\ history \in [Memories -> Seq(Entries)]
  /\ torn \subseteq Memories

(* The history of a memory that no death cut leads to the status it has. *)
Chained(m) ==
  LET h == history[m] IN
  /\ memory[m].status = "absent" <=> h = << >>
  /\ h # << >> => h[1].from = "none" /\ h[Len(h)].to = memory[m].status
  /\ \A i \in 2 .. Len(h) : h[i].from = h[i - 1].to

Approval == [from |-> "pending_approval", to |-> "active"]

Approved(m) ==
  memory[m].scope \notin Ephemeral /\ memory[m].status = "active" =>
    \E i \in 1 .. Len(history[m]) : history[m][i] = Approval

MemoryInv == MemoryTyped /\ \A m \in Memories \ torn : Chained(m) /\ Approved(m)

(* What a step does to the memories. *)
LEMMA MemoryMoves ==
  ASSUME [Next]_vars
  PROVE  \/ UNCHANGED memoryVars
         \/ \E m \in Memories, scope \in Scopes \cup {"run"} : Propose(m, scope)
         \/ \E m \in Memories, to \in MEMORY_STATUSES : Decide(m, to)
         \/ \E m \in Memories : Delete(m) \/ WriteAndDie(m)
<1>1. CASE UNCHANGED vars
  BY <1>1 DEF vars
<1>2. CASE \E r \in Recoveries : RecoveryStep(r)
  <2>1. PICK r \in Recoveries : RecoveryStep(r)
    BY <1>2
  <2>2. CASE Record(r)
    BY <2>2, RecoveryAssumption DEF Record
  <2>3. CASE ~Record(r)
    BY <2>1, <2>3 DEF RecoveryStep, Start, CollectFile, CollectRow, CollectFails, Classify,
                      Propose_, RequestApproval, PassThrough, Resume, Execute
  <2>4. QED
    BY <2>2, <2>3
<1>3. CASE Death
  BY <1>3 DEF Death, memoryVars
<1>4. CASE Operate \/ Handle \/ Retain
  BY <1>4 DEF Operate, Handle, Retain
<1>5. CASE Govern
  BY <1>5 DEF Govern
<1>6. QED
  BY <1>1, <1>2, <1>3, <1>4, <1>5 DEF Next

(* A write and its entry, of a memory whose history is whole. *)
LEMMA EntryChains ==
  ASSUME MemoryInv, NEW m \in Memories, NEW from, NEW to \in MEMORY_STATUSES,
         from = IF memory[m].status = "absent" THEN "none" ELSE memory[m].status,
         NEW scope \in MEMORY_SCOPES \cup {"none"},
         memory' = [memory EXCEPT ![m] = [status |-> to, scope |-> scope]],
         scope \notin Ephemeral /\ to = "active" => from = "pending_approval",
         RecordHistory(m, from, to)
  PROVE  MemoryInv'
<1>. DEFINE h == history[m]
            e == [from |-> from, to |-> to]
<1>1. h \in Seq(Entries) /\ e \in Entries /\ history' = [history EXCEPT ![m] = Append(h, e)] /\ torn' = torn
  BY DEF MemoryInv, MemoryTyped, Entries, RecordHistory, MemoryRows
<1>2. memory'[m] = [status |-> to, scope |-> scope] /\ history'[m] = Append(h, e)
      /\ \A n \in Memories : n # m => memory'[n] = memory[n] /\ history'[n] = history[n]
  BY <1>1 DEF MemoryInv, MemoryTyped
<1>3. MemoryTyped'
  BY <1>1, <1>2 DEF MemoryInv, MemoryTyped, MemoryRows
<1>4. ASSUME m \notin torn PROVE Chained(m)' /\ Approved(m)'
  <2>1. /\ Len(Append(h, e)) = Len(h) + 1 /\ Len(h) \in Nat
        /\ Append(h, e)[Len(h) + 1] = e
        /\ \A i \in 1 .. Len(h) : Append(h, e)[i] = h[i]
    BY <1>1
  <2>2. h # << >> => Len(h) > 0
    BY <1>1
  <2>3. Append(h, e) # << >> /\ to # "absent"
    BY <1>1, <2>1 DEF MEMORY_STATUSES
  <2>4. Chained(m)
    BY <1>4 DEF MemoryInv
  <2>5. /\ h = << >> => e.from = "none"
        /\ h # << >> => e.from = h[Len(h)].to /\ h[1].from = "none"
    BY <2>4 DEF Chained
  <2>6. Append(h, e)[1].from = "none"
    <3>1. CASE h = << >>
      BY <2>1, <2>5, <3>1
    <3>2. CASE h # << >>
      BY <2>1, <2>2, <2>5, <3>2
    <3>3. QED
      BY <3>1, <3>2
  <2>7. \A i \in 2 .. Len(h) + 1 : Append(h, e)[i].from = Append(h, e)[i - 1].to
    <3>1. TAKE i \in 2 .. Len(h) + 1
    <3>2. CASE i \in 2 .. Len(h)
      BY <2>1, <2>4, <3>2 DEF Chained
    <3>3. CASE i = Len(h) + 1
      <4>1. i - 1 = Len(h) /\ Len(h) \in 1 .. Len(h) /\ h # << >>
        BY <2>1, <3>1, <3>3
      <4>2. QED
        BY <2>1, <2>5, <3>3, <4>1
    <3>4. QED
      BY <2>1, <3>1, <3>2, <3>3
  <2>8. Chained(m)'
    BY <1>2, <2>1, <2>3, <2>6, <2>7 DEF Chained
  <2>9. Approved(m)'
    <3>1. scope \notin Ephemeral /\ to = "active" => e = Approval
      BY DEF Approval
    <3>2. QED
      BY <1>2, <2>1, <3>1 DEF Approved
  <2>10. QED
    BY <2>8, <2>9
<1>5. \A n \in Memories \ torn : n # m => Chained(n)' /\ Approved(n)'
  BY <1>2 DEF MemoryInv, Chained, Approved
<1>6. QED
  BY <1>1, <1>3, <1>4, <1>5 DEF MemoryInv

(* One case per move. *)
LEMMA MemoryNext ==
  ASSUME MemoryInv, [Next]_vars
  PROVE  MemoryInv'
<1>1. CASE UNCHANGED memoryVars
  BY <1>1 DEF memoryVars, MemoryInv, MemoryTyped, Chained, Approved
<1>2. ASSUME NEW m \in Memories, NEW scope \in Scopes \cup {"run"}, Propose(m, scope) PROVE MemoryInv'
  <2>1. scope \in MEMORY_SCOPES /\ CandidateStatus(scope) \in MEMORY_STATUSES
        /\ (scope \notin Ephemeral => CandidateStatus(scope) # "active")
    BY ScopeAssumption DEF MEMORY_SCOPES, CandidateStatus, MEMORY_STATUSES
  <2>2. memory[m].status = "absent"
        /\ memory' = [memory EXCEPT ![m] = [status |-> CandidateStatus(scope), scope |-> scope]]
        /\ RecordHistory(m, "none", CandidateStatus(scope))
    BY <1>2 DEF Propose, CreateCandidate, NoMemory
  <2>3. QED
    BY <2>1, <2>2, EntryChains
<1>3. ASSUME NEW m \in Memories, NEW to \in MEMORY_STATUSES, Decide(m, to) PROVE MemoryInv'
  <2>1. memory[m] \in MemoryRows /\ memory' = [memory EXCEPT ![m] = [memory[m] EXCEPT !.status = to]]
        /\ Allowed(memory[m].status, to) /\ RecordHistory(m, memory[m].status, to)
    BY <1>3 DEF Decide, SetStatus, MemoryInv, MemoryTyped
  <2>2. /\ [memory[m] EXCEPT !.status = to] = [status |-> to, scope |-> memory[m].scope]
        /\ memory[m].scope \in MEMORY_SCOPES \cup {"none"} /\ memory[m].status # "absent"
        /\ to = "active" => memory[m].status = "pending_approval"
    BY <2>1 DEF MemoryRows, Allowed
  <2>3. QED
    BY <2>1, <2>2, EntryChains
<1>4. ASSUME NEW m \in Memories, Delete(m) PROVE MemoryInv'
  <2>1. /\ memory' = [memory EXCEPT ![m] = NoMemory] /\ history' = [history EXCEPT ![m] = << >>]
        /\ torn' = torn \ {m}
    BY <1>4 DEF Delete
  <2>2. MemoryTyped'
    BY <2>1 DEF MemoryInv, MemoryTyped, MemoryRows, NoMemory
  <2>3. memory'[m] = NoMemory /\ history'[m] = << >>
        /\ \A n \in Memories : n # m => memory'[n] = memory[n] /\ history'[n] = history[n]
    BY <2>1 DEF MemoryInv, MemoryTyped
  <2>4. Chained(m)' /\ Approved(m)'
    BY <2>3 DEF Chained, Approved, NoMemory
  <2>5. \A n \in Memories \ torn : n # m => Chained(n)' /\ Approved(n)'
    BY <2>3 DEF MemoryInv, Chained, Approved
  <2>6. QED
    BY <2>1, <2>2, <2>4, <2>5 DEF MemoryInv
<1>5. ASSUME NEW m \in Memories, WriteAndDie(m) PROVE MemoryInv'
  <2>1. torn' = torn \cup {m} /\ history' = history
    BY <1>5 DEF WriteAndDie, LoseHistory
  <2>2. \E new \in MemoryRows : memory' = [memory EXCEPT ![m] = new]
    <3>1. ASSUME NEW scope \in Scopes, CreateCandidate(m, scope)
          PROVE  \E new \in MemoryRows : memory' = [memory EXCEPT ![m] = new]
      <4>1. [status |-> CandidateStatus(scope), scope |-> scope] \in MemoryRows
        BY ScopeAssumption DEF MemoryRows, CandidateStatus, MEMORY_STATUSES
      <4>2. QED
        BY <3>1, <4>1 DEF CreateCandidate
    <3>2. ASSUME NEW to \in MEMORY_STATUSES, SetStatus(m, to)
          PROVE  \E new \in MemoryRows : memory' = [memory EXCEPT ![m] = new]
      <4>1. [memory[m] EXCEPT !.status = to] \in MemoryRows
        BY DEF MemoryInv, MemoryTyped, MemoryRows
      <4>2. memory' = [memory EXCEPT ![m] = [memory[m] EXCEPT !.status = to]]
        BY <3>2 DEF SetStatus, MemoryInv, MemoryTyped
      <4>3. QED
        BY <4>1, <4>2
    <3>3. QED
      BY <1>5, <3>1, <3>2 DEF WriteAndDie
  <2>3. MemoryTyped'
    BY <2>1, <2>2 DEF MemoryInv, MemoryTyped
  <2>4. \A n \in Memories : n # m => memory'[n] = memory[n]
    BY <2>2 DEF MemoryInv, MemoryTyped
  <2>5. QED
    BY <2>1, <2>3, <2>4 DEF MemoryInv, Chained, Approved
<1>6. QED
  BY <1>1, <1>2, <1>3, <1>4, <1>5, MemoryMoves

LEMMA MemoryAlways == Spec => []MemoryInv
<1>1. ASSUME Init PROVE MemoryInv
  <2>1. MemoryTyped
    BY <1>1 DEF Init, MemoryInit, MemoryTyped, MemoryRows, NoMemory
  <2>2. \A m \in Memories : Chained(m) /\ Approved(m)
    BY <1>1 DEF Init, MemoryInit, Chained, Approved, NoMemory
  <2>3. QED
    BY <2>1, <2>2 DEF MemoryInv
<1>2. QED
  BY <1>1, MemoryNext, PTL DEF Spec

(* No search finds a durable memory that nobody approved, and the history of *)
(* a memory accounts for its status, for any number of memories and writes.  *)
THEOREM MemoryStaysGoverned == Spec => []MemoryIsGoverned
<1>1. ASSUME MemoryInv PROVE MemoryIsGoverned
  <2>1. ASSUME NEW m \in Memories, m \notin torn, memory[m].scope \notin Ephemeral,
               \E s \in MEMORY_SCOPES : m \in searchActive(s)
        PROVE  Approval \in {history[m][i] : i \in 1 .. Len(history[m])}
    <3>1. memory[m].status = "active"
      BY <2>1 DEF searchActive, listActive
    <3>2. QED
      BY <1>1, <2>1, <3>1 DEF MemoryInv, Approved
  <2>2. QED
    BY <1>1, <2>1 DEF MemoryInv, MemoryIsGoverned, Chained, Approval
<1>2. QED
  BY <1>1, MemoryAlways, PTL

-----------------------------------------------------------------------------
RecoveryTyped ==
  /\ step \in [Recoveries -> Sections \cup Ends]
  /\ proposal \in [Recoveries -> {"undecided", "none", "retry", "request_approval"}]
  /\ failure \in [Recoveries -> Errors \cup {NoError}]
  /\ left \cup signalled \subseteq Recoveries

(* What was proposed stays what the failure calls for until it is carried out. *)
ProposalFits ==
  \A r \in Recoveries :
    step[r] = "approve" => proposal[r] = ProposalFor(classifyFailure(failure[r]))

UnknownIsSignalled ==
  \A r \in Recoveries :
    step[r] \in {"execute", "record", "succeeded"} /\ classifyFailure(failure[r]) = "unknown"
      => r \in signalled

AtWork == {r \in Recoveries : step[r] \in Sections \cup {"waiting"}}

(* A recovery that waits has left its row behind, which keeps others out. *)
OneAtWork ==
  /\ \A r, s \in AtWork : r = s
  /\ \A r \in Recoveries : step[r] = "waiting" => r \in left

WaitHasAction == \A r \in Recoveries : step[r] = "waiting" => action[ControlOf[r]].status # "absent"

RecoveryInv == RecoveryTyped /\ ProposalFits /\ UnknownIsSignalled /\ OneAtWork /\ WaitHasAction

(* No step takes a control action's row away. *)
LEMMA ActionsStay ==
  ASSUME ControlInv, [Next]_vars, NEW a \in Actions, action[a].status # "absent"
  PROVE  action'[a].status # "absent"
<1>. USE DEF ControlInv, ControlTyped, ActionRows
<1>1. CASE UNCHANGED controlVars
  BY <1>1 DEF controlVars
<1>2. CASE \E r \in Recoveries : RequestApproval(r)
  BY <1>2 DEF RequestApproval
<1>3. CASE \E c \in Calls, b \in Actions : ProcessStored(c, b)
  BY <1>3 DEF ProcessStored, Process
<1>4. CASE \E c \in Calls, b \in Actions, t \in Commands : Command(c, b, t)
  BY <1>4 DEF Command, Process
<1>5. CASE \E c \in Calls : CallStep(c) \/ DieBeforeEvent(c)
  BY <1>5 DEF CallStep, HandlerSucceeds, HandlerFails, SuccessThrows, CatchThrows, DieBeforeEvent,
              CutShort, UpdateStatus
<1>6. CASE CallsDie /\ UNCHANGED <<action, emitted, handled, silent>>
  BY <1>6
<1>7. QED
  BY <1>1, <1>2, <1>3, <1>4, <1>5, <1>6, ControlMoves

(* What a step does to the recoveries. *)
LEMMA RecoveryMoves ==
  ASSUME [Next]_vars
  PROVE  UNCHANGED recoveryVars \/ RecoveriesDie \/ \E r \in Recoveries : RecoveryStep(r)
<1>1. CASE UNCHANGED vars
  BY <1>1 DEF vars
<1>2. CASE Death
  BY <1>2 DEF Death
<1>3. CASE Operate \/ Handle \/ Govern \/ Retain
  BY <1>3 DEF Operate, Handle, Govern, Retain
<1>4. QED
  BY <1>1, <1>2, <1>3 DEF Next

(* A recovery moves on within its work, which no other is at. *)
LEMMA MoveKeepsOne ==
  ASSUME RecoveryTyped, OneAtWork, NEW r \in Recoveries, r \in AtWork, NEW s \in Sections \cup Ends,
         GoTo(r, s), left' \in {left, left \cup {r}}, s = "waiting" => r \in left'
  PROVE  OneAtWork'
<1>1. step' = [step EXCEPT ![r] = s]
  BY DEF GoTo
<1>2. AtWork' \subseteq AtWork
  BY <1>1 DEF RecoveryTyped, AtWork
<1>3. QED
  BY <1>1, <1>2 DEF RecoveryTyped, OneAtWork

(* One case per action of a recovery. *)
LEMMA RecoveryNext ==
  ASSUME ControlInv, RecoveryInv, [Next]_vars
  PROVE  RecoveryInv'
<1>. USE DEF RecoveryInv
<1>0. \A r \in Recoveries : step[r] = "waiting" => action'[ControlOf[r]].status # "absent"
  BY ActionsStay, RecoveryAssumption DEF WaitHasAction
<1>1. CASE UNCHANGED recoveryVars
  BY <1>0, <1>1 DEF recoveryVars, RecoveryTyped, ProposalFits, UnknownIsSignalled, OneAtWork, AtWork,
                    WaitHasAction
<1>2. CASE RecoveriesDie
  <2>1. /\ step' \in [Recoveries -> Sections \cup Ends] /\ UNCHANGED <<failure, proposal, left, signalled>>
        /\ \A r \in Recoveries : step'[r] = "interrupted" \/ (step'[r] = step[r] /\ step[r] \notin Sections)
    BY <1>2 DEF RecoveriesDie, RecoveryTyped, Ends
  <2>2. AtWork' \subseteq AtWork
    BY <2>1 DEF AtWork, Sections
  <2>3. QED
    BY <1>0, <2>1, <2>2 DEF RecoveryTyped, ProposalFits, UnknownIsSignalled, OneAtWork, WaitHasAction
<1>3. ASSUME NEW r \in Recoveries, Start(r) PROVE RecoveryInv'
  <2>1. PICK error \in Failures :
          /\ failure' = [failure EXCEPT ![r] = error]
          /\ step' = [step EXCEPT ![r] = IF Blocking = {} THEN "collect" ELSE "skipped"]
    BY <1>3 DEF Start, GoTo
  <2>2. step[r] = "new" /\ UNCHANGED <<proposal, left, signalled>>
    BY <1>3 DEF Start
  <2>3. RecoveryTyped'
    BY <2>1, <2>2, FailureAssumption DEF RecoveryTyped, Sections, Ends
  <2>4. ProposalFits' /\ UnknownIsSignalled' /\ WaitHasAction'
    BY <1>0, <2>1, <2>2 DEF RecoveryTyped, ProposalFits, UnknownIsSignalled, WaitHasAction
  <2>5. Blocking = {} => AtWork = {}
    BY DEF Blocking, AtWork, OneAtWork, RecoveryTyped
  <2>6. OneAtWork'
    BY <2>1, <2>2, <2>5 DEF RecoveryTyped, OneAtWork, AtWork, Sections
  <2>7. QED
    BY <2>3, <2>4, <2>6
<1>4. ASSUME NEW r \in Recoveries, NEW from \in Sections, NEW to \in Sections \cup Ends,
             Advance(r, from, to), to \notin {"waiting", "approve", "execute"},
             from \in {"execute", "record"} \/ to \notin {"record", "succeeded"},
             UNCHANGED <<failure, proposal, left, signalled>>
      PROVE  RecoveryInv'
  <2>1. step[r] = from /\ step' = [step EXCEPT ![r] = to] /\ r \in AtWork
    BY <1>4 DEF Advance, GoTo, AtWork
  <2>2. OneAtWork'
    BY <1>4, <2>1, MoveKeepsOne DEF Advance
  <2>3. RecoveryTyped'
    BY <1>4, <2>1 DEF RecoveryTyped
  <2>4. ProposalFits' /\ UnknownIsSignalled' /\ WaitHasAction'
    BY <1>0, <1>4, <2>1 DEF RecoveryTyped, ProposalFits, UnknownIsSignalled, WaitHasAction
  <2>5. QED
    BY <2>2, <2>3, <2>4
<1>5. ASSUME NEW r \in Recoveries,
             CollectFile(r) \/ CollectRow(r) \/ CollectFails(r) \/ Classify(r) \/ Execute(r) \/ Record(r)
      PROVE  RecoveryInv'
  <2>1. UNCHANGED <<failure, proposal, left, signalled>>
    BY <1>5 DEF CollectFile, CollectRow, CollectFails, Classify, Execute, Record
  <2>2. \/ Advance(r, "collect", "insert") \/ Advance(r, "insert", "classify")
        \/ Advance(r, "insert", "failed") \/ Advance(r, "classify", "search")
        \/ Advance(r, "search", "propose") \/ Advance(r, "execute", "record")
        \/ Advance(r, "record", "succeeded")
    BY <1>5 DEF CollectFile, CollectRow, CollectFails, Classify, Execute, Record
  <2>3. QED
    BY <1>4, <2>1, <2>2 DEF Sections, Ends
<1>6. ASSUME NEW r \in Recoveries, Propose_(r) PROVE RecoveryInv'
  <2>1. /\ step[r] = "propose" /\ step' = [step EXCEPT ![r] = "approve"] /\ r \in AtWork
        /\ proposal' = [proposal EXCEPT ![r] = ProposalFor(classifyFailure(failure[r]))]
        /\ UNCHANGED <<failure, left, signalled>>
    BY <1>6 DEF Propose_, Advance, GoTo, AtWork, Sections
  <2>2. ProposalFor(classifyFailure(failure[r])) \in {"none", "retry", "request_approval"}
    BY DEF ProposalFor, classifyFailure
  <2>3. RecoveryTyped' /\ ProposalFits' /\ UnknownIsSignalled' /\ WaitHasAction'
    BY <1>0, <2>1, <2>2 DEF RecoveryTyped, ProposalFits, UnknownIsSignalled, WaitHasAction, Sections
  <2>4. OneAtWork'
    BY <1>6, <2>1, MoveKeepsOne DEF Propose_, Advance, Sections
  <2>5. QED
    BY <2>3, <2>4
<1>7. ASSUME NEW r \in Recoveries, RequestApproval(r) PROVE RecoveryInv'
  <2>1. /\ step[r] = "approve" /\ step' = [step EXCEPT ![r] = "waiting"] /\ r \in AtWork
        /\ left' = left \cup {r} /\ UNCHANGED <<failure, proposal, signalled>>
    BY <1>7 DEF RequestApproval, Advance, GoTo, AtWork, Sections
  <2>2. action'[ControlOf[r]].status # "absent"
    BY <1>7, RecoveryAssumption DEF RequestApproval, Pending, ControlInv, ControlTyped
  <2>3. RecoveryTyped' /\ ProposalFits' /\ UnknownIsSignalled' /\ WaitHasAction'
    BY <1>0, <2>1, <2>2 DEF RecoveryTyped, ProposalFits, UnknownIsSignalled, WaitHasAction, Ends
  <2>4. OneAtWork'
    BY <1>7, <2>1, MoveKeepsOne DEF RequestApproval, Advance, Ends
  <2>5. QED
    BY <2>3, <2>4
<1>8. ASSUME NEW r \in Recoveries, PassThrough(r) \/ Resume(r) PROVE RecoveryInv'
  <2>1. /\ step[r] \in {"approve", "waiting"} /\ step' = [step EXCEPT ![r] = "execute"] /\ r \in AtWork
        /\ GoTo(r, "execute") /\ UNCHANGED <<failure, proposal, left>>
        /\ signalled' \in {signalled, signalled \cup {r}}
    BY <1>8 DEF PassThrough, Resume, Advance, GoTo, AtWork, Sections
  <2>2. classifyFailure(failure[r]) = "unknown" => r \in signalled'
    BY <1>8 DEF PassThrough, Resume, Advance, ProposalFits, ProposalFor
  <2>3. RecoveryTyped' /\ ProposalFits' /\ UnknownIsSignalled' /\ WaitHasAction'
    BY <1>0, <2>1, <2>2 DEF RecoveryTyped, ProposalFits, UnknownIsSignalled, WaitHasAction, Sections
  <2>4. OneAtWork'
    BY <2>1, MoveKeepsOne DEF Sections
  <2>5. QED
    BY <2>3, <2>4
<1>9. QED
  BY <1>1, <1>2, <1>3, <1>5, <1>6, <1>7, <1>8, RecoveryMoves DEF RecoveryStep

LEMMA RecoveryAlways == Spec => []RecoveryInv
<1>1. ASSUME Init PROVE RecoveryInv
  BY <1>1 DEF Init, RecoveryInv, RecoveryTyped, ProposalFits, UnknownIsSignalled, OneAtWork, AtWork,
              WaitHasAction, Sections, Ends
<1>2. QED
  BY <1>1, RecoveryNext, ControlAlways, PTL DEF Spec

(* No unknown failure is carried out unapproved, a wait has its control       *)
(* action, and one recovery is at work, however many are asked for.           *)
THEOREM RecoveryStaysApproved == Spec => []RecoveryIsApproved
<1>1. ASSUME RecoveryInv PROVE RecoveryIsApproved
  <2>1. Cardinality(AtWork) <= 1
    <3>1. CASE AtWork = {}
      BY <3>1, FS_EmptySet
    <3>2. ASSUME NEW r \in AtWork PROVE Cardinality(AtWork) <= 1
      <4>1. AtWork = {r}
        BY <1>1, <3>2 DEF RecoveryInv, OneAtWork
      <4>2. Cardinality(AtWork) = 1
        BY <4>1, FS_Singleton, Zenon
      <4>3. QED
        BY <4>2
    <3>3. QED
      BY <3>1, <3>2
  <2>2. QED
    BY <1>1, <2>1 DEF RecoveryInv, UnknownIsSignalled, WaitHasAction, AtWork, RecoveryIsApproved
<1>2. QED
  BY <1>1, RecoveryAlways, PTL

-----------------------------------------------------------------------------
CommandsBounded == commands \in 0 .. MaxCommands

LEMMA CommandsAlways == Spec => []CommandsBounded
<1>1. Init => CommandsBounded
  BY RecoveryAssumption DEF Init, CommandsBounded
<1>2. CommandsBounded /\ [Next]_vars => CommandsBounded'
  BY RecoveryAssumption
     DEF CommandsBounded, Next, vars, RecoveryStep, Death, Operate, Handle, Govern, Retain, Counted
<1>3. QED
  BY <1>1, <1>2, PTL DEF Spec

(* Rows, calls, passes and recoveries are always in the states the code knows. *)
THEOREM RecoveryTypeCorrect == Spec => []TypeOK
<1>1. ASSUME ControlInv, ArtifactInv, MemoryInv, RecoveryInv, CommandsBounded PROVE TypeOK
  BY <1>1 DEF ControlInv, ControlTyped, ArtifactInv, ArtifactTyped, MemoryInv, MemoryTyped,
              RecoveryInv, RecoveryTyped, CommandsBounded, TypeOK
<1>2. QED
  BY <1>1, ControlAlways, ArtifactAlways, MemoryAlways, RecoveryAlways, CommandsAlways, PTL
=============================================================================

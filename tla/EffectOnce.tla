----------------------------- MODULE EffectOnce -----------------------------
(***************************************************************************)
(* What the effect boundary promises to the steps of workflows, without    *)
(* rows, events, executions or processes: the work of a key is done once,  *)
(* its result is kept before it is handed out, kept from then on, and it   *)
(* is handed out only for the input it was computed from.  EffectExecutor  *)
(* implements it.                                                          *)
(***************************************************************************)
CONSTANTS
  Effects, KeyOf, InputOf,  \* the effects, their idempotency keys and inputs
  Results, JsonOf,          \* what work results in, and what is kept of it
  Errors,                   \* what an effect can be refused with
  None

VARIABLES
  done,    \* the effects whose work was begun, and with it that of their key
  kept,    \* the result kept for an effect, or None
  answer   \* what the step was answered, or None

vars == <<done, kept, answer>>

Same(e, f) == KeyOf[e] = KeyOf[f] /\ KeyOf[e] # None
Fits(e, f) == InputOf[f] \in {None, InputOf[e]}

Init ==
  /\ done = {}
  /\ kept = [e \in Effects |-> None]
  /\ answer = [e \in Effects |-> None]

Answer(e, value) ==
  /\ answer[e] = None
  /\ answer' = [answer EXCEPT ![e] = value]

(* The work is begun, for the first and only time. *)
Work(e) ==
  /\ e \notin done
  /\ \A f \in done : ~Same(e, f)
  /\ done' = done \cup {e}
  /\ UNCHANGED <<kept, answer>>

Keep(e) ==
  /\ e \in done
  /\ kept[e] = None /\ answer[e] = None
  /\ \E r \in Results : kept' = [kept EXCEPT ![e] = JsonOf[r]]
  /\ UNCHANGED <<done, answer>>

(* A result that nobody was given yet can be lost. *)
Lose(e) ==
  /\ kept[e] # None /\ answer[e] = None
  /\ \A f \in Effects : Same(e, f) => answer[f] \notin Results
  /\ kept' = [kept EXCEPT ![e] = None]
  /\ UNCHANGED <<done, answer>>

(* The one whose work it was gets the result itself. *)
GiveOwn(e) ==
  /\ kept[e] # None
  /\ \E r \in Results : JsonOf[r] = kept[e] /\ Answer(e, r)
  /\ UNCHANGED <<done, kept>>

(* Others get what was kept. *)
GiveKept(e, f) ==
  /\ e \notin done
  /\ Same(e, f) /\ Fits(e, f)
  /\ kept[f] # None
  /\ Answer(e, kept[f])
  /\ UNCHANGED <<done, kept>>

(* An effect is refused, or its work or the record of it fails. *)
Refuse(e) ==
  /\ \E error \in Errors : Answer(e, error)
  /\ UNCHANGED <<done, kept>>

Next ==
  \E e \in Effects :
    \/ Work(e) \/ Keep(e) \/ Lose(e) \/ GiveOwn(e) \/ Refuse(e)
    \/ \E f \in Effects : GiveKept(e, f)

Spec == Init /\ [][Next]_vars
=============================================================================

------------------------- MODULE RequirementWorkflow -------------------------
(***************************************************************************)
(* The requirement workflow of src/plugins/requirement-workflow and the    *)
(* cards of src/plugins/feishu that drive it: a requirement is planned,    *)
(* revised, approved, developed in a worktree by an agent, tested and      *)
(* accepted, each step by a click on the card the step before it sent.     *)
(*                                                                         *)
(* Every click starts a workflow of one step and policy reject_if_running, *)
(* so there is at most one call of each workflow in the process, and calls *)
(* of different workflows interleave at their awaits: card updates, git,   *)
(* agents, test runs, and the end of each effect.                          *)
(*                                                                         *)
(* Requirements and plans are rows of SQLite, cards are messages of Feishu *)
(* and worktrees are directories: they outlive the process.  Executions,   *)
(* reports and the clicks handled are maps of the process.                 *)
(*                                                                         *)
(* Abstracted: texts and cloud documents; cards without buttons; the       *)
(* identity and permission checks of the ingress, which answer anything.   *)
(***************************************************************************)
EXTENDS Naturals

CONSTANTS
  Requirements,   \* requirement ids
  Messages,       \* bound: message ids of the cards with buttons
  MaxPlans,       \* bound on the plan versions of a requirement
  MaxRestarts,    \* bound on the restarts of the process
  None

ASSUME RequirementAssumption ==
  /\ MaxPlans \in Nat /\ MaxRestarts \in Nat
  /\ None \notin Messages

(* The workflow definitions, named for the button that starts them. *)
Buttons   == {"revise", "approve", "back", "cancel", "verify", "accept"}
Workflows == Buttons \cup {"intake"}

Statuses == {"absent", "planning", "plan_reviewing", "plan_approved", "executing",
             "implementation_ready", "verifying", "accepted", "cancelled", "failed"}

ExecutionStatuses == {"approved", "executing", "implementation_ready"}
Executions == [status : ExecutionStatuses, planVersion : Nat]

(* What the card of a message is for, and the buttons it shows. *)
CardKinds == {"plan", "developed", "undeveloped", "verified"}
ButtonsOf(kind) ==
  CASE kind = "plan"        -> {"approve", "revise", "cancel"}
    [] kind = "developed"   -> {"verify", "back", "cancel"}
    [] kind = "undeveloped" -> {"back", "cancel"}
    [] kind = "verified"    -> {"accept"}

Cards == [kind : CardKinds, requirement : Requirements, planVersion : Nat, open : BOOLEAN]

(* Where a call stands: it waits for the card it was started from to be     *)
(* locked, for its effect to begin, for an agent, git or the tests, or for  *)
(* its own card to be sent.                                                 *)
Locations == {"locking", "locked", "planning", "approved", "preparing", "addingWorktree",
              "developing", "testing", "sendingPlan", "sendingDeveloped",
              "sendingUndeveloped", "sendingReport"}

Calls == [pc : Locations, requirement : Requirements, message : Messages \cup {None},
          planVersion : Nat,     \* of the clicked card, then of the plan to be shown
          developed : Nat]       \* the plan version given to the development agent

ASSUME NoneIsNull == None \notin Cards \cup Calls \cup Executions

VARIABLES
  status,       \* requirement_workflows.status
  plans,        \* the latest version in requirement_plan_versions
  worktree,     \* the requirements with a worktree and its branch
  card,         \* the cards sent, by message id
  execution,    \* RequirementExecutionStore
  passed,       \* VerificationReportStore: the requirements with a passed report
  handled,      \* FeishuMessageDedup
  call,         \* the running call of each workflow
  restarts,     \* the restarts so far
  delivered,    \* history: the clicks delivered so far
  redelivered,  \* history: requirements with a click that was dispatched twice
  tested        \* history: requirements whose implementation passes its tests

stored  == <<status, plans, worktree, card>>
process == <<execution, passed, handled, restarts>>
history == <<delivered, redelivered, tested>>
vars    == <<stored, process, call, history>>

Init ==
  /\ status = [r \in Requirements |-> "absent"]
  /\ plans = [r \in Requirements |-> 0]
  /\ worktree = {}
  /\ card = [m \in Messages |-> None]
  /\ execution = [r \in Requirements |-> None]
  /\ passed = {}
  /\ handled = {}
  /\ call = [w \in Workflows |-> None]
  /\ restarts = 0
  /\ delivered = {} /\ redelivered = {} /\ tested = {}

Running(w, location) == call[w] # None /\ call[w].pc = location
RequirementOf(w)     == call[w].requirement

GoTo(w, location) == call' = [call EXCEPT ![w].pc = location]
EndCall(w)        == call' = [call EXCEPT ![w] = None]

(* setStatus(): a compare and swap that throws when it does not apply. *)
SetStatus(r, next) == status' = [status EXCEPT ![r] = next]

-----------------------------------------------------------------------------
(***************************************************************************)
(* Clicks.  The click on a message is marked as handled before anything    *)
(* looks at it.                                                            *)
(***************************************************************************)
(* plan.generate up to the agent; a message while another intake runs is    *)
(* rejected, and nothing of it is kept.                                     *)
Intake(r) ==
  /\ status[r] = "absent"
  /\ call["intake"] = None
  /\ SetStatus(r, "planning")
  /\ call' = [call EXCEPT !["intake"] =
       [pc |-> "planning", requirement |-> r, message |-> None, planVersion |-> 0,
        developed |-> 0]]
  /\ UNCHANGED <<plans, worktree, card, process, history>>

(* Mutant: no dedup. *)
MarkUnhandledAlways(m) == UNCHANGED handled

(* FeishuMessageDedup.mark(). *)
MarkUnhandled(m) ==
  /\ m \notin handled
  /\ handled' = handled \cup {m}

(* The workflow of the button starts, unless it already runs. *)
Dispatch(m, button) ==
  /\ call[button] = None
  /\ button = "revise" => plans[card[m].requirement] < MaxPlans
  /\ call' = [call EXCEPT ![button] =
       [pc |-> "locking", requirement |-> card[m].requirement, message |-> m,
        planVersion |-> card[m].planVersion, developed |-> 0]]

Click(m, button) ==
  /\ card[m] # None /\ card[m].open
  /\ button \in ButtonsOf(card[m].kind)
  /\ MarkUnhandled(m)
  /\ Dispatch(m, button)
  /\ delivered' = delivered \cup {<<m, button>>}
  /\ UNCHANGED <<stored, execution, passed, restarts, redelivered, tested>>

(* The click comes to nothing: its workflow runs for another card, the user *)
(* may not do it, or 要求修改 comes without a note and is an unknown action. *)
Refuse(m) ==
  /\ card[m] # None /\ card[m].open
  /\ MarkUnhandled(m)
  /\ UNCHANGED <<stored, execution, passed, restarts, call, history>>

(* Feishu delivers a click again, and the process has forgotten it. *)
Redeliver(m, button) ==
  /\ <<m, button>> \in delivered
  /\ MarkUnhandled(m)
  /\ Dispatch(m, button)
  /\ redelivered' = redelivered \cup {card[m].requirement}
  /\ UNCHANGED <<stored, execution, passed, restarts, delivered, tested>>

(* lockClickedCard(): the buttons go, or the workflow fails, and when only  *)
(* the answer of Feishu was lost the buttons are gone too.                  *)
LockCard(w) ==
  /\ Running(w, "locking")
  /\ \/ /\ card' = [card EXCEPT ![call[w].message].open = FALSE]
        /\ GoTo(w, "locked") \/ EndCall(w)
     \/ EndCall(w) /\ UNCHANGED card
  /\ UNCHANGED <<status, plans, worktree, process, history>>

(* A card with buttons is a message of its own. *)
Send(kind, r, version) ==
  \E m \in Messages :
    /\ card[m] = None
    /\ card' = [card EXCEPT ![m] =
         [kind |-> kind, requirement |-> r, planVersion |-> version, open |-> TRUE]]

-----------------------------------------------------------------------------
(***************************************************************************)
(* Planning: plan.generate, plan.revise, requirement.plan_review.render.   *)
(***************************************************************************)
RevisePlan ==
  /\ Running("revise", "locked")
  /\ IF plans[RequirementOf("revise")] > 0 THEN GoTo("revise", "planning") ELSE EndCall("revise")
  /\ UNCHANGED <<stored, process, history>>

(* RequirementPlanStore.createVersion: the version after the last one. *)
CreateVersion(r) == plans' = [plans EXCEPT ![r] = @ + 1]

(* The planning agent answers with a plan, which becomes the next version. *)
PlanReady(w) ==
  LET r == RequirementOf(w) IN
  /\ Running(w, "planning")
  /\ CreateVersion(r)
  /\ IF w = "intake" /\ status[r] # "planning"
     THEN EndCall(w)
     ELSE call' = [call EXCEPT ![w].pc = "sendingPlan", ![w].planVersion = plans'[r]]
  /\ IF w = "intake" /\ status[r] = "planning"
     THEN SetStatus(r, "plan_reviewing") ELSE UNCHANGED status
  /\ UNCHANGED <<worktree, card, process, history>>

SendPlan(w) ==
  /\ Running(w, "sendingPlan")
  /\ Send("plan", RequirementOf(w), call[w].planVersion)
  /\ EndCall(w)
  /\ UNCHANGED <<status, plans, worktree, process, history>>

(* What these awaits throw ends the call. *)
Throws(w) ==
  /\ call[w] # None
  /\ call[w].pc \in {"planning", "sendingPlan", "sendingDeveloped", "sendingUndeveloped",
                     "sendingReport", "testing"}
  /\ EndCall(w)
  /\ UNCHANGED <<stored, process, history>>

-----------------------------------------------------------------------------
(* createPendingExecution(), approve(). *)
ApprovedExecution(version) == [status |-> "approved", planVersion |-> version]

(* The execution record is replaced before the status is looked at. *)
ApprovePlan ==
  LET r == RequirementOf("approve") IN
  /\ Running("approve", "locked")
  /\ execution' = [execution EXCEPT ![r] = ApprovedExecution(call["approve"].planVersion)]
  /\ IF status[r] = "plan_reviewing"
     THEN SetStatus(r, "plan_approved") /\ GoTo("approve", "approved")
     ELSE EndCall("approve") /\ UNCHANGED status
  /\ UNCHANGED <<plans, worktree, card, passed, handled, restarts, history>>

(* Development has failed: the error card comes before the error. *)
DevelopmentFails == GoTo("approve", "sendingUndeveloped")

(* The latest plan is the one that is developed. *)
RunExecution ==
  LET r == RequirementOf("approve") IN
  /\ Running("approve", "approved")
  /\ IF status[r] = "plan_approved"
     THEN /\ SetStatus(r, "executing")
          /\ call' = [call EXCEPT !["approve"].pc = "preparing", !["approve"].developed = plans[r]]
     ELSE DevelopmentFails /\ UNCHANGED status
  /\ UNCHANGED <<plans, worktree, card, process, history>>

(* The repository is found, markExecuting(). *)
MarkExecuting ==
  LET r == RequirementOf("approve") IN
  /\ Running("approve", "preparing")
  /\ IF execution[r] # None /\ execution[r].status = "approved"
     THEN /\ execution' = [execution EXCEPT ![r].status = "executing"]
          /\ GoTo("approve", "addingWorktree")
     ELSE DevelopmentFails /\ UNCHANGED execution
  /\ UNCHANGED <<stored, passed, handled, restarts, history>>

CreateWorktree(r) == worktree' = worktree \cup {r}

(* git worktree add -b: both must be new. *)
AddWorktree ==
  LET r == RequirementOf("approve") IN
  /\ Running("approve", "addingWorktree")
  /\ IF r \notin worktree
     THEN CreateWorktree(r) /\ GoTo("approve", "developing")
     ELSE DevelopmentFails /\ UNCHANGED worktree
  /\ UNCHANGED <<status, plans, card, process, history>>

(* The agent exits with 0 and the diff is counted. *)
Developed ==
  LET r == RequirementOf("approve")
      marked == execution[r] # None /\ execution[r].status = "executing"
  IN
  /\ Running("approve", "developing")
  /\ tested' = tested \ {r}
  /\ execution' = IF marked THEN [execution EXCEPT ![r].status = "implementation_ready"]
                            ELSE execution
  /\ IF marked /\ status[r] = "executing"
     THEN SetStatus(r, "implementation_ready") /\ GoTo("approve", "sendingDeveloped")
     ELSE DevelopmentFails /\ UNCHANGED status
  /\ UNCHANGED <<plans, worktree, card, passed, handled, restarts, delivered,
                 redelivered>>

DevelopmentThrows ==
  /\ call["approve"] # None
  /\ call["approve"].pc \in {"preparing", "addingWorktree", "developing"}
  /\ DevelopmentFails
  /\ UNCHANGED <<stored, process, history>>

SendDevelopment ==
  /\ \/ Running("approve", "sendingDeveloped")
        /\ Send("developed", RequirementOf("approve"), call["approve"].planVersion)
     \/ Running("approve", "sendingUndeveloped")
        /\ Send("undeveloped", RequirementOf("approve"), call["approve"].planVersion)
  /\ EndCall("approve")
  /\ UNCHANGED <<status, plans, worktree, process, history>>

-----------------------------------------------------------------------------
(***************************************************************************)
(* The other buttons: execution.revert_to_plan, execution.cancel,          *)
(* verification.run, acceptance.run.                                       *)
(***************************************************************************)
(* From any status. *)
RevertToPlan ==
  LET r == RequirementOf("back") IN
  /\ Running("back", "locked")
  /\ IF plans[r] > 0
     THEN /\ SetStatus(r, "plan_reviewing")
          /\ call' = [call EXCEPT !["back"].pc = "sendingPlan", !["back"].planVersion = plans[r]]
     ELSE EndCall("back") /\ UNCHANGED status
  /\ UNCHANGED <<plans, worktree, card, process, history>>

(* From any status. *)
Cancel ==
  /\ Running("cancel", "locked")
  /\ SetStatus(RequirementOf("cancel"), "cancelled")
  /\ EndCall("cancel")
  /\ UNCHANGED <<plans, worktree, card, process, history>>

Verify ==
  LET r == RequirementOf("verify") IN
  /\ Running("verify", "locked")
  /\ IF status[r] = "implementation_ready"
     THEN /\ SetStatus(r, "verifying")
          /\ IF execution[r] # None /\ execution[r].status # "approved"   \* worktreePath is set
             THEN GoTo("verify", "testing") ELSE EndCall("verify")
     ELSE EndCall("verify") /\ UNCHANGED status
  /\ UNCHANGED <<plans, worktree, card, process, history>>

(* Mutant: a failed check does not fail the report. *)
ReportPassedAnyway(ok) == TRUE

(* runSingleCheck(), deriveOverallStatus(): by the exit code of the tests. *)
ReportPassed(ok) == ok

(* npm test ends, with ok for exit code 0, and the report is saved. *)
Tested(ok) ==
  LET r == RequirementOf("verify") IN
  /\ Running("verify", "testing")
  /\ passed' = IF ReportPassed(ok) THEN passed \cup {r} ELSE passed \ {r}
  /\ tested' = IF ok THEN tested \cup {r} ELSE tested \ {r}
  /\ IF status[r] = "verifying"
     THEN /\ SetStatus(r, IF ReportPassed(ok) THEN "implementation_ready" ELSE "failed")
          /\ IF ReportPassed(ok) THEN GoTo("verify", "sendingReport") ELSE EndCall("verify")
     ELSE EndCall("verify") /\ UNCHANGED status
  /\ UNCHANGED <<plans, worktree, card, execution, handled, restarts, delivered,
                 redelivered>>

SendReport ==
  /\ Running("verify", "sendingReport")
  /\ Send("verified", RequirementOf("verify"), call["verify"].planVersion)
  /\ EndCall("verify")
  /\ UNCHANGED <<status, plans, worktree, process, history>>

Accept ==
  LET r == RequirementOf("accept") IN
  /\ Running("accept", "locked")
  /\ IF r \in passed /\ status[r] = "implementation_ready"
     THEN SetStatus(r, "accepted") ELSE UNCHANGED status
  /\ EndCall("accept")
  /\ UNCHANGED <<plans, worktree, card, process, history>>

-----------------------------------------------------------------------------
(* The process dies and boots: its calls and maps are gone. *)
Restart ==
  /\ restarts < MaxRestarts
  /\ restarts' = restarts + 1
  /\ call' = [w \in Workflows |-> None]
  /\ execution' = [r \in Requirements |-> None]
  /\ passed' = {}
  /\ handled' = {}
  /\ UNCHANGED <<stored, history>>

CallStep ==
  \/ \E w \in Buttons : LockCard(w)
  \/ RevisePlan \/ \E w \in {"intake", "revise"} : PlanReady(w)
  \/ \E w \in {"intake", "revise", "back"} : SendPlan(w)
  \/ \E w \in Workflows : Throws(w)
  \/ ApprovePlan \/ RunExecution \/ MarkExecuting \/ AddWorktree \/ Developed
  \/ DevelopmentThrows \/ SendDevelopment
  \/ RevertToPlan \/ Cancel
  \/ Verify \/ (\E ok \in BOOLEAN : Tested(ok)) \/ SendReport
  \/ Accept

Next ==
  \/ \E r \in Requirements : Intake(r)
  \/ \E m \in Messages :
       \/ \E button \in Buttons : Click(m, button) \/ Redeliver(m, button)
       \/ Refuse(m)
  \/ CallStep
  \/ Restart

Spec == Init /\ [][Next]_vars
-----------------------------------------------------------------------------
(* Rows, cards and calls are in states the code knows. *)
TypeOK ==
  /\ status \in [Requirements -> Statuses]
  /\ plans \in [Requirements -> Nat]
  /\ worktree \in SUBSET Requirements
  /\ card \in [Messages -> Cards \cup {None}]
  /\ execution \in [Requirements -> Executions \cup {None}]
  /\ passed \in SUBSET Requirements
  /\ handled \in SUBSET Messages /\ restarts \in Nat
  /\ call \in [Workflows -> Calls \cup {None}]
  /\ delivered \in SUBSET (Messages \X Buttons)
  /\ redelivered \in SUBSET Requirements
  /\ tested \in SUBSET Requirements

(* A hand on a requirement: an open card, or a call that locked its own. *)
OpenCards(r)  == {m \in Messages : card[m] # None /\ card[m].requirement = r /\ card[m].open}
ActiveCalls(r) ==
  {w \in Workflows : call[w] # None /\ RequirementOf(w) = r /\ call[w].pc # "locking"}

(***************************************************************************)
(* Unless a click on it was dispatched twice, a requirement is in one hand: *)
(* it has one open card and no call at work, or one call and no open card, *)
(* or neither.                                                             *)
(***************************************************************************)
OneHand ==
  \A r \in Requirements \ redelivered :
    /\ \A m, n \in OpenCards(r) : m = n
    /\ \A v, w \in ActiveCalls(r) : v = w
    /\ OpenCards(r) = {} \/ ActiveCalls(r) = {}

(***************************************************************************)
(* The plan the agent develops is the version the user confirmed, though   *)
(* the code takes the latest.                                              *)
(***************************************************************************)
ConfirmedPlanIsDeveloped ==
  LET c == call["approve"] IN
  c # None /\ c.pc \in {"preparing", "addingWorktree", "developing"} =>
    c.requirement \in redelivered \/ c.developed = c.planVersion

(***************************************************************************)
(* A requirement is accepted only when the tests last run on it passed, on *)
(* what was last developed for it: whatever was clicked twice, and although *)
(* the report is lost in a restart and the card that asks is not.          *)
(***************************************************************************)
AcceptedIsTested ==
  [][\A r \in Requirements :
       status[r] # "accepted" /\ status'[r] = "accepted" => r \in tested]_vars

(***************************************************************************)
(* A decision is final: what was cancelled or accepted stays so.           *)
(***************************************************************************)
DecisionIsFinal ==
  [][\A r \in Requirements \ redelivered :
       status[r] \in {"cancelled", "accepted"} => status'[r] = status[r]]_vars

(***************************************************************************)
(* A worktree is worked in by one development at most, and no development  *)
(* of a requirement is undone while it runs: its status stays "executing"  *)
(* until the agent is through.                                             *)
(***************************************************************************)
DevelopmentIsUndisturbed ==
  LET c == call["approve"] IN
  c # None /\ c.pc = "developing" =>
    c.requirement \in redelivered \/ status[c.requirement] = "executing"

-----------------------------------------------------------------------------
=============================================================================

------------------------------ MODULE Workbench ------------------------------
(***************************************************************************)
(* The workbench of a chat, src/features/workbench: the row of a chat with *)
(* its repositories, requirement and plan, and the calls of                *)
(* WorkbenchCardService that change it. A call that needs a document or an *)
(* agent reads the row, awaits them for minutes, and then writes; nothing  *)
(* keeps two calls of a chat apart.                                        *)
(*                                                                         *)
(* A text is the set of the users' inputs that went into it; no text is    *)
(* the empty set.                                                          *)
(***************************************************************************)
EXTENDS Naturals, FiniteSets

CONSTANTS
  Chats,
  Repos,        \* repository urls
  Inputs,       \* what users write, one for each message
  Calls,        \* calls of handleAction() and getCard() at a time
  NoChat, NoInput

ASSUME WorkbenchAssumption == NoChat \notin Chats /\ NoInput \notin Inputs \cup Repos

VARIABLES
  row,       \* chat_workbench
  view,      \* WorkbenchCardService.views
  call,      \* the calls in progress
  said,      \* history: inputs of the requirement since it was set or deleted
  disturbed, \* history: calls whose row was written by another while they awaited
  torn       \* history: chats whose row such a call has written

workbenchVars == <<row, view, call, said, disturbed, torn>>

Texts  == SUBSET Inputs
NoPlan == [of |-> {}, notes |-> {}]
Plans  == [of : Texts, notes : Texts]

EmptyRow == [repositories |-> {}, requirementText |-> {}, requirementVersion |-> 0,
             plan |-> NoPlan, planVersion |-> 0, planStale |-> FALSE]

Resting == [pc |-> "idle", chat |-> NoChat, button |-> "none", input |-> NoInput,
            read |-> EmptyRow, card |-> [view |-> "main", row |-> EmptyRow]]

WorkbenchInit ==
  /\ row = [c \in Chats |-> EmptyRow]
  /\ view = [c \in Chats |-> "main"]
  /\ call = [s \in Calls |-> Resting]
  /\ said = [c \in Chats |-> {}]
  /\ disturbed = {} /\ torn = {}

hasPlan(r)        == r.plan # NoPlan
hasRequirement(r) == r.requirementText # {}

(* The buttons of renderWorkbenchCard and of renderWorkbenchRepoManageCard. *)
MainButtons(r) ==
  {"manage_repos"}
  \cup (IF r.repositories # {} THEN {"discuss_requirement"} ELSE {})
  \cup (IF hasRequirement(r) THEN {"revise_requirement", "delete_requirement"} ELSE {})
  \cup (IF hasRequirement(r) /\ ~ hasPlan(r) THEN {"generate_plan"} ELSE {})
  \cup (IF hasPlan(r) THEN {"revise_plan", "delete_plan"} ELSE {})
RepoButtons(r) ==
  {"add_repo", "back"} \cup (IF r.repositories # {} THEN {"remove_repo"} ELSE {})
Buttons(card) == IF card.view = "main" THEN MainButtons(card.row) ELSE RepoButtons(card.row)

NeedsText  == {"discuss_requirement", "revise_requirement", "revise_plan"}
NeedsRepo  == {"add_repo", "remove_repo"}
Awaiting   == NeedsText \cup {"generate_plan"}
Immediate  == {"manage_repos", "add_repo", "remove_repo", "back", "delete_plan",
               "delete_requirement"}
AllButtons == Awaiting \cup Immediate

ViewAfter(b) == IF b \in {"manage_repos", "add_repo", "remove_repo"} THEN "repo_manage" ELSE "main"

-----------------------------------------------------------------------------
(* WorkbenchStore. *)
addRepository(r, url)    == [r EXCEPT !.repositories = @ \cup {url}]
removeRepository(r, url) == [r EXCEPT !.repositories = @ \ {url}]

setRequirement(r, text) ==
  [r EXCEPT !.requirementText = text, !.requirementVersion = @ + 1]

markPlanStale(r) == [r EXCEPT !.planStale = TRUE]

setPlan(r, plan) ==
  [r EXCEPT !.plan = plan, !.planVersion = @ + 1, !.planStale = FALSE]

deletePlan(r) == [r EXCEPT !.plan = NoPlan, !.planVersion = 0, !.planStale = FALSE]

(* Mutant: the plan of a deleted requirement stays. *)
deleteRequirementOnly(r) == [r EXCEPT !.requirementText = {}, !.requirementVersion = 0]
deleteRequirement(r) ==
  [deletePlan(r) EXCEPT !.requirementText = {}, !.requirementVersion = 0]

(* A write of a chat's row disturbs the calls that have read it. *)
Write(s, chat, r) ==
  /\ row' = [row EXCEPT ![chat] = r]
  /\ disturbed' = (disturbed \ {s}) \cup
       IF r = row[chat] THEN {}
       ELSE {o \in Calls \ {s} : call[o].pc = "awaiting" /\ call[o].chat = chat}
  /\ torn' = IF s \in disturbed /\ call[s].button # "discuss_requirement"
             THEN torn \cup {chat} ELSE torn

(* Mutant: the card is rendered from the row as it was read. *)
RenderRead(s, chat, button, input, v, r) ==
  call' = [call EXCEPT ![s] = [Resting EXCEPT !.pc = "rendered", !.chat = chat,
             !.button = button, !.input = input, !.card = [view |-> v, row |-> row[chat]]]]
(* renderCurrentView: the card shows the row as it is now. *)
Render(s, chat, button, input, v, r) ==
  call' = [call EXCEPT ![s] = [Resting EXCEPT !.pc = "rendered", !.chat = chat,
             !.button = button, !.input = input, !.card = [view |-> v, row |-> r]]]

-----------------------------------------------------------------------------
getCard(s, chat) ==
  /\ Render(s, chat, "none", NoInput, view[chat], row[chat])
  /\ UNCHANGED <<row, view, said, disturbed, torn>>

(* The actions that change the row at once. *)
HandleImmediate(s, chat, b, input) ==
  LET r == CASE b = "add_repo"            -> addRepository(row[chat], input)
             [] b = "remove_repo"         -> removeRepository(row[chat], input)
             [] b = "delete_plan"         -> deletePlan(row[chat])
             [] b = "delete_requirement"  -> deleteRequirement(row[chat])
             [] OTHER                     -> row[chat]
  IN /\ b \in Immediate
     /\ b \in NeedsRepo => input # NoInput
     /\ view' = [view EXCEPT ![chat] = ViewAfter(b)]
     /\ Write(s, chat, r)
     /\ said' = IF b = "delete_requirement" THEN [said EXCEPT ![chat] = {}] ELSE said
     /\ Render(s, chat, b, input, ViewAfter(b), r)

(* What the handlers that await check of the row they read. *)
Readable(b, r) ==
  CASE b = "discuss_requirement" -> TRUE
    [] b \in {"revise_requirement", "generate_plan"} -> hasRequirement(r)
    [] b = "revise_plan"         -> hasPlan(r) /\ hasRequirement(r)

HandleAwaiting(s, chat, b, input) ==
  /\ b \in Awaiting
  /\ b \in NeedsText => input # NoInput
  /\ Readable(b, row[chat])
  /\ view' = [view EXCEPT ![chat] = "main"]
  /\ call' = [call EXCEPT ![s] = [Resting EXCEPT !.pc = "awaiting", !.chat = chat,
                !.button = b, !.input = input, !.read = row[chat]]]
  /\ disturbed' = disturbed \ {s}
  /\ UNCHANGED <<row, said, torn>>

(* A button without the payload it needs, or that the row does not allow, throws; *)
(* the view has changed unless the payload was missing.                           *)
HandleThrows(s, chat, b, input) ==
  /\ \/ /\ b \in NeedsText \cup NeedsRepo /\ input = NoInput
        /\ UNCHANGED view
     \/ /\ b \in Awaiting /\ ~ Readable(b, row[chat])
        /\ b \in NeedsText => input # NoInput
        /\ view' = [view EXCEPT ![chat] = "main"]
  /\ call' = [call EXCEPT ![s] = [Resting EXCEPT !.pc = "thrown", !.chat = chat, !.button = b]]
  /\ UNCHANGED <<row, said, disturbed, torn>>

(* The document and the agent have answered: the handler writes and renders. *)
DiscussRequirement(s) ==
  LET chat == call[s].chat
      r    == setRequirement(row[chat], {call[s].input})
      kept == IF hasPlan(r) THEN markPlanStale(r) ELSE r
  IN /\ call[s].pc = "awaiting" /\ call[s].button = "discuss_requirement"
     /\ Write(s, chat, kept)
     /\ said' = [said EXCEPT ![chat] = {call[s].input}]
     /\ Render(s, chat, call[s].button, call[s].input, view[chat], kept)
     /\ UNCHANGED view

ReviseRequirement(s) ==
  LET chat == call[s].chat
      r    == setRequirement(row[chat], call[s].read.requirementText \cup {call[s].input})
      kept == IF hasPlan(r) THEN markPlanStale(r) ELSE r
  IN /\ call[s].pc = "awaiting" /\ call[s].button = "revise_requirement"
     /\ Write(s, chat, kept)
     /\ said' = [said EXCEPT ![chat] = @ \cup {call[s].input}]
     /\ Render(s, chat, call[s].button, call[s].input, view[chat], kept)
     /\ UNCHANGED view

GeneratePlan(s) ==
  LET chat == call[s].chat
      r    == setPlan(row[chat], [of |-> call[s].read.requirementText, notes |-> {}])
  IN /\ call[s].pc = "awaiting" /\ call[s].button = "generate_plan"
     /\ Write(s, chat, r)
     /\ Render(s, chat, call[s].button, NoInput, view[chat], r)
     /\ UNCHANGED <<view, said>>

(* The agent gets the plan and the feedback, not the requirement. *)
RevisePlan(s) ==
  LET chat == call[s].chat
      old  == call[s].read.plan
      r    == setPlan(row[chat], [old EXCEPT !.notes = @ \cup {call[s].input}])
  IN /\ call[s].pc = "awaiting" /\ call[s].button = "revise_plan"
     /\ Write(s, chat, r)
     /\ Render(s, chat, call[s].button, call[s].input, view[chat], r)
     /\ UNCHANGED <<view, said>>

(* createDoc, writeMarkdown or the agent fails. *)
AwaitFails(s) ==
  /\ call[s].pc = "awaiting"
  /\ call' = [call EXCEPT ![s] = [Resting EXCEPT !.pc = "thrown", !.chat = call[s].chat,
                                                 !.button = call[s].button]]
  /\ disturbed' = disturbed \ {s}
  /\ UNCHANGED <<row, view, said, torn>>

WorkbenchStep(s) ==
  DiscussRequirement(s) \/ ReviseRequirement(s) \/ GeneratePlan(s) \/ RevisePlan(s) \/ AwaitFails(s)

Return(s) ==
  /\ call[s].pc \in {"rendered", "thrown"}
  /\ call' = [call EXCEPT ![s] = Resting]
  /\ UNCHANGED <<row, view, said, disturbed, torn>>

(***************************************************************************)
(* As long as no call has written a row that another changed under it: the *)
(* requirement holds all the feedback given since it was discussed, no     *)
(* plan is left of a requirement that was deleted, and a plan of another   *)
(* text than the requirement's is marked stale or was revised since.       *)
(***************************************************************************)
LoneWorkIsWhole ==
  \A c \in Chats \ torn :
    LET r == row[c] IN
    /\ r.requirementText = said[c]
    /\ hasPlan(r) => hasRequirement(r)
    /\ hasPlan(r) /\ r.plan.of # r.requirementText => r.planStale \/ r.plan.notes # {}

WorkbenchDies ==
  /\ view' = [c \in Chats |-> "main"]
  /\ call' = [s \in Calls |-> Resting]
  /\ disturbed' = {}
  /\ UNCHANGED <<row, said, torn>>
=============================================================================

-------------------------- MODULE FeishuWorkbench ---------------------------
(***************************************************************************)
(* The workbench as its users meet it: every message in a chat is answered *)
(* with a workbench card, a click on a card runs one action of             *)
(* WorkbenchCardService and updates the same card, and /workbench commands *)
(* carry the texts that a card's buttons do not. Cards show the row as it  *)
(* was when they were rendered.                                            *)
(***************************************************************************)
EXTENDS FeishuConnection, Workbench

CONSTANTS
  ChatOf,       \* the chat of a message
  OtherCards,   \* cards of other features, and what a click on them is
  MaxEvents     \* bound on events, commands and deaths

ASSUME CompositionAssumption ==
  /\ Calls = Runs
  /\ ChatOf \in [Messages -> Chats]
  /\ MaxEvents \in Nat
  /\ DOMAIN OtherCards \subseteq CardIds
  /\ \A k \in DOMAIN OtherCards : OtherCards[k] \in ClickClasses \ {"workbench_click"}

VARIABLES
  card,      \* the workbench cards by message id: chat and what they show
  clicks,    \* the clicks users have made, which Feishu may deliver again
  events     \* how many events there were

vars == <<connectionVars, workbenchVars, card, clicks, events>>

NoCard == [chat |-> NoChat, shows |-> Resting.card]

Init ==
  /\ ConnectionInit /\ WorkbenchInit
  /\ card = [k \in CardIds |-> NoCard]
  /\ clicks = {} /\ events = 0

Counted == events < MaxEvents /\ events' = events + 1
Free(s) == run[s] = Idle /\ call[s] = Resting

Handle(s, chat, b, input) ==
  HandleImmediate(s, chat, b, input) \/ HandleAwaiting(s, chat, b, input) \/ HandleThrows(s, chat, b, input)

-----------------------------------------------------------------------------
Message(s, m) ==
  /\ Counted /\ Free(s) /\ MessageStarts(s, m)
  /\ run'[s].def = "workbench.card" /\ getCard(s, ChatOf[m])
  /\ UNCHANGED <<card, clicks>>

(* A click on a button the card shows, or the delivery of an earlier one. A button *)
(* carries the repository it removes and the one typed in, never a text.           *)
Click(s, k, b, input) ==
  /\ Counted /\ Free(s) /\ card[k] # NoCard
  /\ \/ /\ b \in Buttons(card[k].shows)
        /\ input \in CASE b = "remove_repo" -> card[k].shows.row.repositories
                       [] b = "add_repo"    -> Repos \cup {NoInput}
                       [] OTHER             -> {NoInput}
     \/ <<k, b, input>> \in clicks
  /\ clicks' = clicks \cup {<<k, b, input>>}
  /\ ClickStarts(s, k, "workbench_click")
  /\ Handle(s, card[k].chat, b, input)
  /\ UNCHANGED card

OtherClick(s, k) ==
  /\ Counted /\ Free(s)
  /\ ClickStarts(s, k, OtherCards[k])
  /\ UNCHANGED <<workbenchVars, card, clicks>>

BotMenu(s) ==
  /\ Counted /\ Free(s) /\ Menu(s)
  /\ UNCHANGED <<workbenchVars, card, clicks>>

ComesToNothing ==
  /\ Counted
  /\ \E sender \in Senders :
       \/ \E m \in Messages : MessageRefused(m, sender)
       \/ \E k \in CardIds : card[k] # NoCard /\ ClickRefused(k, "workbench_click", sender)
       \/ \E k \in DOMAIN OtherCards : ClickRefused(k, OtherCards[k], sender)
  /\ UNCHANGED <<workbenchVars, card, clicks>>

(* WorkbenchCommandHandler.execute: /workbench <action> <payload>. *)
Payloads(b) == CASE b \in NeedsText -> Inputs
                 [] b \in NeedsRepo -> Repos
                 [] OTHER           -> {NoInput}
Command(s, chat, b, input) ==
  /\ Counted /\ Free(s)
  /\ Handle(s, chat, b, input)
  /\ UNCHANGED <<connectionVars, card, clicks>>

-----------------------------------------------------------------------------
Work(s) ==
  /\ WorkbenchStep(s)
  /\ UNCHANGED <<connectionVars, card, clicks, events>>

Ends(s) == IF run[s] = Idle THEN UNCHANGED connectionVars ELSE RunEnds(s)

(* replyInteractiveCard: a new message; updateInteractiveCard: the card clicked. *)
CardSent(s) ==
  /\ call[s].pc = "rendered"
  /\ \E k \in CardIds \ DOMAIN OtherCards :
       /\ IF run[s].of \in CardIds THEN k = run[s].of ELSE card[k] = NoCard
       /\ card' = [card EXCEPT ![k] = [chat |-> call[s].chat, shows |-> call[s].card]]
  /\ Return(s) /\ Ends(s)
  /\ UNCHANGED <<clicks, events>>

(* The client fails, or the call threw: the run fails and the cards stay. *)
CardNotSent(s) ==
  /\ Return(s) /\ Ends(s)
  /\ UNCHANGED <<card, clicks, events>>

(* Runs of other definitions end without touching the workbench. *)
OtherRunEnds(s) ==
  /\ run[s] # Idle /\ call[s] = Resting
  /\ RunEnds(s)
  /\ UNCHANGED <<workbenchVars, card, clicks, events>>

Restart ==
  /\ Counted
  /\ ConnectionDies /\ WorkbenchDies
  /\ UNCHANGED <<card, clicks>>

Next ==
  \/ \E s \in Runs :
       \/ \E m \in Messages : Message(s, m)
       \/ \E k \in CardIds, b \in AllButtons, input \in Repos \cup {NoInput} : Click(s, k, b, input)
       \/ \E k \in DOMAIN OtherCards : OtherClick(s, k)
       \/ BotMenu(s)
       \/ \E c \in Chats, b \in AllButtons : \E input \in Payloads(b) : Command(s, c, b, input)
       \/ Work(s) \/ CardSent(s) \/ CardNotSent(s) \/ OtherRunEnds(s)
  \/ ComesToNothing \/ Restart

Spec == Init /\ [][Next]_vars

-----------------------------------------------------------------------------
(* Rows, calls, runs and cards are of the kinds the code knows. *)
Rows == [repositories : SUBSET Repos, requirementText : Texts, requirementVersion : Nat,
         plan : Plans, planVersion : Nat, planStale : BOOLEAN]
TypeOK ==
  /\ \A c \in Chats : row[c] \in Rows /\ view[c] \in {"main", "repo_manage"} /\ said[c] \in Texts
  /\ \A s \in Runs :
       /\ call[s].pc \in {"idle", "awaiting", "rendered", "thrown"}
       /\ call[s].button \in AllButtons \cup {"none"} /\ call[s].card.row \in Rows
       /\ run[s].def \in Definitions \cup {"none"}
       /\ call[s].pc = "awaiting" => call[s].button \in Awaiting
  /\ \A c \in Chats : row[c].planVersion = 0 <=> ~ hasPlan(row[c])
  /\ disturbed \subseteq Calls /\ torn \subseteq Chats
  /\ diagnosed \subseteq Messages \cup CardIds \cup {"menu"} /\ events \in 0 .. MaxEvents

(***************************************************************************)
(* A message or a card starts at most one workflow in the life of a        *)
(* process, however often Feishu delivers it.                              *)
(***************************************************************************)
StartedOncePerLife == \A e \in Messages \cup CardIds : dispatched[e] <= 1 + restarts

(***************************************************************************)
(* A row that changes is shown: the call that changed it has a card of the *)
(* new row to send, also when the view or the row changed while it waited. *)
(***************************************************************************)
ChangesAreShown ==
  [][\A c \in Chats : row'[c] # row[c] =>
       \E s \in Runs : call'[s].pc = "rendered" /\ call'[s].chat = c /\ call'[s].card.row = row'[c]]_vars
=============================================================================

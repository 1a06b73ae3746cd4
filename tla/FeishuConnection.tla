-------------------------- MODULE FeishuConnection --------------------------
(***************************************************************************)
(* The way of a Feishu event to a workflow: the long connection of         *)
(* src/integrations/feishu drops what is not for the bot and what it has   *)
(* handled, the ingress dispatcher of src/core/ingress checks who sent it, *)
(* the first intent resolver that claims it names its workflow, and the    *)
(* runtime admits it or not by the policy of that workflow.                *)
(*                                                                         *)
(* The ids handled live in memory: a restart forgets them, and Feishu may  *)
(* deliver an event again at any time.                                     *)
(***************************************************************************)
EXTENDS Naturals, Sequences, FiniteSets, SequencesExt

CONSTANTS
  Messages,    \* ids of the messages users send
  CardIds,     \* ids of the messages that carry the bot's cards
  ClassOf,     \* what a message is
  Senders,     \* who may send or click
  Runs,        \* workflow runs at a time
  NoEvent      \* the event of a run that is idle

MessageClasses == {"chat_text", "requirement_text", "slash_command"}
Foreign        == "not_for_the_bot"
ClickClasses   == {"workbench_click", "requirement_click", "other_click"}
Classes        == MessageClasses \cup ClickClasses \cup {"menu"}

ASSUME ConnectionAssumption ==
  /\ ClassOf \in [Messages -> MessageClasses \cup {Foreign}]
  /\ Senders \subseteq {"member", "stranger", "unknown"}
  /\ Messages \cap CardIds = {} /\ NoEvent \notin Messages \cup CardIds \cup {"menu"}

VARIABLES
  handled,     \* the ids FeishuMessageDedup holds, with their source
  run,         \* the workflow runs: definition and event
  diagnosed,   \* the events whose four ingress.* diagnostics are in runtime_events
  dispatched,  \* history: how often an event was dispatched
  restarts     \* how often the process died

connectionVars == <<handled, run, diagnosed, dispatched, restarts>>

Idle == [def |-> "none", of |-> NoEvent]

ConnectionInit ==
  /\ handled = {} /\ diagnosed = {} /\ restarts = 0
  /\ run = [s \in Runs |-> Idle]
  /\ dispatched = [e \in Messages \cup CardIds |-> 0]

-----------------------------------------------------------------------------
(* The intent resolvers in the order the Feishu plugin registers them. The   *)
(* first one that claims an event takes it.                                  *)
Resolvers ==
  << [id |-> "workbench-card-action",           claims |-> {"workbench_click"}],
     [id |-> "workbench-card",                  claims |-> MessageClasses],
     [id |-> "feishu-requirement-message",      claims |-> {"requirement_text"}],
     [id |-> "feishu-requirement-card-action",  claims |-> {"requirement_click"}],
     [id |-> "feishu-message",                  claims |-> MessageClasses],
     [id |-> "feishu-card-action-generic",      claims |-> ClickClasses],
     [id |-> "feishu-bot-menu",                 claims |-> {"menu"}] >>

Resolve(class) ==
  Resolvers[SelectInSeq(Resolvers, LAMBDA r : class \in r.claims)].id

(* The workflow selectors, by the kind of intent a resolver makes. *)
DefinitionFor(class) ==
  LET r == Resolve(class) IN
  CASE r \in {"workbench-card-action", "workbench-card"} -> "workbench.card"
    [] r \in {"feishu-requirement-message", "feishu-requirement-card-action"}
                                                         -> "requirement.workflow"
    [] r = "feishu-message" /\ class = "slash_command"   -> "feishu.slash.workflow"
    [] r = "feishu-card-action-generic"                  -> "feishu.control_action.workflow"
    [] r = "feishu-bot-menu" \/ r = "feishu-message"     -> "agent.conversation.workflow"

Definitions == {"workbench.card", "requirement.workflow", "feishu.slash.workflow",
                "feishu.control_action.workflow", "agent.conversation.workflow"}

(* Only workbench.card runs beside itself. *)
Admitted(def) ==
  \/ def = "workbench.card"
  \/ \A s \in Runs : run[s].def # def

-----------------------------------------------------------------------------
(* Mutant: a card's message is never marked. *)
MarkUnhandledMessagesOnly(source, id) ==
  /\ <<source, id>> \notin handled
  /\ handled' = IF source = "card" THEN handled ELSE handled \cup {<<source, id>>}
MarkUnhandled(source, id) ==
  /\ <<source, id>> \notin handled
  /\ handled' = handled \cup {<<source, id>>}

(* A user of no identity is turned away before, one of no workspace role     *)
(* after the diagnostics; their ids are fixed, and a second insert ignored.  *)
Refused(id, sender) ==
  /\ sender \in {"stranger", "unknown"}
  /\ diagnosed' = IF sender = "stranger" THEN diagnosed \cup {id} ELSE diagnosed
  /\ UNCHANGED run

Started(s, id, class, sender) ==
  /\ sender = "member" /\ run[s] = Idle
  /\ diagnosed' = diagnosed \cup {id}
  /\ Admitted(DefinitionFor(class))
  /\ run' = [run EXCEPT ![s] = [def |-> DefinitionFor(class), of |-> id]]

(* reject_if_running fails and skip_if_running skips the later one. *)
TurnedAway(id, class, sender) ==
  /\ sender = "member" /\ ~ Admitted(DefinitionFor(class))
  /\ diagnosed' = diagnosed \cup {id}
  /\ UNCHANGED run

CountDispatch(id) ==
  /\ dispatched' = [dispatched EXCEPT ![id] = @ + 1]
  /\ UNCHANGED restarts

(* im.message.receive_v1 and card.action.trigger, when the event comes to nothing. *)
(* The workflow of every message is workbench.card, which admits all.              *)
MessageRefused(m, sender) ==
  /\ ClassOf[m] # Foreign /\ MarkUnhandled("message", m) /\ CountDispatch(m)
  /\ Refused(m, sender)

ClickRefused(k, class, sender) ==
  /\ MarkUnhandled("card", k) /\ CountDispatch(k)
  /\ Refused(k, sender) \/ TurnedAway(k, class, sender)

MessageStarts(s, m) ==
  /\ ClassOf[m] # Foreign /\ MarkUnhandled("message", m) /\ CountDispatch(m)
  /\ Started(s, m, ClassOf[m], "member")

ClickStarts(s, k, class) ==
  /\ MarkUnhandled("card", k) /\ CountDispatch(k)
  /\ Started(s, k, class, "member")

(* application.bot.menu_v6: its id is made of the time, so none is handled twice. *)
Menu(s) ==
  /\ Started(s, "menu", "menu", "member")
  /\ UNCHANGED <<handled, dispatched, restarts>>

RunEnds(s) ==
  /\ run' = [run EXCEPT ![s] = Idle]
  /\ UNCHANGED <<handled, diagnosed, dispatched, restarts>>

ConnectionDies ==
  /\ handled' = {}
  /\ run' = [s \in Runs |-> Idle]
  /\ restarts' = restarts + 1
  /\ UNCHANGED <<diagnosed, dispatched>>
=============================================================================

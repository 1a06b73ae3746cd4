----------------------------- MODULE StockWatch ------------------------------
(***************************************************************************)
(* The stock kinds of task and the prompt kinds, with what they share: the *)
(* StockStore (memory and stock-store.json), the daily marks of DedupStore *)
(* and the stock-monitor tasks that /bind_stocks makes, one per chat.      *)
(* Commands wait for the file to be written; runs for quotes, an agent or  *)
(* a card. Writes that overlap can land in any order.                      *)
(*                                                                         *)
(* Abstracted: prices (which levels of an entry a quote meets is any), the *)
(* snapshot's rows, the snapshot task that /portfolio set makes, /cron     *)
(* commands on the tasks (TaskScheduler has them), texts and cards.        *)
(***************************************************************************)
EXTENDS Naturals, FiniteSets

CONSTANTS
  Codes,      \* stocks
  Levels,     \* of a portfolio entry: thresholds and the stop loss
  Chats,      \* each with a stock-monitor task of its own once it has bound stocks
  Ahead,      \* the chats whose task is in a time zone that is a day ahead
  Watchers,   \* the runs that can be in progress at a time
  Calls,      \* the commands that can be in progress at a time
  Nothing,    \* no portfolio entry, no chat, nothing to write
  MaxDay      \* bound on the days

ASSUME StockAssumption ==
  Ahead \subseteq Chats /\ Nothing \notin Chats /\ MaxDay \in Nat \ {0}

VARIABLES
  store,     \* StockStore.data: subscriptions and portfolio
  disk,      \* stock-store.json
  monitor,   \* the domain task of a chat: "none", "on", "off"
  marks,     \* dedup_keys
  today,
  call,      \* the commands in progress
  watch,     \* the runs in progress
  told,      \* history: how often a chat was told of a condition on a date, up to twice
  pruned,    \* history: marks that were deleted by a mark of another date
  cut        \* history: a write failed, or the process died in a command, or with more
             \* than the file has

stockVars == <<store, disk, monitor, marks, today, call, watch, told, pruned, cut>>

Stores     == [subs : SUBSET Codes, held : [Codes -> (SUBSET Levels) \cup {Nothing}]]
Conditions == Codes \X Levels
Days       == 1 .. MaxDay + 1
Marks      == [chat : Chats, condition : Conditions, date : Days]
NoCall     == [pc |-> "idle", chat |-> Nothing, data |-> Nothing]
NoRun    == [pc |-> "idle", chat |-> Nothing, date |-> 1, codes |-> {}, todo |-> {},
               report |-> {}, data |-> Nothing]

StockInit ==
  /\ store \in Stores /\ disk = store
  /\ monitor \in [Chats -> {"none", "on"}]
  /\ store.subs # {} => \E chat \in Chats : monitor[chat] = "on"
  /\ marks = {} /\ today = 1
  /\ call = [c \in Calls |-> NoCall]
  /\ watch = [r \in Watchers |-> NoRun]
  /\ told = [m \in Marks |-> 0] /\ pruned = {} /\ cut = FALSE

-----------------------------------------------------------------------------
(* The memory is changed, and its text is on the way to the file. *)
Writes(c, pc, chat, new) ==
  /\ call[c].pc = "idle"
  /\ store' = new
  /\ call' = [call EXCEPT ![c] = [pc |-> pc, chat |-> chat, data |-> new]]
  /\ UNCHANGED <<disk, monitor, marks, today, watch, told, pruned, cut>>

(* ensureDomainTask() *)
Enabled(chat) == [monitor EXCEPT ![chat] = "on"]
(* When nothing is subscribed to, the tasks of every chat are disabled. *)
Disabled == [chat \in Chats |-> IF monitor[chat] = "on" THEN "off" ELSE monitor[chat]]

(* /bind_stocks of a stock that is not bound *)
Bind(c, chat, code) ==
  /\ code \notin store.subs
  /\ Writes(c, "binding", chat, [store EXCEPT !.subs = @ \cup {code}])

(* and of stocks that are: there is nothing to write. *)
BindAgain(chat, code) ==
  /\ code \in store.subs
  /\ monitor' = Enabled(chat)
  /\ UNCHANGED <<store, disk, marks, today, call, watch, told, pruned, cut>>

(* /unbind_stocks *)
Unbind(c, code) ==
  /\ code \in store.subs
  /\ Writes(c, "unbinding", Nothing, [store EXCEPT !.subs = @ \ {code}])

(* /portfolio set, unset and clear *)
SetPortfolio(c, code, levels) ==
  Writes(c, "setting", Nothing, [store EXCEPT !.held[code] = levels])

UnsetField(c, code, levels) ==
  /\ store.held[code] # Nothing /\ levels \subseteq store.held[code]
  /\ Writes(c, "setting", Nothing, [store EXCEPT !.held[code] = levels])

ClearPortfolio(c, code) ==
  /\ store.held[code] # Nothing
  /\ Writes(c, "setting", Nothing, [store EXCEPT !.held[code] = Nothing])

(* The temporary file takes the place of stock-store.json. *)
Lands(c) ==
  /\ call[c].pc \in {"binding", "unbinding", "setting"}
  /\ disk' = call[c].data
  /\ call' = [call EXCEPT ![c] =
       CASE @.pc = "binding"   -> [@ EXCEPT !.pc = "bound"]
         [] @.pc = "unbinding" -> [@ EXCEPT !.pc = "unbound"]
         [] OTHER              -> NoCall]
  /\ UNCHANGED <<store, monitor, marks, today, watch, told, pruned, cut>>

Returns(c) == call' = [call EXCEPT ![c] = NoCall]

(* Mutant: the tasks are disabled whatever is subscribed to by now. *)
MonitorAfterStale(c) == IF call[c].pc = "bound" THEN Enabled(call[c].chat)
                        ELSE IF call[c].data.subs = {} THEN Disabled ELSE monitor
(* What is subscribed to is looked at after the write. *)
MonitorAfter(c) == IF call[c].pc = "bound" THEN Enabled(call[c].chat)
                   ELSE IF store.subs = {} THEN Disabled ELSE monitor

Written(c) ==
  /\ call[c].pc \in {"bound", "unbound"}
  /\ monitor' = MonitorAfter(c)
  /\ Returns(c)
  /\ UNCHANGED <<store, disk, marks, today, watch, told, pruned, cut>>

(* The write throws, and the command; the memory stays changed. *)
WriteFails(c) ==
  /\ call[c].pc \in {"binding", "unbinding", "setting"}
  /\ Returns(c) /\ cut' = TRUE
  /\ UNCHANGED <<store, disk, monitor, marks, today, watch, told, pruned>>

-----------------------------------------------------------------------------
Idle(r)     == watch[r].pc = "idle"
Goes(r, pc) == watch' = [watch EXCEPT ![r].pc = pc]
Ends(r)     == watch' = [watch EXCEPT ![r] = NoRun]
Held        == {c \in Codes : store.held[c] # Nothing}
shared      == <<monitor, today, call, cut>>
records     == <<marks, told, pruned>>

(* localDateString() *)
DateOf(chat) == today + (IF chat \in Ahead THEN 1 ELSE 0)

(* stock-monitor: the quotes of what is subscribed to are asked for. *)
Monitors(r, chat) ==
  /\ Idle(r) /\ monitor[chat] = "on" /\ store.subs # {}
  /\ watch' = [watch EXCEPT ![r] =
       [NoRun EXCEPT !.chat = chat, !.pc = "quoting", !.date = DateOf(chat), !.codes = store.subs]]
  /\ UNCHANGED <<store, disk, shared, records>>

(* matchThresholds() with the entries as they are by now. *)
Meets(r, met) ==
  /\ watch[r].pc = "quoting"
  /\ \A c \in met : c[1] \in watch[r].codes \cap Held /\ c[2] \in store.held[c[1]]
  /\ watch' = [watch EXCEPT ![r].pc = "marking", ![r].todo = met]
  /\ UNCHANGED <<store, disk, shared, records>>

MarkOf(r, condition) ==
  [chat |-> watch[r].chat, condition |-> condition, date |-> watch[r].date]

(* Mutant: the dates are compared the other way. *)
OfDateOther(all, mark) == {m \in all : m.date # mark.date}
(* The marks that stay when one is made: those of its date, of any task. *)
OfDate(all, mark) == {m \in all : m.date = mark.date}

(* checkAndMark(), of one condition after the other. *)
Mark(r, condition) ==
  /\ watch[r].pc = "marking" /\ condition \in watch[r].todo
  /\ LET mark == MarkOf(r, condition)
         all  == marks \cup {mark}
         new  == mark \notin marks
     IN /\ marks' = IF new THEN OfDate(all, mark) ELSE marks
        /\ pruned' = pruned \cup {m \in marks \ marks' : m.date # mark.date}
        /\ watch' = [watch EXCEPT ![r].todo = @ \ {condition},
                                  ![r].report = IF new THEN @ \cup {condition} ELSE @]
  /\ UNCHANGED <<store, disk, shared, told>>

Marked(r) ==
  /\ watch[r].pc = "marking" /\ watch[r].todo = {}
  /\ IF watch[r].report = {} THEN Ends(r) ELSE Goes(r, "sending")
  /\ UNCHANGED <<store, disk, shared, records>>

Sent(r) ==
  /\ watch[r].pc = "sending"
  /\ LET now == {MarkOf(r, condition) : condition \in watch[r].report}
     IN told' = [m \in Marks |-> IF m \in now /\ told[m] < 2 THEN told[m] + 1 ELSE told[m]]
  /\ Ends(r)
  /\ UNCHANGED <<store, disk, shared, marks, pruned>>

-----------------------------------------------------------------------------
(* stock-portfolio-snapshot, stock-advisor: the quotes of what is held are asked for. *)
Looks(r, pc) ==
  /\ Idle(r) /\ Held # {}
  /\ watch' = [watch EXCEPT ![r] = [NoRun EXCEPT !.pc = pc, !.codes = Held]]
  /\ UNCHANGED <<store, disk, shared, records>>

Snapshots(r) == Looks(r, "pricing")
Advises(r)   == Looks(r, "quotingAdvice")

(* setSnapshot(): an entry that is gone by now makes the run throw. *)
Priced(r) ==
  /\ watch[r].pc = "pricing" /\ watch[r].codes \subseteq Held
  /\ watch' = [watch EXCEPT ![r].pc = "saving", ![r].data = store]
  /\ UNCHANGED <<store, disk, shared, records>>

(* The data that lands is that of the moment the snapshot was set. *)
Saved(r) ==
  /\ watch[r].pc = "saving"
  /\ disk' = watch[r].data
  /\ watch' = [watch EXCEPT ![r] = [NoRun EXCEPT !.pc = "telling"]]
  /\ UNCHANGED <<store, shared, records>>

(* agent-prompt, and heartbeat with the host in place of the agent *)
Prompts(r) ==
  /\ Idle(r)
  /\ watch' = [watch EXCEPT ![r] = [NoRun EXCEPT !.pc = "asking"]]
  /\ UNCHANGED <<store, disk, shared, records>>

Advised(r) ==
  /\ watch[r].pc = "quotingAdvice" /\ Goes(r, "asking")
  /\ UNCHANGED <<store, disk, shared, records>>

Answered(r) ==
  /\ watch[r].pc = "asking" /\ Goes(r, "telling")
  /\ UNCHANGED <<store, disk, shared, records>>

Told(r) ==
  /\ watch[r].pc = "telling" /\ Ends(r)
  /\ UNCHANGED <<store, disk, shared, records>>

(* Quotes, the agent, the file or a card fail: the run throws. *)
Throws(r) ==
  /\ watch[r].pc \notin {"idle", "marking"} /\ Ends(r)
  /\ UNCHANGED <<store, disk, shared, records>>

-----------------------------------------------------------------------------
NewDay ==
  /\ today < MaxDay /\ today' = today + 1
  /\ UNCHANGED <<store, disk, monitor, marks, call, watch, told, pruned, cut>>

(* The process ends; the next one loads the file and finds tasks and marks in the database. *)
StockDies ==
  /\ store' = disk
  /\ cut' = (cut \/ store # disk \/ call # [c \in Calls |-> NoCall])
  /\ call' = [c \in Calls |-> NoCall]
  /\ watch' = [r \in Watchers |-> NoRun]
  /\ UNCHANGED <<disk, monitor, marks, today, told, pruned>>

(* What begins a command or a run, and how it goes on. *)
StockCommand(c) ==
  \E code \in Codes :
    \/ Unbind(c, code) \/ ClearPortfolio(c, code)
    \/ \E chat \in Chats : Bind(c, chat, code)
    \/ \E levels \in SUBSET Levels : SetPortfolio(c, code, levels) \/ UnsetField(c, code, levels)

Reply(c) == Lands(c) \/ Written(c) \/ WriteFails(c)

Begins(r) ==
  \/ \E chat \in Chats : Monitors(r, chat)
  \/ Snapshots(r) \/ Advises(r) \/ Prompts(r)

Watch(r) ==
  \/ \E met \in SUBSET Conditions : Meets(r, met)
  \/ \E condition \in Conditions : Mark(r, condition)
  \/ Marked(r) \/ Sent(r) \/ Priced(r) \/ Saved(r)
  \/ Advised(r) \/ Answered(r) \/ Told(r) \/ Throws(r)
=============================================================================

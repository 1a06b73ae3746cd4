------------------------------ MODULE TaskKinds ------------------------------
(***************************************************************************)
(* The work that the scheduler's tasks are for: HandlerKind.run() of the   *)
(* registered kinds, as the tests call it. (The scheduler itself hands a   *)
(* task to a workflow runner, and no code of src/ builds one: see README.) *)
(* A task has one kind: a behaviour is one of the gitlab-follow task or    *)
(* of the stock tasks. The timer keeps starting runs, and a forced run can *)
(* be beside the timer's. The process dies at any point.                   *)
(***************************************************************************)
EXTENDS GitLabFollow, StockWatch

CONSTANTS
  Timer,     \* the run that the timer starts; the other one is forced
  MaxFaults, \* bound on the crashes and forced runs of the gitlab-follow task
  MaxSteps   \* bound on the crashes, runs and commands of the stock tasks

ASSUME KindsAssumption == Timer \in Ticks /\ MaxFaults \in Nat /\ MaxSteps \in Nat

VARIABLES
  kind,     \* of the task
  steps

kindsVars == <<gitlabVars, room, stockVars, kind, steps>>

(* Whoever follows issues has no stocks here, and the other way round. *)
KindsInit ==
  /\ GitLabInit /\ StockInit /\ steps = 0
  /\ \/ kind = "gitlab-follow" /\ store.subs = {} /\ Held = {} /\ (\A chat \in Chats : monitor[chat] = "none")
     \/ kind = "stock" /\ room = [i \in Issues |-> 0]

Free    == UNCHANGED <<kind, room, steps>>
Counted ==
  /\ steps < IF kind = "stock" THEN MaxSteps ELSE MaxFaults
  /\ steps' = steps + 1
  /\ UNCHANGED <<kind, room>>

Follows == kind = "gitlab-follow" /\ UNCHANGED stockVars
Stocks  == kind = "stock" /\ UNCHANGED gitlabVars

TimerTicks == Follows /\ Starts(Timer) /\ Free
ForcedTick == Follows /\ (\E r \in Ticks \ {Timer} : Starts(r)) /\ Counted
RunFails   == Follows /\ (\E r \in Ticks : SearchFails(r)) /\ Free
RunGoesOn(r) == Follows /\ FollowStep(r) /\ Free
Develops   == Follows /\ (\E i \in Issues : DevelopmentEnds(i)) /\ Free
UserActs   == Follows /\ (\E i \in Issues, note \in UserNotes : Comment(i, note)) /\ Free
FollowDies == Follows /\ GitLabDies /\ Counted

CommandBegins == Stocks /\ (\E c \in Calls : StockCommand(c)) /\ Counted
CommandGoesOn == Stocks /\ (\E c \in Calls : Reply(c)) /\ Free
BindsAgain    == Stocks /\ (\E chat \in Chats, code \in Codes : BindAgain(chat, code)) /\ Counted
WatchBegins   == Stocks /\ (\E r \in Watchers : Begins(r)) /\ Counted
WatchGoesOn   == Stocks /\ (\E r \in Watchers : Watch(r)) /\ Free
DayTurns      == Stocks /\ NewDay /\ Free
StockCrash    == Stocks /\ StockDies /\ Counted

KindsNext ==
  \/ TimerTicks \/ ForcedTick \/ RunFails \/ Develops \/ UserActs \/ FollowDies
  \/ \E r \in Ticks : RunGoesOn(r)
  \/ CommandBegins \/ CommandGoesOn \/ BindsAgain \/ WatchBegins \/ WatchGoesOn \/ DayTurns
  \/ StockCrash

(***************************************************************************)
(* A run of the timer that is between two entries waits for nothing. What  *)
(* it awaits within one - git, GitLab, an agent - has no timeout, and may  *)
(* never end.                                                              *)
(***************************************************************************)
BetweenEntries == At(Timer, "next")
KindsFairness  == WF_kindsVars(BetweenEntries /\ RunGoesOn(Timer))

KindsSpec == KindsInit /\ [][KindsNext]_kindsVars /\ KindsFairness

-----------------------------------------------------------------------------
KindsTypeOK ==
  /\ status \in [Issues -> Statuses] /\ notes \in [Issues -> Seq(BotNotes \cup UserNotes)]
  /\ room \in [Issues -> Rooms]
  /\ worktree \subseteq {i \in Issues : clone[i] = "whole"} /\ working \subseteq worktree
  /\ \A i \in Issues : status[i] \in {"proposed", "branch_proposed"} => clone[i] # "none"
  /\ store.subs \cup disk.subs \subseteq Codes
  /\ monitor \in [Chats -> {"none", "on", "off"}]
  /\ marks \cup pruned \subseteq Marks /\ told \in [Marks -> 0 .. 2] /\ cut \in BOOLEAN

(* The plan was answered with a yes, then a branch was named; k is its note. *)
BranchNamed(i, k) ==
  /\ notes[i][k] = "branch"
  /\ \E p, q \in DOMAIN notes[i] : p < q /\ q < k /\ notes[i][p] = "plan" /\ notes[i][q] = "yes"

(* And the branch was answered with a yes, or it is beyond the page that is read. *)
Confirmed(i) ==
  \E k \in DOMAIN notes[i] :
    BranchNamed(i, k) /\ (k > room[i] \/ \E l \in DOMAIN notes[i] : k < l /\ notes[i][l] = "yes")

(* No worktree is made and nothing is pushed for an issue unless a user agreed to a  *)
(* plan and, after that, to a branch, whatever runs overlap and wherever one is cut  *)
(* (gitlab-follow-kind.ts, stepCheckProposed and stepCheckBranch). Only where the     *)
(* note of the branch is not on the page of getNotes() does the yes to the plan       *)
(* stand for both (gitlab-client.ts).                                                 *)
DevelopedIsConfirmed == \A i \in worktree \cup pushed : Confirmed(i)

(* An agent is set to an issue once, although a run moves entries as it read them at   *)
(* its start and a forced run does the same beside it (stepCheckBranch, runExecution). *)
DevelopedOnce == \A i \in Issues : begun[i] <= 1

(* What is pushed is the work of an agent that came to its end without an error,       *)
(* whatever other run has moved the entry meanwhile (runExecution, stepPush).          *)
PushedIsFinished == pushed \subseteq finished

(* When no command is under way, a stock that is subscribed to is watched by the task   *)
(* of some chat, however /bind_stocks and /unbind_stocks overlap, as long as no write    *)
(* failed and no restart lost something.                                                 *)
SubscriptionsAreMonitored ==
  ~ cut /\ (\A c \in Calls : call[c].pc = "idle") /\ store.subs # {}
    => \E chat \in Chats : monitor[chat] = "on"

(* A chat is told twice of a condition on one date only if its mark was pruned by a     *)
(* mark of another date in between: runs that overlap do not do it (checkAndMark). A     *)
(* chat has one task here; marks are by task, so a second one (/cron) would tell again.  *)
RepeatsNeedAnotherDate == \A m \in Marks : told[m] > 1 => m \in pruned

(* As long as the runs of the timer come past their search and out of their awaits, a   *)
(* reply to the plan of an issue, if the page has it, is heard: it moves the entry,      *)
(* unless a note of the bot comes after it (a plan or a branch posted twice).            *)
ReplyIsHeard ==
  []<>BetweenEntries =>
    \A i \in Issues : (status[i] = "proposed" /\ HasReply(i)) ~> (status[i] # "proposed" \/ ~ HasReply(i))
=============================================================================

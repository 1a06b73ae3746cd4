---------------------------- MODULE GitLabFollow -----------------------------
(***************************************************************************)
(* The gitlab-follow kind of task: each of its runs looks for open issues   *)
(* that mention the bot and takes every entry it follows one step further: *)
(* clone, post a plan, ask for a branch, develop in a worktree, push. What *)
(* a user answers on the issue decides. A run is cut at its awaits, and a  *)
(* forced run may be beside that of the timer. An entry is moved by an     *)
(* update of its row that does not look at the status it had.              *)
(*                                                                         *)
(* GitLabClient.getNotes() asks for one page, the oldest 100 notes of an   *)
(* issue, system notes among them: what is said later is not read.         *)
(*                                                                         *)
(* Abstracted: the order of the entries of a run (any); branch names; the  *)
(* 50 issues of a search. The branch of run() for a closed issue is left   *)
(* out: the client asks for open issues and drops others. Taken for        *)
(* granted: the token is the bot's and nobody else writes under its name.  *)
(***************************************************************************)
EXTENDS Naturals, Sequences, FiniteSets

CONSTANTS
  Issues,        \* the issues that mention the bot, each of a project of its own
  Ticks,         \* the runs that can be in progress at a time
  NoIssue,
  Rooms,         \* what a page can have room for, from the bot's first note on
  MaxComments    \* bound on what a user says on an issue

ASSUME GitLabAssumption == NoIssue \notin Issues /\ Rooms \subseteq Nat /\ MaxComments \in Nat

VARIABLES
  status,     \* of the entry of an issue; "none" without an entry
  notes,      \* on the issue: the bot's "plan" and "branch", a user's "yes" and "no"
  room,       \* how many of these are among the oldest 100: it does not change
  clone,      \* of the project: "none", "partial", "whole"
  worktree,   \* the issues that have a worktree
  working,    \* the issues an agent develops, beside the runs
  pushed,     \* the issues whose branch was pushed
  tick,       \* a run: where it waits, the entries it read and has to do, and the one it is at
  finished,   \* history: the issues whose development came to its end
  begun       \* history: how often the development of an issue was begun

gitlabVars == <<status, notes, clone, worktree, working, pushed, tick, finished, begun>>

Statuses == {"none", "discovered", "cloning", "analyzing", "proposed", "branch_proposed",
             "executing", "pushing", "done", "rejected", "failed"}
BotNotes == {"plan", "branch"}
UserNotes == {"yes", "no"}
Resting  == [pc |-> "idle", todo |-> <<>>, issue |-> NoIssue]

GitLabInit ==
  /\ status = [i \in Issues |-> "none"] /\ notes = [i \in Issues |-> <<>>]
  /\ room \in [Issues -> Rooms]
  /\ clone = [i \in Issues |-> "none"]
  /\ worktree = {} /\ working = {} /\ pushed = {} /\ finished = {}
  /\ tick = [r \in Ticks |-> Resting]
  /\ begun = [i \in Issues |-> 0]

At(r, pc)   == tick[r].pc = pc
Go(r, pc)   == tick' = [tick EXCEPT ![r].pc = pc]
Issue(r)    == tick[r].issue
(* setStatus(): whatever the entry has become meanwhile. *)
Set(i, new) == status' = [status EXCEPT ![i] = new]
(* A step of an entry ends; the run goes on to the next one. *)
Leave(r, new) == Set(Issue(r), new) /\ Go(r, "next")

remoteVars == <<notes, pushed>>
diskVars   == <<clone, worktree>>
workVars   == <<working, finished, begun>>

-----------------------------------------------------------------------------
(* run() *)
Starts(r) ==
  /\ At(r, "idle") /\ Go(r, "searching")
  /\ UNCHANGED <<status, remoteVars, diskVars, workVars>>

SearchFails(r) ==
  /\ At(r, "searching") /\ Go(r, "idle")
  /\ UNCHANGED <<status, remoteVars, diskVars, workVars>>

(* ensureEntry(): insert or ignore. *)
Ensured(found) ==
  [i \in Issues |-> IF i \in found /\ status[i] = "none" THEN "discovered" ELSE status[i]]

Active(s) == {i \in Issues : s[i] \notin {"none", "done", "rejected"}}

(* The issues that are open and mention the bot at this time. The entries are read once, *)
(* for the whole run, also those of issues that were closed.                              *)
Found(r, found) ==
  /\ At(r, "searching")
  /\ status' = Ensured(found)
  /\ tick' = [tick EXCEPT ![r] = [pc |-> "next", issue |-> NoIssue,
                                  todo |-> [i \in Active(status') |-> status'[i]]]]
  /\ UNCHANGED <<remoteVars, diskVars, workVars>>

(* Mutant: a confirmed plan is not looked at any more. *)
AwaitOfNotProposed(s) ==
  CASE s = "discovered"      -> "cloning"
    [] s = "cloning"         -> "reading"
    [] s = "branch_proposed" -> "readingChoice"
    [] s = "pushing"         -> "pushing"
    [] OTHER                 -> "next"
(* advanceState(): what a step of an entry waits for first. Nothing moves an entry  *)
(* that is analyzing, executing or failed.                                          *)
AwaitOf(s) ==
  CASE s = "discovered"      -> "cloning"
    [] s = "cloning"         -> "reading"
    [] s = "proposed"        -> "readingReply"
    [] s = "branch_proposed" -> "readingChoice"
    [] s = "pushing"         -> "pushing"
    [] OTHER                 -> "next"

Without(f, i) == [j \in DOMAIN f \ {i} |-> f[j]]

Takes(r, i, pc) ==
  /\ At(r, "next") /\ i \in DOMAIN tick[r].todo
  /\ tick' = [tick EXCEPT ![r] = [pc |-> pc, todo |-> Without(tick[r].todo, i), issue |-> i]]
  /\ UNCHANGED <<remoteVars, diskVars, workVars>>

Advance(r, i) ==
  /\ i \in DOMAIN tick[r].todo /\ Takes(r, i, AwaitOf(tick[r].todo[i]))
  /\ tick[r].todo[i] # "discovered" \/ clone[i] = "none"
  /\ UNCHANGED status

(* A project that has a .git is not cloned again. *)
AdvanceCloned(r, i) ==
  /\ Takes(r, i, "next")
  /\ tick[r].todo[i] = "discovered" /\ clone[i] # "none"
  /\ Set(i, "cloning")

(* There is no active agent to make a plan. *)
AdvanceInVain(r, i) ==
  /\ Takes(r, i, "next")
  /\ tick[r].todo[i] = "cloning"
  /\ Set(i, "failed")

RunEnds(r) ==
  /\ At(r, "next") /\ DOMAIN tick[r].todo = {}
  /\ tick' = [tick EXCEPT ![r] = Resting]
  /\ UNCHANGED <<status, remoteVars, diskVars, workVars>>

(* A step throws, also for want of an active agent. A note or a push may have arrived, a worktree may be there. *)
StepThrows(r) ==
  /\ tick[r].pc \notin {"idle", "searching", "next"}
  /\ Leave(r, "failed")
  /\ UNCHANGED <<remoteVars, diskVars, workVars>>

-----------------------------------------------------------------------------
Cloned(r) ==
  /\ At(r, "cloning") /\ clone[Issue(r)] = "none"
  /\ clone' = [clone EXCEPT ![Issue(r)] = "whole"]
  /\ Leave(r, "cloning")
  /\ UNCHANGED <<remoteVars, worktree, workVars>>

(* The issue and its notes are there: the agent is asked for a plan. *)
Analyze(r) ==
  /\ At(r, "reading") /\ Set(Issue(r), "analyzing") /\ Go(r, "analyzing")
  /\ UNCHANGED <<remoteVars, diskVars, workVars>>

(* The agent has answered; the note is on its way, arrives, and its request returns. *)
Answers(r) ==
  /\ \/ At(r, "analyzing") /\ Go(r, "postingPlan")
     \/ At(r, "naming") /\ Go(r, "postingBranch")
  /\ UNCHANGED <<status, remoteVars, diskVars, workVars>>

Says(i, note) == notes' = [notes EXCEPT ![i] = Append(@, note)]

NoteArrives(r) ==
  /\ \/ At(r, "postingPlan") /\ Go(r, "planPosted") /\ Says(Issue(r), "plan")
     \/ At(r, "postingBranch") /\ Go(r, "branchPosted") /\ Says(Issue(r), "branch")
  /\ UNCHANGED <<status, pushed, diskVars, workVars>>

Posted(r) ==
  /\ \/ At(r, "planPosted") /\ Leave(r, "proposed")
     \/ At(r, "branchPosted") /\ Leave(r, "branch_proposed")
  /\ UNCHANGED <<remoteVars, diskVars, workVars>>

(* getNotes(): the page, in which a system note counts and is dropped. *)
Page(i)     == {k \in DOMAIN notes[i] : k <= room[i]}
Comments(i) == {k \in Page(i) : notes[i][k] \in UserNotes}
Posts(i)    == {k \in Page(i) : notes[i][k] \in BotNotes}
(* Mutant: everything a user ever said. *)
RepliesEver(i) == Comments(i)
(* What users said since the last note of the bot, as far as the page goes. *)
Replies(i) == {k \in Comments(i) : \A l \in Posts(i) : l < k}
HasReply(i) == Posts(i) # {} /\ Replies(i) # {}
Refused(i)  == \E k \in Replies(i) : notes[i][k] = "no"

(* stepCheckProposed(), stepCheckBranch(): wait for an answer, heed a refusal, or go on.  *)
Heard(r, here, there) ==
  /\ At(r, here)
  /\ \/ ~ HasReply(Issue(r)) /\ Go(r, "next") /\ UNCHANGED status
     \/ HasReply(Issue(r)) /\ Refused(Issue(r)) /\ Leave(r, "rejected")
     \/ HasReply(Issue(r)) /\ ~ Refused(Issue(r)) /\ Go(r, there) /\ UNCHANGED status
  /\ UNCHANGED <<remoteVars, diskVars, workVars>>

CheckProposed(r) == Heard(r, "readingReply", "naming")
CheckBranch(r)   == Heard(r, "readingChoice", "addingWorktree")

-----------------------------------------------------------------------------
(* Mutant: a worktree that is there already will do. *)
WorktreeAddedAgain(r) ==
  /\ At(r, "addingWorktree") /\ Go(r, "added")
  /\ clone[Issue(r)] = "whole"
  /\ worktree' = worktree \cup {Issue(r)}
  /\ UNCHANGED <<status, remoteVars, clone, workVars>>
(* git worktree add -b needs a whole clone and a path that is free. *)
WorktreeAdded(r) ==
  /\ At(r, "addingWorktree") /\ Go(r, "added")
  /\ clone[Issue(r)] = "whole" /\ Issue(r) \notin worktree
  /\ worktree' = worktree \cup {Issue(r)}
  /\ UNCHANGED <<status, remoteVars, clone, workVars>>

(* runExecution() goes on beside the run, if there is an active agent. *)
Execute(r) ==
  /\ At(r, "added")
  /\ \/ /\ Leave(r, "executing")
        /\ working' = working \cup {Issue(r)}
        /\ begun' = [begun EXCEPT ![Issue(r)] = @ + 1]
     \/ Leave(r, "failed") /\ UNCHANGED <<working, begun>>
  /\ UNCHANGED <<remoteVars, diskVars, finished>>

(* Mutant: the branch is pushed however the agent fared. *)
DevelopmentEndsAnyhow(i) ==
  /\ i \in working
  /\ working' = working \ {i}
  /\ \/ Set(i, "pushing") /\ finished' = finished \cup {i}
     \/ Set(i, "pushing") /\ UNCHANGED finished
  /\ UNCHANGED <<remoteVars, diskVars, begun, tick>>
DevelopmentEnds(i) ==
  /\ i \in working
  /\ working' = working \ {i}
  /\ \/ Set(i, "pushing") /\ finished' = finished \cup {i}
     \/ Set(i, "failed") /\ UNCHANGED finished
  /\ UNCHANGED <<remoteVars, diskVars, begun, tick>>

PushArrives(r) ==
  /\ At(r, "pushing") /\ Go(r, "pushed")
  /\ pushed' = pushed \cup {Issue(r)}
  /\ UNCHANGED <<status, notes, diskVars, workVars>>

PushReturns(r) ==
  /\ At(r, "pushed") /\ Leave(r, "done")
  /\ UNCHANGED <<remoteVars, diskVars, workVars>>

-----------------------------------------------------------------------------
(* On GitLab: a user comments on the issue. Nobody reads what was said before the bot, *)
(* or what would come after the page.                                                  *)
Comment(i, note) ==
  /\ notes[i] # <<>> /\ Len(notes[i]) < room[i]
  /\ Cardinality(Comments(i)) < MaxComments
  /\ Says(i, note)
  /\ UNCHANGED <<status, pushed, diskVars, workVars, tick>>

(* The process ends, its runs and its agents with it; a clone can be cut in the middle. *)
GitLabDies ==
  /\ tick' = [r \in Ticks |-> Resting] /\ working' = {}
  /\ clone' \in {c \in [Issues -> {"none", "partial", "whole"}] : \A i \in Issues :
                   \/ c[i] = clone[i]
                   \/ clone[i] = "none" /\ \E r \in Ticks : At(r, "cloning") /\ Issue(r) = i}
  /\ UNCHANGED <<status, remoteVars, worktree, finished, begun>>

FollowStep(r) ==
  \/ (\E found \in SUBSET Issues : Found(r, found)) \/ RunEnds(r) \/ StepThrows(r) \/ Cloned(r) \/ Analyze(r) \/ Answers(r)
  \/ NoteArrives(r) \/ Posted(r) \/ CheckProposed(r) \/ CheckBranch(r)
  \/ WorktreeAdded(r) \/ Execute(r) \/ PushArrives(r) \/ PushReturns(r)
  \/ \E i \in Issues : Advance(r, i) \/ AdvanceCloned(r, i) \/ AdvanceInVain(r, i)
=============================================================================

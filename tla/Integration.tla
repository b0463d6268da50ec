----------------------------- MODULE Integration -----------------------------
(***************************************************************************)
(* How accepted work comes into the integration branch                     *)
(* (crates/runtime/src/orchestrator/integrate.rs, with forge.rs and the    *)
(* git adapter it calls).                                                  *)
(*                                                                         *)
(* The tick (rule 2) and the owner (`catervas integrate`) ask; whoever     *)
(* holds the integration lock does it, one call of git, of the forge or of *)
(* the log at a time, and may be killed between any two.  Beside them go   *)
(* on, without that lock: rule 1, which removes the worktree of accepted   *)
(* work; other tasks' sessions, which bring the local integration branch   *)
(* up to the remote's; the forge; and the owner in the checkout.           *)
(*                                                                         *)
(* The module follows one subject.  A branch is the set of its commits: a  *)
(* merge is a union, `commit_count(base, head)` is 0 when head \subseteq   *)
(* base.                                                                   *)
(***************************************************************************)
EXTENDS Naturals, Sequences, FiniteSets

CONSTANTS
  Cases,       \* the subjects, and what the owner chose and does, see CasesAssumption
  Bases,       \* commits others bring into the integration branch
  Clashing,    \* those of them that conflict with the subject's work
  MaxRounds,   \* bound: how often the work is accepted
  MaxPrs,      \* bound: how many pull requests the branch has
  MaxKills     \* bound: how often a process is killed

Kinds == {"task", "plan", "folder", "storage"}

\* What an owner does beside merging and closing pull requests: asks for the
\* integration, commits to the pull request, merges by hand, has another branch
\* checked out, has the team keep everything on this computer.
Doings == {"asks", "pushes", "merges", "switches", "keeps"}

\* local: `team.keeps_local`.  origin: the repository has a remote.  merges:
\* `merges_on_its_own`.  checks: the forge runs checks on every push.  squash: it
\* merges by squashing.
Choices ==
  [local: BOOLEAN, origin: BOOLEAN, merges: BOOLEAN, checks: BOOLEAN, squash: BOOLEAN,
   owner: SUBSET Doings]

ASSUME CasesAssumption == Cases \subseteq Kinds \X Choices
ASSUME ClashAssumption == Clashing \subseteq Bases
ASSUME BoundsAssumption == MaxRounds \in Nat \ {0} /\ MaxPrs \in Nat /\ MaxKills \in Nat

VARIABLES
  subject,     \* what is integrated: a task, a plan task, a folder change, or one
               \* that moves where the documents are kept
  policy,      \* what the owner chose and does
  \* the log, as the queries of integrate.rs answer
  status,      \* a task's status; what is no task stays "accepted"
  round,       \* how often the work was accepted
  awaiting,    \* `awaiting_integration`, or not `FolderChange::integrated`
  url,         \* `opened_url`: the pull request opened since acceptance, or 0
  escalated,   \* `escalated_since_accepted`
  recorded,    \* how often the work was recorded as integrated
  followed,    \* whether what a folder change brings with it was filed
  reverted,    \* whether the owner's choice of a storage change was put back
  \* git
  local,       \* the local integration branch
  origin,      \* the remote's
  branch,      \* the subject's branch
  pushed,      \* the subject's branch at the remote, {} when it has none
  tree,        \* the task's worktree: "none", "clean" or "merging"
  theirs,      \* what the merge in progress in the worktree brings in
  checkout,    \* what the root has checked out: "into", "other", or "unmerged"
  disk,        \* a storage change's documents: "kept" on the disk, "gone" with what
               \* git brought into the checkout, or gone as the owner "switched" it
  \* the forge
  prs,         \* the pull requests of the branch: "open", "merged" or "closed"
  checks,      \* the checks of the branch's head: "none", not all "registering" yet,
               \* "pending", "passed" or "failed"
  early,       \* history: a merge was decided on before they were all registered
  queued,      \* whether the merge queue holds the branch
  \* the processes
  tick,        \* the tick: "down", "away", "rule1" or "rule2"
  row,         \* the subject's row as the tick read it
  holder,      \* who holds the integration lock
  step,        \* what the holder does next
  mem,         \* what the holder keeps: the head and the pull request it read
  kills        \* how often a process was killed

logVars == <<status, round, awaiting, url, escalated, recorded, followed, reverted>>
gitVars == <<local, origin, branch, pushed, tree, theirs, checkout, disk>>
forgeVars == <<prs, checks, early, queued>>
given == <<subject, policy>>
vars == <<given, logVars, gitVars, forgeVars, tick, row, holder, step, mem, kills>>

Work(n) == <<"work", n>>          \* what the n-th round committed
Squash(n) == <<"squash", n>>      \* the same, squashed by the forge
Base(b) == <<"base", b>>
ByOwner(what) == <<"owner", what>>

Commits ==
  {Work(n) : n \in 1..MaxRounds} \cup {Squash(n) : n \in 1..MaxRounds}
    \cup {Base(b) : b \in Bases} \cup {ByOwner("push"), ByOwner("merge"), ByOwner("landed")}

Askers == {"tick", "owner"}
Steps ==
  {"none", "deciding", "recording", "finishing", "filing", "catching",
   "opening", "creating", "noting", "reading", "escalating", "reverting",
   "merging", "rereading", "switching", "closed",
   "stopped", "adding", "bringing", "refreshing", "unpushed", "removing", "conflicted",
   "landing", "aborting"}
Nothing == [head |-> {}, pr |-> 0]

IsTask == subject \in {"task", "plan"}

\* Whether merging `into` and a branch leaves files to resolve.
Conflict(into, head) == ~(head \subseteq into) /\ \E b \in Clashing : Base(b) \in into \ head

\* Whether the n-th round's work is in a branch, merged or squashed.
Holds(commits, n) == Work(n) \in commits \/ Squash(n) \in commits

Open(n) == n \in DOMAIN prs /\ prs[n] = "open"
OpenPrs == {n \in DOMAIN prs : prs[n] = "open"}

-----------------------------------------------------------------------------
(* The lock, the answer and the log.                                       *)

Holding(at) == holder \in Askers /\ step = at

Goto(next) ==
  /\ step' = next
  /\ UNCHANGED <<holder, tick, row>>

\* The tick forgets what it read.
Unread == [accepted |-> FALSE, awaiting |-> FALSE, keeps |-> FALSE]
TickEnds == tick' = "away" /\ row' = Unread

\* Mistake: the lock outlives the answer.
AnswerLocked ==
  /\ step' = "none"
  /\ IF holder = "tick" THEN TickEnds ELSE UNCHANGED <<tick, row>>
  /\ mem' = Nothing
  /\ UNCHANGED holder

\* The outcome is answered and the lock's file dropped.
Answer ==
  /\ holder' = "nobody"
  /\ step' = "none"
  /\ IF holder = "tick" THEN TickEnds ELSE UNCHANGED <<tick, row>>
  /\ mem' = Nothing

\* `escalate`: appended, and answered.
Escalate ==
  /\ escalated' = TRUE
  /\ Answer
  /\ UNCHANGED <<status, round, awaiting, url, recorded, followed, reverted>>

\* The local integration branch moves.  With it checked out, git takes the
\* documents of a storage change out of the folder.
MoveLocal(commits) ==
  /\ local' = commits
  /\ disk' = IF subject = "storage" /\ checkout = "into"
                  /\ Holds(commits, 1) /\ ~Holds(local, 1)
               THEN "gone" ELSE disk

\* `fetch_fast_forward`: refused where both hold commits of their own.  With the
\* branch checked out, `merge --ff-only` also answers a local branch that is ahead.
CanFastForward ==
  \/ local \subseteq origin /\ checkout # "unmerged"
  \/ origin \subseteq local /\ checkout = "into"
FastForward == CanFastForward /\ MoveLocal(local \cup origin)

\* The branch has a new head at the remote, out of the forge's queue, whose checks the
\* forge has yet to register.
NewHead(commits) ==
  /\ pushed' = commits
  /\ checks' = IF policy.checks /\ pushed # commits THEN "registering" ELSE checks
  /\ early' = (early /\ pushed = commits)
  /\ queued' = (queued /\ pushed = commits)

\* `push`: only while the remote's branch holds nothing of its own.
Push == pushed \subseteq branch /\ NewHead(branch)

-----------------------------------------------------------------------------
(* Who asks.                                                               *)

\* The tick reads the board; rules 1 and 2 go by the row it read.
TickReads ==
  /\ tick = "away"
  /\ row' = [accepted |-> status = "accepted", awaiting |-> awaiting, keeps |-> policy.local]
  /\ tick' = "rule1"
  /\ UNCHANGED <<given, logVars, gitVars, forgeVars, holder, step, mem, kills>>

\* Rule 1, `cleanup`: the worktree goes, and the tick is over.  It takes no lock.
Cleanup ==
  /\ tick = "rule1"
  /\ row.accepted
  /\ tree # "none"
  /\ tree' = "none"
  /\ theirs' = {}
  /\ TickEnds
  /\ UNCHANGED <<given, logVars, local, origin, branch, pushed, checkout, disk, forgeVars,
                 holder, step, mem, kills>>

\* Nothing to clean, or the sandbox cannot be removed: the worktree stays.
CleanupPasses ==
  /\ tick = "rule1"
  /\ IF row.awaiting THEN tick' = "rule2" /\ UNCHANGED row ELSE TickEnds
  /\ UNCHANGED <<given, logVars, gitVars, forgeVars, holder, step, mem, kills>>

\* `attempt`: the asker has the integration lock.
TakeLock(p) ==
  /\ holder = "nobody"
  /\ IF p = "tick" THEN tick = "rule2" ELSE "asks" \in policy.owner
  /\ holder' = p
  /\ step' = "deciding"
  /\ UNCHANGED <<given, logVars, gitVars, forgeVars, tick, row, mem, kills>>

\* Mistake: whether the work awaits its integration is not asked again under the lock.
NothingToDoUnasked == status # "accepted" \/ (holder = "tick" /\ escalated)

\* `integrate_locked` finds nothing to do: not accepted, recorded already, or
\* escalated and so the owner's to settle.
NothingToDo == status # "accepted" \/ ~awaiting \/ (holder = "tick" /\ escalated)

\* `team.keeps_local`, of the team file as the asker read it before the lock.
KeepsLocal == IF holder = "tick" THEN row.keeps ELSE policy.local

\* A plan task's plan is on the integration branch.
Carried == subject = "plan" /\ \E n \in 1..round : Holds(local, n)

Decide ==
  /\ Holding("deciding")
  /\ \/ NothingToDo /\ Answer
     \/ /\ ~NothingToDo
        /\ Goto(IF Carried THEN "recording"
                ELSE IF url # 0 THEN "reading"
                ELSE IF KeepsLocal THEN "landing" ELSE "opening")
        /\ UNCHANGED mem
  /\ UNCHANGED <<given, logVars, gitVars, forgeVars, kills>>

\* A call of git or of the forge fails and has done nothing: escalated.
Fails ==
  /\ \E at \in {"landing", "opening", "creating", "reading", "merging", "stopped",
               "switching", "catching", "closed"} : Holding(at)
  /\ Escalate
  /\ UNCHANGED <<given, gitVars, forgeVars, kills>>

\* A call whose error is answered, and nothing recorded.
Errs ==
  /\ \E at \in {"adding", "bringing", "finishing", "reverting", "rereading"} : Holding(at)
  /\ Answer
  /\ UNCHANGED <<given, logVars, gitVars, forgeVars, kills>>

-----------------------------------------------------------------------------
(* Recording.                                                              *)

\* Mistake: recorded first, so that a restore that failed is never tried again.
ToRecordAtOnce == "recording"

\* What `record_integrated` does first: a storage change is finished before it
\* is recorded.
ToRecord == IF subject = "storage" THEN "finishing" ELSE "recording"

\* `finish_the_switch`: the documents git took out of the folder are written back.
Finish ==
  /\ Holding("finishing")
  /\ disk' = "kept"
  /\ Goto("recording")
  /\ UNCHANGED <<given, logVars, local, origin, branch, pushed, tree, theirs, checkout,
                 forgeVars, mem, kills>>

\* Mistake: work that merged on the forge is recorded, and never fetched.
FetchesAfterNever == FALSE

\* What merged on the forge is fetched after it is recorded, but a storage change,
\* which was fetched before.
FetchesAfter == mem.pr # 0 /\ subject # "storage"

\* The event is appended.
Record ==
  /\ Holding("recording")
  /\ recorded' = recorded + 1
  /\ awaiting' = FALSE
  /\ IF subject = "folder" THEN Goto("filing") /\ UNCHANGED mem
     ELSE IF FetchesAfter THEN Goto("catching") /\ UNCHANGED mem
     ELSE Answer
  /\ UNCHANGED <<given, status, round, url, escalated, followed, reverted,
                 gitVars, forgeVars, kills>>

\* `file_the_rederive`.
FileTheRederive ==
  /\ Holding("filing")
  /\ followed' = TRUE
  /\ IF FetchesAfter THEN Goto("catching") /\ UNCHANGED mem ELSE Answer
  /\ UNCHANGED <<given, status, round, awaiting, url, escalated, recorded, reverted,
                 gitVars, forgeVars, kills>>

-----------------------------------------------------------------------------
(* Through the forge.                                                      *)

\* `open` without a remote, `merged_by_hand`: recorded once the owner merged it.
OpenByHand ==
  /\ Holding("opening")
  /\ ~policy.origin
  /\ IF branch \subseteq local THEN Goto(ToRecord) /\ UNCHANGED mem ELSE Answer
  /\ UNCHANGED <<given, logVars, gitVars, forgeVars, kills>>

OpenPushes ==
  /\ Holding("opening")
  /\ policy.origin
  /\ Push
  /\ Goto("creating")
  /\ UNCHANGED <<given, logVars, local, origin, branch, tree, theirs, checkout, disk,
                 prs, mem, kills>>

\* Mistake: the branch's open pull requests are not looked for.
OpenPullRequestAnew ==
  /\ Len(prs) < MaxPrs
  /\ ~(pushed \subseteq origin)
  /\ prs' = Append(prs, "open")
  /\ mem' = [mem EXCEPT !.pr = Len(prs) + 1]

\* `open_pull_request`: the open one of the branch, else a new one, for which the
\* branch must hold something the remote's integration branch does not.
OpenPullRequest ==
  /\ IF OpenPrs # {} THEN UNCHANGED prs
     ELSE /\ Len(prs) < MaxPrs
          /\ ~(pushed \subseteq origin)
          /\ prs' = Append(prs, "open")
  /\ mem' = [mem EXCEPT !.pr = CHOOSE n \in DOMAIN prs' : prs'[n] = "open"]

Create ==
  /\ Holding("creating")
  /\ OpenPullRequest
  /\ Goto("noting")
  /\ UNCHANGED <<given, logVars, gitVars, checks, early, queued, kills>>

\* `pull_request.opened`, or `folder_change.opened`.
NoteOpened ==
  /\ Holding("noting")
  /\ url' = mem.pr
  /\ Answer
  /\ UNCHANGED <<given, status, round, awaiting, escalated, recorded, followed, reverted,
                 gitVars, forgeVars, kills>>

\* `pull_request_state`, and what `through_the_forge` does about it.  An open one
\* may be said to conflict, to be behind or to be blocked, which is the forge's to
\* say and may be out of date.  The checks it lists are those that are registered: none
\* of them yet reads as a repository without checks, and some as all of them.
ReadOpen ==
  /\ Holding("reading")
  /\ prs[url] = "open"
  /\ \/ Goto("stopped") /\ UNCHANGED <<mem, escalated, early>>
     \/ /\ holder = "tick" /\ policy.merges
        /\ checks \in {"none", "registering", "passed"}
        /\ Goto("merging")
        /\ mem' = [mem EXCEPT !.head = pushed]
        /\ early' = (checks = "registering")
        /\ UNCHANGED escalated
     \/ /\ holder = "tick" /\ policy.merges
        /\ checks # "pending"
        /\ escalated' = TRUE
        /\ Answer
        /\ UNCHANGED early
     \/ Answer /\ UNCHANGED <<escalated, early>>
  /\ UNCHANGED <<given, status, round, awaiting, url, recorded, followed, reverted,
                 gitVars, prs, checks, queued, kills>>

ReadMerged ==
  /\ Holding("reading")
  /\ prs[url] = "merged"
  /\ mem' = [mem EXCEPT !.pr = url]
  /\ Goto(IF subject = "storage" THEN "switching" ELSE "recording")
  /\ UNCHANGED <<given, logVars, gitVars, forgeVars, kills>>

\* Mistake: the tick waits for a closed one as it does for an open one.
ReadClosedWaits ==
  /\ Holding("reading")
  /\ prs[url] = "closed"
  /\ IF holder = "owner" THEN Goto("closed") /\ UNCHANGED mem ELSE Answer
  /\ UNCHANGED <<given, logVars, gitVars, forgeVars, kills>>

\* A closed one is escalated for the tick; the owner is asked after the branch.
ReadClosed ==
  /\ Holding("reading")
  /\ prs[url] = "closed"
  /\ Goto(IF holder = "owner" THEN "closed" ELSE "escalating")
  /\ UNCHANGED <<given, logVars, gitVars, forgeVars, mem, kills>>

\* The escalation of a closed one, after which `revert_the_switch` puts the choice
\* of a storage change back.
EscalateClosed ==
  /\ Holding("escalating")
  /\ escalated' = TRUE
  /\ IF subject = "storage" THEN Goto("reverting") /\ UNCHANGED mem ELSE Answer
  /\ UNCHANGED <<given, status, round, awaiting, url, recorded, followed, reverted,
                 gitVars, forgeVars, kills>>

RevertTheSwitch ==
  /\ Holding("reverting")
  /\ reverted' = TRUE
  /\ Answer
  /\ UNCHANGED <<given, status, round, awaiting, url, escalated, recorded, followed,
                 gitVars, forgeVars, kills>>

\* The forge merges the n-th pull request: never one that conflicts.
MergePr(n) ==
  /\ Open(n)
  /\ ~Conflict(origin, pushed)
  /\ prs' = [prs EXCEPT ![n] = "merged"]
  /\ origin' = origin \cup (IF policy.squash
                           THEN {Squash(k) : k \in {i \in 1..round : Work(i) \in pushed}}
                           ELSE pushed)
  /\ queued' = FALSE

\* Mistake: whatever the head is by then.
PinnedToNothing == TRUE

\* `merge_pull_request` is pinned to the head whose checks were read.
Pinned == pushed = mem.head

\* The forge merges, or queues the merge, and says so; `pull_request.merged` is
\* appended and the state read again.
MergeWhenChecksPass ==
  /\ Holding("merging")
  /\ Pinned
  /\ \/ MergePr(url)
     \/ Open(url) /\ queued' = TRUE /\ UNCHANGED <<prs, origin>>
  /\ Goto("rereading")
  /\ UNCHANGED <<given, logVars, local, branch, pushed, tree, theirs, checkout, disk,
                 checks, early, mem, kills>>

\* The forge merges and the answer is lost: escalated all the same.
MergeAnswerLost ==
  /\ Holding("merging")
  /\ Pinned
  /\ MergePr(url)
  /\ Escalate
  /\ UNCHANGED <<given, local, branch, pushed, tree, theirs, checkout, disk, checks,
                 early, kills>>

Reread ==
  /\ Holding("rereading")
  /\ IF prs[url] = "merged"
     THEN /\ mem' = [mem EXCEPT !.pr = url]
          /\ Goto(IF subject = "storage" THEN "switching" ELSE "recording")
     ELSE Answer
  /\ UNCHANGED <<given, logVars, gitVars, forgeVars, kills>>

\* `merged_on_the_forge` brings the local integration branch up to the merge: after
\* it is recorded, or before, for a storage change.
CatchUp ==
  /\ Holding("catching")
  /\ FastForward
  /\ Answer
  /\ UNCHANGED <<given, logVars, origin, branch, pushed, tree, theirs, checkout,
                 forgeVars, kills>>

SwitchFetches ==
  /\ Holding("switching")
  /\ FastForward
  /\ Goto("finishing")
  /\ UNCHANGED <<given, logVars, origin, branch, pushed, tree, theirs, checkout,
                 forgeVars, mem, kills>>

\* `closed_for_the_human`: integrated when the branch is in the integration branch
\* all the same.
ClosedForTheHuman ==
  /\ Holding("closed")
  /\ FastForward
  /\ Goto(IF branch \subseteq local \cup origin THEN ToRecord ELSE "escalating")
  /\ UNCHANGED <<given, logVars, origin, branch, pushed, tree, theirs, checkout,
                 forgeVars, mem, kills>>

-----------------------------------------------------------------------------
(* `stopped_merging`: a pull request that no longer merges.  A folder      *)
(* change's only Fails here.                                               *)

\* The branch holds all of the integration branch: the forge's answer is taken for
\* an old one.
UpToDate == local \cup origin \subseteq branch

FetchBehind ==
  /\ Holding("stopped")
  /\ IsTask
  /\ FastForward
  /\ IF UpToDate THEN Answer ELSE Goto("adding") /\ UNCHANGED mem
  /\ UNCHANGED <<given, logVars, origin, branch, pushed, tree, theirs, checkout,
                 forgeVars, kills>>

AddWorktree ==
  /\ Holding("adding")
  /\ tree' = IF tree = "none" THEN "clean" ELSE tree
  /\ Goto("bringing")
  /\ UNCHANGED <<given, logVars, local, origin, branch, pushed, theirs, checkout, disk,
                 forgeVars, mem, kills>>

\* `merge_keeping_conflicts`.  A merge already in progress is a conflict again; a
\* worktree that is gone only Errs.
MergeInWorktree ==
  /\ Holding("bringing")
  /\ \/ /\ tree = "merging"
        /\ Goto("conflicted")
        /\ UNCHANGED <<branch, tree, theirs, mem>>
     \/ /\ tree = "clean" /\ Conflict(local, branch)
        /\ tree' = "merging"
        /\ theirs' = local
        /\ Goto("conflicted")
        /\ UNCHANGED <<branch, mem>>
     \/ /\ tree = "clean" /\ ~Conflict(local, branch)
        /\ branch' = branch \cup local
        /\ Goto(IF url # 0 THEN "refreshing" ELSE "removing")
        /\ UNCHANGED <<tree, theirs, mem>>
  /\ UNCHANGED <<given, logVars, local, origin, pushed, checkout, disk, forgeVars, kills>>

PushRefreshed ==
  /\ Holding("refreshing")
  /\ Push
  /\ Goto("removing")
  /\ UNCHANGED <<given, logVars, local, origin, branch, tree, theirs, checkout, disk,
                 prs, mem, kills>>

PushRefused ==
  /\ Holding("refreshing")
  /\ Goto("unpushed")
  /\ UNCHANGED <<given, logVars, gitVars, forgeVars, mem, kills>>

\* The worktree goes, then a push that was refused is escalated.  A worktree that
\* is gone already is an error, answered before that.
RemoveWorktree ==
  /\ \/ Holding("removing")
     \/ Holding("unpushed")
  /\ tree' = "none"
  /\ theirs' = {}
  /\ IF step = "unpushed" /\ tree # "none" THEN Escalate ELSE Answer /\ UNCHANGED logVars
  /\ UNCHANGED <<given, local, origin, branch, pushed, checkout, disk, forgeVars, kills>>

\* `sent_back`: the governor moves the task to its assignee, its worktree holding
\* the merge.
SendBack ==
  /\ Holding("conflicted")
  /\ status' = "assigned"
  /\ awaiting' = FALSE
  /\ Answer
  /\ UNCHANGED <<given, round, url, escalated, recorded, followed, reverted, gitVars,
                 forgeVars, kills>>

SendBackRefused ==
  /\ Holding("conflicted")
  /\ tree' = "none"
  /\ theirs' = {}
  /\ Escalate
  /\ UNCHANGED <<given, local, origin, branch, pushed, checkout, disk, forgeVars, kills>>

-----------------------------------------------------------------------------
(* `land_here`: a team that keeps everything on this computer.  A checkout *)
(* that is not on the integration branch only Fails.                       *)

LandFound ==
  /\ Holding("landing")
  /\ checkout # "other"
  /\ branch \subseteq local
  /\ Goto(ToRecord)
  /\ UNCHANGED <<given, logVars, gitVars, forgeVars, mem, kills>>

LandMerges ==
  /\ Holding("landing")
  /\ checkout = "into"
  /\ ~(branch \subseteq local)
  /\ ~Conflict(local, branch)
  /\ MoveLocal(local \cup branch \cup {ByOwner("landed")})
  /\ Goto(ToRecord)
  /\ UNCHANGED <<given, logVars, origin, branch, pushed, tree, theirs, checkout,
                 forgeVars, mem, kills>>

\* A conflict is in the owner's checkout until git aborts the merge.
LandConflicts ==
  /\ Holding("landing")
  /\ checkout = "into"
  /\ Conflict(local, branch)
  /\ checkout' = "unmerged"
  /\ Goto("aborting")
  /\ UNCHANGED <<given, logVars, local, origin, branch, pushed, tree, theirs, disk,
                 forgeVars, mem, kills>>

Abort ==
  /\ Holding("aborting")
  /\ checkout' = "into"
  /\ IF IsTask THEN Goto("adding") /\ UNCHANGED <<mem, logVars>> ELSE Escalate
  /\ UNCHANGED <<given, local, origin, branch, pushed, tree, theirs, disk, forgeVars, kills>>

-----------------------------------------------------------------------------
(* Beside the holder of the lock.                                          *)

quiet == <<tick, row, holder, step, mem, kills>>

\* Other work comes into the integration branch, on the forge or on this computer.
OthersLand(b) ==
  /\ Base(b) \notin local \cup origin
  /\ IF policy.origin /\ ~policy.local
     THEN origin' = origin \cup {Base(b)} /\ UNCHANGED <<local, disk>>
     ELSE checkout = "into" /\ MoveLocal(local \cup {Base(b)}) /\ UNCHANGED origin
  /\ UNCHANGED <<given, logVars, branch, pushed, tree, theirs, checkout, forgeVars, quiet>>

\* `bring_up_to_date` for another task's session, which takes no integration lock.
OthersFetch ==
  /\ policy.origin /\ ~policy.local
  /\ local # origin
  /\ FastForward
  /\ UNCHANGED <<given, logVars, origin, branch, pushed, tree, theirs, checkout, forgeVars, quiet>>

\* The forge: the owner merges or closes a pull request, or reopens one that was
\* escalated, as the escalation says; checks register and report; the merge queue merges what it
\* holds or drops it.
OwnerMerges(n) ==
  /\ ~queued
  /\ MergePr(n)
  /\ UNCHANGED <<given, logVars, local, branch, pushed, tree, theirs, checkout, disk, checks,
                 early, quiet>>

OwnerCloses(n) ==
  /\ Open(n)
  /\ prs' = [prs EXCEPT ![n] = "closed"]
  /\ queued' = FALSE
  /\ UNCHANGED <<given, logVars, gitVars, checks, early, quiet>>

OwnerReopens(n) ==
  /\ escalated
  /\ n \in DOMAIN prs /\ prs[n] = "closed"
  /\ OpenPrs = {}
  /\ prs' = [prs EXCEPT ![n] = "open"]
  /\ UNCHANGED <<given, logVars, gitVars, checks, early, queued, quiet>>

ChecksRegister ==
  /\ checks = "registering"
  /\ checks' = "pending"
  /\ UNCHANGED <<given, logVars, gitVars, prs, early, queued, quiet>>

\* What passed may be all the checks, or only those registered so far.
ChecksReport ==
  /\ checks = "pending"
  /\ checks' \in {"registering", "passed", "failed"}
  /\ UNCHANGED <<given, logVars, gitVars, prs, early, queued, quiet>>

QueueMoves ==
  /\ queued
  /\ \/ /\ \E n \in DOMAIN prs : MergePr(n)
     \/ queued' = FALSE /\ UNCHANGED <<prs, origin>>
  /\ UNCHANGED <<given, logVars, local, branch, pushed, tree, theirs, checkout, disk, checks,
                 early, quiet>>

\* The owner, or a colleague, commits to the pull request's branch at the remote, or
\* has the forge update it.
OwnerPushes ==
  /\ "pushes" \in policy.owner
  /\ pushed # {}
  /\ \E more \in {{ByOwner("push")}, origin} :
       /\ ~(more \subseteq pushed)
       /\ ~Conflict(more, pushed)
       /\ NewHead(pushed \cup more)
  /\ UNCHANGED <<given, logVars, local, origin, branch, tree, theirs, checkout, disk, prs, quiet>>

\* The owner merges the branch in the checkout, resolving what conflicts.
OwnerMergesByHand ==
  /\ "merges" \in policy.owner
  /\ checkout = "into"
  /\ ~(branch \subseteq local)
  /\ MoveLocal(local \cup branch \cup {ByOwner("merge")})
  /\ UNCHANGED <<given, logVars, origin, branch, pushed, tree, theirs, checkout, forgeVars, quiet>>

OwnerPublishes ==
  /\ policy.origin
  /\ origin \subseteq local /\ origin # local
  /\ origin' = local
  /\ UNCHANGED <<given, logVars, local, branch, pushed, tree, theirs, checkout, disk, forgeVars, quiet>>

\* The owner has something else checked out, or comes back; a merge left in the
\* checkout is aborted on the way.  The other branch may have the documents a storage
\* change takes out: leaving for it brings them back, and coming back from it to an
\* integration branch that has the change takes them away.
OwnerSwitches ==
  /\ "switches" \in policy.owner
  /\ step # "aborting"
  /\ checkout' = IF checkout = "into" THEN "other" ELSE "into"
  /\ \/ UNCHANGED disk
     \/ subject = "storage" /\ checkout = "into" /\ disk' = "kept"
     \/ /\ subject = "storage" /\ checkout = "other" /\ Holds(local, 1) /\ disk = "kept"
        /\ disk' = "switched"
  /\ UNCHANGED <<given, logVars, local, origin, branch, pushed, tree, theirs, forgeVars, quiet>>

\* The owner has the team keep everything on this computer from now on.
OwnerKeepsLocal ==
  /\ "keeps" \in policy.owner
  /\ ~policy.local
  /\ policy' = [policy EXCEPT !.local = TRUE]
  /\ UNCHANGED <<subject, logVars, gitVars, forgeVars, quiet>>

\* The team decides `reopen_integration`, or `retry_folder_change`.
TeamReopens ==
  /\ policy.merges
  /\ escalated
  /\ awaiting
  /\ escalated' = FALSE
  /\ UNCHANGED <<given, status, round, awaiting, url, recorded, followed, reverted,
                 gitVars, forgeVars, quiet>>

-----------------------------------------------------------------------------
(* A task that was sent back is worked on and accepted again.              *)

\* Rule 7, in the worktree that is there.  With none it makes one on a new branch of
\* the task's name, which the task has: git refuses.
Start ==
  /\ tick = "away"
  /\ status = "assigned"
  /\ tree # "none"
  /\ status' = "in_progress"
  /\ UNCHANGED <<given, round, awaiting, url, escalated, recorded, followed, reverted,
                 gitVars, forgeVars, quiet>>

\* The assignee resolves the merge and commits; the sessions merge what the
\* integration branch has since; the work is verified, reviewed and accepted.  What
\* was opened or escalated before that no longer counts, `since_accepted`.
AcceptAgain ==
  /\ status = "in_progress"
  /\ round < MaxRounds
  /\ round' = round + 1
  /\ LET done == branch \cup theirs \cup {Work(round + 1)}
     IN branch' \in {done} \cup {done \cup into : into \in {c \in {local} : ~Conflict(c, done)}}
  /\ tree' = "clean"
  /\ theirs' = {}
  /\ status' = "accepted"
  /\ awaiting' = TRUE
  /\ url' = 0
  /\ escalated' = FALSE
  /\ UNCHANGED <<given, recorded, followed, reverted, local, origin, pushed, checkout, disk,
                 forgeVars, quiet>>

-----------------------------------------------------------------------------
(* Killed between any two steps; a log that takes no event is as a kill.   *)

\* The processes in ps are gone, the lock's file with the one that held it.
Kill(ps) ==
  /\ kills < MaxKills
  /\ kills' = kills + 1
  /\ "tick" \in ps => tick # "down"
  /\ "owner" \in ps => holder = "owner"
  /\ IF "tick" \in ps THEN tick' = "down" /\ row' = Unread ELSE UNCHANGED <<tick, row>>
  /\ IF holder \in ps THEN holder' = "nobody" /\ step' = "none" /\ mem' = Nothing
                      ELSE UNCHANGED <<holder, step, mem>>
  /\ UNCHANGED <<given, logVars, gitVars, forgeVars>>

\* `recover`: what an accepted task left is removed, where its sandbox can be.
Recover ==
  /\ tick = "down"
  /\ tick' = "away"
  /\ tree' \in IF status = "accepted" THEN {tree, "none"} ELSE {tree}
  /\ theirs' = IF tree' = "none" THEN {} ELSE theirs
  /\ UNCHANGED <<given, logVars, local, origin, branch, pushed, checkout, disk, forgeVars,
                 row, holder, step, mem, kills>>

-----------------------------------------------------------------------------
Init ==
  /\ \E c \in Cases : subject = c[1] /\ policy = c[2]
  /\ status = "accepted" /\ round = 1 /\ awaiting = TRUE
  /\ url = 0 /\ escalated = FALSE /\ recorded = 0 /\ followed = FALSE /\ reverted = FALSE
  /\ local = {} /\ origin = {} /\ branch = {Work(1)} /\ pushed = {}
  /\ tree = (IF IsTask THEN "clean" ELSE "none") /\ theirs = {}
  /\ checkout = "into" /\ disk = "kept"
  /\ prs = <<>> /\ checks = "none" /\ early = FALSE /\ queued = FALSE
  /\ tick = "away" /\ row = Unread
  /\ holder = "nobody" /\ step = "none" /\ mem = Nothing
  /\ kills = 0

TickNext == TickReads \/ Cleanup \/ CleanupPasses \/ Start \/ Recover

HolderNext ==
  \/ Decide \/ Fails \/ Errs
  \/ Finish \/ Record \/ FileTheRederive
  \/ OpenByHand \/ OpenPushes \/ Create \/ NoteOpened
  \/ ReadOpen \/ ReadMerged \/ ReadClosed \/ EscalateClosed \/ RevertTheSwitch
  \/ MergeWhenChecksPass \/ MergeAnswerLost \/ Reread
  \/ CatchUp \/ SwitchFetches \/ ClosedForTheHuman
  \/ FetchBehind \/ AddWorktree \/ MergeInWorktree \/ PushRefreshed \/ PushRefused
  \/ RemoveWorktree \/ SendBack \/ SendBackRefused
  \/ LandFound \/ LandMerges \/ LandConflicts \/ Abort

OwnerNext ==
  \/ OwnerPushes \/ OwnerMergesByHand \/ OwnerPublishes \/ OwnerSwitches \/ OwnerKeepsLocal
  \/ TeamReopens
  \/ \E n \in 1..MaxPrs : OwnerMerges(n) \/ OwnerCloses(n) \/ OwnerReopens(n)

OthersNext ==
  \/ OthersFetch \/ ChecksRegister \/ ChecksReport \/ QueueMoves \/ AcceptAgain
  \/ \E b \in Bases : OthersLand(b)

Next ==
  \/ TickNext \/ HolderNext \/ OwnerNext \/ OthersNext
  \/ \E p \in Askers : TakeLock(p)
  \/ \E ps \in SUBSET Askers \ {{}} : Kill(ps)

Spec == Init /\ [][Next]_vars

-----------------------------------------------------------------------------
(* Fairness: the tick comes round and is restarted, whoever has the lock   *)
(* goes on and the tick has it in the end, git and the disk do not fail at *)
(* the same call for ever, checks report, a merge queue moves, and the     *)
(* owner settles what waits for the owner: a pull request is merged or     *)
(* closed, a branch without a remote is merged.                            *)

OwnerSettles ==
  \/ OwnerMergesByHand
  \/ \E n \in 1..MaxPrs : OwnerMerges(n) \/ OwnerCloses(n)

Fairness ==
  /\ WF_vars(TickNext)
  /\ WF_vars(HolderNext)
  /\ SF_vars(TakeLock("tick"))
  /\ SF_vars(Finish) /\ SF_vars(AddWorktree) /\ SF_vars(MergeInWorktree)
  /\ WF_vars(ChecksReport)
  /\ WF_vars(QueueMoves)
  /\ WF_vars(OwnerSettles)

FairSpec == Spec /\ Fairness

-----------------------------------------------------------------------------
(* What an integration promises.                                           *)

\* Whether the work accepted last is in the integration branch; a plan is there when
\* its file is, of whichever round.
Arrived(commits) == \E n \in 1..round : (subject = "plan" \/ n = round) /\ Holds(commits, n)
Landed == Arrived(local \cup origin)

Promise == INSTANCE Landing WITH landed <- Landed

\* The integration implements Landing: by whichever way, through two askers, a
\* second acceptance, a kill and the owner's own merges, work is recorded as
\* integrated only once it is in the integration branch, and only once.
LandingHonoured == Promise!Spec

\* The type invariant: where what is held goes together, only a holder has a step to
\* take, a pull request that is named is there, and only a merge in progress brings
\* commits in.
LogTypes ==
  /\ subject \in Kinds /\ policy \in Choices
  /\ status \in {"accepted", "assigned", "in_progress"}
  /\ round \in 1..MaxRounds
  /\ awaiting \in BOOLEAN /\ escalated \in BOOLEAN /\ followed \in BOOLEAN /\ reverted \in BOOLEAN
  /\ url \in 0..MaxPrs
  /\ recorded \in Nat

GitTypes ==
  /\ local \subseteq Commits /\ origin \subseteq Commits
  /\ branch \subseteq Commits /\ pushed \subseteq Commits /\ theirs \subseteq Commits
  /\ tree \in {"none", "clean", "merging"}
  /\ tree # "merging" => theirs = {}
  /\ checkout \in {"into", "other", "unmerged"}
  /\ disk \in {"kept", "gone", "switched"}

ForgeTypes ==
  /\ prs \in Seq({"open", "merged", "closed"}) /\ Len(prs) <= MaxPrs
  /\ checks \in {"none", "registering", "pending", "passed", "failed"}
  /\ early \in BOOLEAN /\ queued \in BOOLEAN

ProcessTypes ==
  /\ tick \in {"down", "away", "rule1", "rule2"}
  /\ row \in [accepted: BOOLEAN, awaiting: BOOLEAN, keeps: BOOLEAN]
  /\ holder \in Askers \cup {"nobody"}
  /\ step \in Steps
  /\ holder = "nobody" <=> step = "none"
  /\ mem \in [head: SUBSET Commits, pr: 0..MaxPrs]
  /\ kills \in 0..MaxKills

TypeOK ==
  /\ LogTypes /\ GitTypes /\ ForgeTypes /\ ProcessTypes
  /\ url <= Len(prs) /\ mem.pr <= Len(prs)

\* A branch never has two open pull requests, although a kill between `gh pr create`
\* and `pull_request.opened` leaves one the log does not know, and each acceptance
\* opens one anew.
OneOpenPullRequest == Cardinality(OpenPrs) <= 1

\* Once the work is recorded and the lock is free, nothing that goes with it is left
\* undone without the owner being told: the local integration branch has the work,
\* what a folder change brings with it was filed, and the owner's checkout holds no
\* merge of Catervas's.  (A kill in between does leave it undone.)
NothingLeftBehind ==
  recorded > 0 /\ holder = "nobody" /\ kills = 0 =>
    /\ Arrived(local) \/ escalated
    /\ subject = "folder" => followed
    /\ checkout # "unmerged"

\* A change that takes the documents out of the repository is recorded only when what
\* git took out of the checkout with it is back on the disk, also after a kill in
\* between: what is recorded is not looked at again.  (Only the owner's own return from
\* another branch, to which nothing was taken out and so nothing written back, takes
\* them away.)
DocumentsKept == subject = "storage" /\ recorded > 0 => disk # "gone"

\* Catervas merges, or has the merge queue merge, only a head whose checks passed, or
\* one of a repository that has none, whatever was pushed since it read them.  (Or one
\* it decided to merge before its checks were all registered, as they read like none, or
\* like those that passed.)
MergesWhatPassed ==
  [][\A n \in DOMAIN prs :
       prs[n] = "open" /\ prs'[n] = "merged" /\ ((step = "merging" /\ step' # step) \/ queued)
         => checks \in {"none", "passed"} \/ early]_vars

\* Work that waits for its integration is recorded, sent back to its assignee or
\* brought to the owner, with an owner who settles pull requests and merges by hand
\* what has no remote.
IntegrationEnds == awaiting ~> (~awaiting \/ escalated)

\* "The branch already holds all of the integration branch: the forge's answer is
\* stale": what is waited for is at the forge.
UpToDateIsPushed ==
  Holding("stopped") /\ IsTask /\ CanFastForward /\ UpToDate => branch \subseteq pushed

\* `sent_back` leaves the task to its assignee, "its worktree holding the merge in
\* progress".
SentBackKeepsItsMerge == status = "assigned" => tree = "merging"
=============================================================================

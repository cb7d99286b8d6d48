------------------------------ MODULE GitSync -------------------------------
(***************************************************************************)
(* Worktrees of groups, the main branch of the host and origin (git_ops).  *)
(* Agents commit in their worktree; a merge asked for through IPC          *)
(* (sync.py), merges in the background after runs (_worktree_merge.py) and *)
(* the poll loop (sync_poll.py) move main; worktrees are rebased onto it   *)
(* and the agents told (_worktree_notify.py), or prepared at launch and    *)
(* start (worktree.py).  All of them run on threads, or between awaits, and*)
(* interleave between git commands, each of which is one step.             *)
(*                                                                         *)
(* A branch is the sequence of its changes: two are in fast-forward        *)
(* relation if one is a prefix of the other, and a rebase drops changes    *)
(* that the new base has.  A merge commit is written as the sequence that  *)
(* the rebase before the next merge to main makes of it.                   *)
(***************************************************************************)
EXTENDS Naturals, Sequences, FiniteSets, SequencesExt

CONSTANTS
  Groups,
  PullRequests,  \* the groups whose policy is pull-request
  Changes,       \* bound of the model: what agents will commit
  External,      \* bound of the model: what others will push to origin
  Worthy,        \* the changes that touch source the process has loaded
  MaxMishaps     \* bound of the model: remote commands and deployments that fail,
                 \* conflicts, edits, broken worktrees, crashes

ASSUME GitSets == PullRequests \subseteq Groups /\ Worthy \subseteq Changes \cup External
ASSUME GitBounds == MaxMishaps \in Nat

Jobs == {"ipc", "merge", "poll"}

VARIABLES
  main, origin, tracking,  \* of the host; of the remote; the host's origin/main
  wt,          \* the branch of each worktree
  tree,        \* "clean", "dirty", "conflict" in the middle of a rebase, "broken"
  onto,        \* what an unfinished rebase goes onto
  prs,         \* pull requests that are open
  root,        \* the host's own checkout: "clean", "dirty", "stashed"
  job,         \* what each thread is doing
  poll,        \* the loop's baselines
  notified,    \* last_notified_sha
  loadedMain,     \* the main the process has loaded
  git_past     \* history and bounds

refs == <<main, origin, tracking, prs>>
trees == <<wt, tree, onto>>
git_vars == <<refs, trees, root, job, poll, notified, loadedMain, git_past>>

Free == [pc |-> "idle", g |-> "none", want |-> {}, todo |-> {}, try |-> 0]
Pcs == {"idle", "start", "fetch", "rebase_main", "rebase_wt", "ff", "push_fetch", "push_rebase", "push",
        "refetch", "pushed", "push_branch", "pr", "reply", "remote", "stash", "pop", "notify", "deploy"}

Git == ToSet(main) \cup ToSet(origin) \cup UNION {ToSet(wt[g]) : g \in Groups}
Marker == 0   \* the commit that says a stash did not come back
Commits == Changes \cup External \cup {Marker}

GitTypeOK ==
  /\ {main, origin, tracking, notified, loadedMain} \subseteq Seq(Commits)
  /\ \A g \in Groups : {wt[g], onto[g]} \subseteq Seq(Commits)
  /\ tree \in [Groups -> {"clean", "dirty", "conflict", "broken"}]
  /\ prs \subseteq Groups /\ root \in {"clean", "dirty", "stashed"}
  /\ \A j \in Jobs : job[j].pc \in Pcs /\ job[j].g \in Groups \cup {"none"} /\ job[j].todo \subseteq Groups
  /\ {poll.origin, poll.deployed, poll.local, poll.seen} \subseteq Seq(Commits)
  /\ git_past.mishaps \in 0..MaxMishaps

GitInit ==
  /\ main = <<>> /\ origin = <<>> /\ tracking = <<>>
  /\ wt = [g \in Groups |-> <<>>] /\ tree = [g \in Groups |-> "clean"] /\ onto = [g \in Groups |-> <<>>]
  /\ prs = {} /\ root = "clean"
  /\ job = [j \in Jobs |-> Free]
  /\ poll = [origin |-> <<>>, deployed |-> <<>>, local |-> <<>>, seen |-> <<>>]
  /\ notified = <<>> /\ loadedMain = <<>>
  /\ git_past = [mishaps |-> 0, recreated |-> {}, by |-> [g \in Groups |-> {}]]

-----------------------------------------------------------------------------
\* git

\* The changes of b that base does not have, in their order.
Own(b, base) ==
  LET own[n \in 0..Len(b)] ==
        IF n = 0 THEN <<>>
        ELSE IF b[n] \in ToSet(base) THEN own[n - 1] ELSE Append(own[n - 1], b[n])
  IN  own[Len(b)]
Rebased(b, base) == base \o Own(b, base)

\* There is something to replay, and something it may conflict with.
MayConflict(b, base) == Own(b, base) # <<>> /\ ~IsPrefix(base, b)

Mishap == git_past.mishaps < MaxMishaps /\ git_past' = [git_past EXCEPT !.mishaps = @ + 1]
Fine == UNCHANGED git_past

Fetch == tracking' = origin /\ UNCHANGED <<main, origin, prs>>

\* Rebasing main onto origin/main: an own edit or a conflict stops it, and it
\* is aborted.
RebaseMain(ok) ==
  \/ ok /\ root # "dirty" /\ main' = Rebased(main, tracking) /\ Fine /\ UNCHANGED <<origin, tracking, prs>>
  \/ ~ok /\ root = "dirty" /\ Fine /\ UNCHANGED refs
  \/ ~ok /\ root # "dirty" /\ MayConflict(main, tracking) /\ Mishap /\ UNCHANGED refs

\* The same in a worktree, which has to be clean.
RebaseTree(g, base) ==
  /\ tree[g] = "clean" /\ Fine
  /\ wt' = [wt EXCEPT ![g] = Rebased(@, base)] /\ UNCHANGED <<tree, onto>>

LeaveConflict(g, base) ==
  /\ tree[g] = "clean" /\ MayConflict(wt[g], base) /\ Mishap
  /\ tree' = [tree EXCEPT ![g] = "conflict"] /\ onto' = [onto EXCEPT ![g] = base] /\ UNCHANGED wt

\* Aborted on conflict; an unfinished rebase found there is aborted too.
SafeRebaseFails(g, base) ==
  \/ tree[g] \in {"dirty", "broken"} /\ Fine /\ UNCHANGED trees
  \/ tree[g] = "clean" /\ MayConflict(wt[g], base) /\ Mishap /\ UNCHANGED trees
  \/ tree[g] = "conflict" /\ tree' = [tree EXCEPT ![g] = "clean"] /\ Fine /\ UNCHANGED <<wt, onto>>

\* The main branch moves only to a branch that contains it.
FastForward(g) == IsPrefix(main, wt[g]) /\ main' = wt[g]

Go(j, pc) == job' = [job EXCEPT ![j].pc = pc]
Done(j) == job' = [job EXCEPT ![j] = Free]
Quiet == UNCHANGED <<root, poll, notified, loadedMain>>

-----------------------------------------------------------------------------
\* Agents, and whoever else pushes or edits.

Used == Git \cup UNION {git_past.by[g] : g \in Groups}

Commit(g) ==
  /\ tree[g] \in {"clean", "dirty"}
  /\ \E c \in Changes \ Used :
       /\ \A d \in Changes \ Used : c <= d
       /\ wt' = [wt EXCEPT ![g] = Append(@, c)]
       /\ git_past' = [git_past EXCEPT !.by[g] = @ \cup {c}]
  /\ tree' = [tree EXCEPT ![g] = "clean"]
  /\ UNCHANGED <<onto, refs, job>> /\ Quiet

Edit(g) ==
  /\ tree[g] = "clean" /\ Mishap /\ tree' = [tree EXCEPT ![g] = "dirty"]
  /\ UNCHANGED <<wt, onto, refs, job>> /\ Quiet

Resolve(g) ==
  /\ tree[g] = "conflict" /\ tree' = [tree EXCEPT ![g] = "clean"]
  /\ wt' = [wt EXCEPT ![g] = Rebased(@, onto[g])] /\ onto' = [onto EXCEPT ![g] = <<>>]
  /\ UNCHANGED <<refs, job, git_past>> /\ Quiet

\* A renamed group leaves a worktree that is no repository any more.
Breaks(g) ==
  /\ tree[g] # "broken" /\ Mishap /\ tree' = [tree EXCEPT ![g] = "broken"]
  /\ UNCHANGED <<wt, onto, refs, job>> /\ Quiet

OthersPush ==
  /\ \E c \in External \ Git : origin' = Append(origin, c)
  /\ UNCHANGED <<main, tracking, prs, trees, job, git_past>> /\ Quiet

HostEdits ==
  /\ root = "clean" /\ root' = "dirty" /\ Mishap
  /\ UNCHANGED <<refs, trees, job, poll, notified, loadedMain>>

-----------------------------------------------------------------------------
\* sync.py and _worktree_merge.py

\* Nothing happens without a worktree that is clean and ahead of main.
ValidateSyncPreconditions(g) == tree[g] = "clean" /\ Own(wt[g], main) # <<>>

SyncWorktreeToMain(g) ==
  /\ job["ipc"].pc = "idle" /\ ValidateSyncPreconditions(g)
  /\ job' = [job EXCEPT !["ipc"] = [Free EXCEPT !.g = g, !.want = ToSet(wt[g]),
                                     !.pc = IF g \in PullRequests THEN "push_branch" ELSE "fetch"]]
  /\ UNCHANGED <<refs, trees, git_past>> /\ Quiet

\* After a run, or when the agent says it is finished.
MergeWorktreeWithPolicy(g) ==
  /\ job["merge"].pc = "idle"
  /\ IF g \in PullRequests
     THEN /\ ValidateSyncPreconditions(g)
          /\ job' = [job EXCEPT !["merge"] = [Free EXCEPT !.g = g, !.pc = "push_branch"]]
     ELSE /\ Own(wt[g], main) # <<>>
          /\ job' = [job EXCEPT !["merge"] = [Free EXCEPT !.g = g, !.pc = "rebase_wt"]]
  /\ UNCHANGED <<refs, trees, git_past>> /\ Quiet

\* What a round has stashed stays in the stash when the round ends early: the
\* next one finds nothing to stash and pops nothing.
LeaveStash(j) == root' = IF j = "poll" /\ root = "stashed" THEN "clean" ELSE root

HostFetch(j) ==
  /\ job[j].pc = "fetch"
  /\ \/ Fetch /\ Fine /\ Go(j, "rebase_main") /\ UNCHANGED root
     \/ Mishap /\ UNCHANGED refs /\ Done(j) /\ LeaveStash(j)
  /\ UNCHANGED <<trees, poll, notified, loadedMain>>

HostRebaseMain(j) ==
  /\ job[j].pc = "rebase_main"
  /\ \/ RebaseMain(TRUE) /\ Go(j, IF j = "poll" THEN "push_rebase" ELSE "rebase_wt") /\ UNCHANGED root
     \/ RebaseMain(FALSE) /\ Done(j) /\ LeaveStash(j)
  /\ UNCHANGED <<trees, poll, notified, loadedMain>>

\* The conflict is left for the agent if it has asked for the merge.
RebaseWorktree(j) ==
  /\ job[j].pc = "rebase_wt"
  /\ LET g == job[j].g
     IN  \/ RebaseTree(g, main) /\ Go(j, "ff")
         \/ j = "ipc" /\ LeaveConflict(g, main) /\ Done(j)
         \/ j = "ipc" /\ tree[g] # "clean" /\ UNCHANGED trees /\ Fine /\ Done(j)
         \/ j = "merge" /\ SafeRebaseFails(g, main) /\ Done(j)
  /\ UNCHANGED refs /\ Quiet

\* A slip checked against MainKeepsChanges: main is reset to the branch.
ResetToBranch(j) ==
  /\ job[j].pc = "ff" /\ main' = wt[job[j].g]
  /\ Go(j, IF j = "ipc" THEN "push_rebase" ELSE "push_fetch")
  /\ UNCHANGED <<origin, tracking, prs, trees, git_past>> /\ Quiet

\* Main may have moved since the rebase, and the merge then fails.
MergeFastForward(j) ==
  /\ job[j].pc = "ff"
  /\ \/ FastForward(job[j].g) /\ Go(j, IF j = "ipc" THEN "push_rebase" ELSE "push_fetch")
        /\ UNCHANGED <<origin, tracking, prs>>
     \/ ~IsPrefix(main, wt[job[j].g]) /\ Done(j) /\ UNCHANGED refs
  /\ UNCHANGED <<trees, git_past>> /\ Quiet

-----------------------------------------------------------------------------
\* utils.push_local_commits

PushEnds(j, ok) ==
  CASE j = "poll" -> Go(j, "pop")
    [] j = "ipc" /\ ok -> Go(j, "reply")
    [] OTHER -> Done(j)

PushFetch(j) ==
  /\ job[j].pc \in {"push_fetch", "refetch"}
  /\ \/ Fetch /\ Fine /\ Go(j, "push_rebase")
     \/ Mishap /\ UNCHANGED refs /\ PushEnds(j, FALSE)
  /\ UNCHANGED trees /\ Quiet

\* With nothing to push all is well; a rebase that fails is tried once more
\* after a fetch.
PushRebase(j) ==
  /\ job[j].pc = "push_rebase"
  /\ \/ Own(main, tracking) = <<>> /\ PushEnds(j, TRUE) /\ Fine /\ UNCHANGED refs
     \/ Own(main, tracking) # <<>> /\ RebaseMain(TRUE) /\ Go(j, "push")
     \/ /\ Own(main, tracking) # <<>> /\ RebaseMain(FALSE)
        /\ IF job[j].try = 0 THEN job' = [job EXCEPT ![j].pc = "refetch", ![j].try = 1] ELSE PushEnds(j, FALSE)
  /\ UNCHANGED trees /\ Quiet

\* A slip checked against GitSound: a push that is rejected counts as done.
IgnoresRejection(j) ==
  /\ job[j].pc = "push"
  /\ IF IsPrefix(origin, main) THEN origin' = main /\ tracking' = main ELSE UNCHANGED <<origin, tracking>>
  /\ PushEnds(j, TRUE) /\ Fine
  /\ UNCHANGED <<main, prs, trees>> /\ Quiet

\* A push is rejected if origin has moved; it is not tried again.
Push(j) ==
  /\ job[j].pc = "push"
  /\ \/ /\ IsPrefix(origin, main) /\ origin' = main /\ tracking' = main
        /\ PushEnds(j, TRUE) /\ Fine /\ UNCHANGED <<main, prs>>
     \/ ~IsPrefix(origin, main) /\ PushEnds(j, FALSE) /\ Fine /\ UNCHANGED refs
     \/ IsPrefix(origin, main) /\ Mishap /\ PushEnds(j, FALSE) /\ UNCHANGED refs
  /\ UNCHANGED trees /\ Quiet

-----------------------------------------------------------------------------
\* sync.host_create_pr_from_worktree.  Nothing reads the branch on the remote.

PushBranch(j) ==
  /\ job[j].pc = "push_branch"
  /\ \/ Fine /\ Go(j, "pr")
     \/ Mishap /\ Done(j)
  /\ UNCHANGED <<refs, trees>> /\ Quiet

\* An open one has been updated by the push; otherwise one is made.
CreatePr(j) ==
  /\ job[j].pc = "pr" /\ Done(j)
  /\ \/ prs' = prs \cup {job[j].g} /\ Fine
     \/ job[j].g \notin prs /\ Mishap /\ UNCHANGED prs
  /\ UNCHANGED <<main, origin, tracking, trees>> /\ Quiet

-----------------------------------------------------------------------------
\* The reply, and what follows a merge: the other worktrees, then a deployment.

NeedsDeploy(old, new) == \E c \in Worthy : c \in ToSet(new) /\ c \notin ToSet(old)

Reply ==
  /\ job["ipc"].pc = "reply"
  /\ job' = [job EXCEPT !["ipc"].pc = "notify", !["ipc"].todo = Groups \ {job["ipc"].g}]
  /\ UNCHANGED <<refs, trees, git_past>> /\ Quiet

\* A worktree at a time, with an await between two of them; its agent is told
\* what was done.
NotifyWorktree(j, g) ==
  /\ job[j].pc = "notify" /\ g \in job[j].todo
  /\ \/ Own(main, wt[g]) = <<>> /\ UNCHANGED <<trees, git_past>>
     \/ Own(main, wt[g]) # <<>> /\ tree[g] # "clean" /\ UNCHANGED <<trees, git_past>>
     \/ Own(main, wt[g]) # <<>> /\ RebaseTree(g, main)
     \/ Own(main, wt[g]) # <<>> /\ LeaveConflict(g, main)
  /\ job' = [job EXCEPT ![j].todo = @ \ {g}]
  /\ UNCHANGED <<refs, root, poll, notified, loadedMain>>

\* The head recorded is the one of now.
NotifyEnds(j) ==
  /\ job[j].pc = "notify" /\ job[j].todo = {}
  /\ notified' = main /\ Go(j, "deploy")
  /\ UNCHANGED <<refs, trees, root, poll, loadedMain, git_past>>

-----------------------------------------------------------------------------
\* sync_poll.start_host_git_sync_loop

\* Both heads are read anew in every round.
Forgets(p) == [p EXCEPT !.local = <<>>, !.seen = <<>>]

\* The head has moved: a deployment, after the worktrees were told, or a new
\* baseline.
PollLocalHead ==
  /\ job["poll"].pc = "idle" /\ (main # poll.deployed \/ origin # poll.origin)
  /\ IF NeedsDeploy(poll.deployed, main)
     THEN /\ job' = [job EXCEPT !["poll"].pc = IF notified = main THEN "deploy" ELSE "notify", !["poll"].todo = Groups]
          /\ poll' = Forgets(poll)
     ELSE poll' = [Forgets(poll) EXCEPT !.local = main, !.deployed = main] /\ Go("poll", "remote")
  /\ UNCHANGED <<refs, trees, root, notified, loadedMain, git_past>>

PollOrigin ==
  /\ job["poll"].pc = "remote"
  /\ \/ Mishap /\ Done("poll") /\ poll' = Forgets(poll)
     \/ Fine /\ origin = poll.origin /\ Done("poll") /\ poll' = Forgets(poll)
     \/ /\ Fine /\ origin # poll.origin /\ origin = poll.local
        /\ Done("poll") /\ poll' = [Forgets(poll) EXCEPT !.origin = origin]
     \/ /\ Fine /\ origin # poll.origin /\ origin # poll.local
        /\ Go("poll", "stash") /\ poll' = [Forgets(poll) EXCEPT !.seen = origin]
  /\ UNCHANGED <<refs, trees, root, notified, loadedMain>>

\* _host_update_main
Stash ==
  /\ job["poll"].pc = "stash" /\ Go("poll", "fetch")
  /\ root' = IF root = "dirty" THEN "stashed" ELSE root
  /\ UNCHANGED <<refs, trees, poll, notified, loadedMain, git_past>>

\* What was stashed comes back, or stays where it is and a commit that is
\* pushed says so.
StashPop ==
  /\ job["poll"].pc = "pop"
  /\ \/ /\ root = "stashed" /\ Marker \notin ToSet(main) /\ Mishap
        /\ root' = "clean" /\ main' = Append(main, Marker) /\ Go("poll", "push_rebase") /\ UNCHANGED poll
     \/ /\ root' = (IF root = "stashed" THEN "dirty" ELSE root) /\ UNCHANGED main /\ Fine
        /\ poll' = [Forgets(poll) EXCEPT !.origin = poll.seen]
        /\ job' = [job EXCEPT !["poll"].pc = IF notified = main THEN "deploy" ELSE "notify", !["poll"].todo = Groups,
                              !["poll"].try = 0]
  /\ UNCHANGED <<origin, tracking, prs, trees, notified, loadedMain>>

\* Restarting, or going on with a new baseline; a deployment that fails with an
\* exception is logged and the loop goes on.
Deploy(j) ==
  /\ job[j].pc = "deploy"
  /\ \/ NeedsDeploy(IF j = "poll" THEN poll.deployed ELSE loadedMain, main) /\ Go(j, "start") /\ Fine /\ UNCHANGED poll
     \/ NeedsDeploy(IF j = "poll" THEN poll.deployed ELSE loadedMain, main) /\ Done(j) /\ Mishap /\ UNCHANGED poll
     \/ /\ ~NeedsDeploy(IF j = "poll" THEN poll.deployed ELSE loadedMain, main) /\ Done(j) /\ Fine
        /\ poll' = IF j = "poll" THEN [poll EXCEPT !.deployed = main] ELSE poll
  /\ UNCHANGED <<refs, trees, root, notified, loadedMain>>

-----------------------------------------------------------------------------
\* Restarts: every thread ends between two commands, and the worktrees are
\* prepared before anything is launched (worktree.py).

\* A worktree that is broken is made anew, and its branch with it; another one
\* gets origin merged into it as far as possible, and is rebased onto main.
EnsureWorktree(g) ==
  IF tree[g] = "broken" THEN [wt |-> origin, tree |-> "clean"]
  ELSE IF tree[g] = "clean" THEN [wt |-> Rebased(Rebased(wt[g], origin), main), tree |-> "clean"]
  ELSE IF tree[g] = "conflict" THEN [wt |-> wt[g], tree |-> "clean"]
  ELSE [wt |-> wt[g], tree |-> tree[g]]

ReconcileWorktreesAtStartup ==
  /\ tracking' = origin
  /\ wt' = [g \in Groups |-> EnsureWorktree(g).wt]
  /\ tree' = [g \in Groups |-> EnsureWorktree(g).tree]

Restarted ==
  /\ job' = [j \in Jobs |-> Free]
  /\ loadedMain' = main /\ poll' = [Forgets(poll) EXCEPT !.origin = origin, !.deployed = main]
  /\ notified' = <<>> /\ onto' = [g \in Groups |-> <<>>]
  /\ ReconcileWorktreesAtStartup
  /\ LeaveStash("poll")
  /\ UNCHANGED <<main, origin, prs>>

Restart ==
  /\ \E j \in Jobs : job[j].pc = "start"
  /\ git_past' = [git_past EXCEPT !.recreated = @ \cup {g \in Groups : tree[g] = "broken"}]
  /\ Restarted

Crash ==
  /\ git_past.mishaps < MaxMishaps
  /\ git_past' = [git_past EXCEPT !.mishaps = @ + 1, !.recreated = @ \cup {g \in Groups : tree[g] = "broken"}]
  /\ Restarted

-----------------------------------------------------------------------------
JobStep(j) ==
  \/ HostFetch(j) \/ HostRebaseMain(j) \/ RebaseWorktree(j) \/ MergeFastForward(j)
  \/ PushFetch(j) \/ PushRebase(j) \/ Push(j) \/ PushBranch(j) \/ CreatePr(j)
  \/ \E g \in Groups : NotifyWorktree(j, g)
  \/ NotifyEnds(j) \/ Deploy(j)
GitPollStep == PollLocalHead \/ PollOrigin \/ Stash \/ StashPop \/ JobStep("poll")

GitNext ==
  \/ \E g \in Groups : Commit(g) \/ Edit(g) \/ Resolve(g) \/ Breaks(g) \/ SyncWorktreeToMain(g) \/ MergeWorktreeWithPolicy(g)
  \/ OthersPush \/ HostEdits \/ JobStep("ipc") \/ Reply \/ JobStep("merge") \/ GitPollStep \/ Restart \/ Crash

\* Git commands have timeouts, so the poll loop goes on, and the service manager
\* starts a process that ends.  Nothing is asked of merges and handlers.
GitFairness == WF_git_vars(GitPollStep) /\ WF_git_vars(Restart)

GitSpec == GitInit /\ [][GitNext]_git_vars /\ GitFairness

-----------------------------------------------------------------------------
\* Whatever merges, rebases, conflicts and restarts interleave, what an agent
\* has committed is on its branch or on main, unless its worktree was found
\* broken and made anew.
ChangesKept ==
  \A g \in Groups \ git_past.recreated : git_past.by[g] \subseteq ToSet(wt[g]) \cup ToSet(main)

\* "Merged N commit(s) into main and pushed to origin": when this is said, they
\* are there.
SyncedMeansPushed == job["ipc"].pc = "reply" => job["ipc"].want \subseteq ToSet(origin)

GitSound == ChangesKept /\ SyncedMeansPushed

\* No change that has reached main leaves it again.
MainKeepsChanges == [][ToSet(main) \subseteq ToSet(main')]_git_vars

\* Source that has reached main is loaded in the end, from whatever side and
\* whichever thread moved it there.
Unloaded == \E c \in Worthy : c \in ToSet(main) /\ c \notin ToSet(loadedMain)
DeployFollows == Unloaded ~> ~Unloaded
=============================================================================

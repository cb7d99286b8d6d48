------------------------------- MODULE MCHost -------------------------------
(***************************************************************************)
(* One run for four components of the host that share no state: the        *)
(* scheduler, the deployments, the git synchronisation and the LLM         *)
(* gateway.  turn says which of them moves; the others stay in one of      *)
(* their initial states.  watched is the task (0 for the host job) or the    *)
(* session (any but 0) that HostFollows is about; it does not change.      *)
(***************************************************************************)
EXTENDS TaskScheduler, Deploy, GitSync, LlmGateway

VARIABLES turn, watched

about == <<turn, watched>>
host_vars == <<scheduler_vars, dep_vars, git_vars, gateway_vars, about>>

DailyOrNot == {[admin |-> "none", group |-> c] : c \in {"absent", "daily"}}

\* A good commit, and one for each way to be bad; the container image changes.
GoodAndBad == {[fault |-> f, agent |-> f \in {"none", "import"}] : f \in Faults}

\* Three configurations of the gateway: a tool server with two instances and one
\* that serves every folder; a server that has moved and an unknown name; nothing.
ToolServers ==
  [files |-> [port |-> 8000, inject |-> TRUE, transport |-> "http"],
   gdrive |-> [port |-> 3000, inject |-> FALSE, transport |-> "sse"]]
Full ==
  [servers |-> ToolServers, templates |-> [gdrive |-> <<"a", "b">>],
   groups |-> [g |-> {<<"gdrive", "a">>}], presets |-> [p |-> [d |-> "x"]],
   workspaces |->
     <<[folder |-> "f", entries |-> {"files"}, kwargs |-> [files |-> [presets |-> <<"p">>, values |-> [d |-> "y"]]]],
       [folder |-> "h", entries |-> {"files", "g"}, kwargs |-> <<>>]>>]
Moved ==
  [servers |-> [ToolServers EXCEPT !.files.transport = "sse"], templates |-> <<>>, groups |-> <<>>,
   presets |-> <<>>, workspaces |-> <<[folder |-> "h", entries |-> {"files", "unknown"}, kwargs |-> <<>>]>>]
GatewaySettings == {Full, Moved, [Moved EXCEPT !.workspaces = <<>>]}

KeysOfModels == [m1 |-> "k", m2 |-> "literal"]

-----------------------------------------------------------------------------
SchedulerMoves(A) == turn = "scheduler" /\ A /\ UNCHANGED <<dep_vars, git_vars, gateway_vars, about>>
DeployMoves(A) == turn = "deploy" /\ A /\ UNCHANGED <<scheduler_vars, git_vars, gateway_vars, about>>
GitMoves(A) == turn = "git" /\ A /\ UNCHANGED <<scheduler_vars, dep_vars, gateway_vars, about>>
GatewayMoves(A) == turn = "gateway" /\ A /\ UNCHANGED <<scheduler_vars, dep_vars, git_vars, about>>

HostInit ==
  /\ SchedulerInit /\ DeployInit /\ GitInit /\ GatewayInit
  /\ turn \in {"scheduler", "deploy", "git", "gateway"}
  /\ watched \in CASE turn = "scheduler" -> Ids \cup {0} [] turn = "deploy" -> {0, 1} [] OTHER -> {0}
  /\ turn # "deploy" => ~pulls
  /\ turn # "scheduler" => config["group"] = "absent" /\ hostjob.kind = "once"

HostNext ==
  SchedulerMoves(SchedulerNext) \/ DeployMoves(DeployNext) \/ GitMoves(GitNext) \/ GatewayMoves(GatewayNext)

\* The fairness of the components HostFollows is about, or less: as turn does not
\* change, weak fairness of steps of different components is weak fairness of
\* their disjunction.
HostFairness ==
  /\ WF_host_vars(\/ SchedulerMoves(PollStep) \/ DeployMoves(ProcessStep)
                  \/ GitMoves(GitPollStep))
  /\ WF_host_vars(\/ SchedulerMoves(\E f \in Folders : TaskStep(f))
                  \/ DeployMoves(\E p \in Paths : RequestStep(p)) \/ GitMoves(Restart))

HostSpec == HostInit /\ [][HostNext]_host_vars /\ HostFairness

-----------------------------------------------------------------------------
\* Every variable of the four components has its type.
HostTypeOK == SchedulerTypeOK /\ DeployTypeOK /\ GitTypeOK /\ GatewayTypeOK

\* What has to follow, of the component that moves: DueTasksRun for each task and
\* the host job, BadStartRecovers or ResumeFollows, DeployFollows.
Awaited ==
  \/ turn = "scheduler" /\ Due(IF watched = 0 THEN hostjob ELSE rows[watched])
  \/ turn = "deploy" /\ IF watched = 0 THEN CanGoBack ELSE InterruptedAndUp
  \/ turn = "git" /\ Unloaded
Ended ==
  \/ turn = "scheduler" /\ ~Due(IF watched = 0 THEN hostjob ELSE rows[watched])
  \/ turn = "deploy" /\ IF watched = 0 THEN phase = "boot" ELSE ~InterruptedAndUp
  \/ turn = "git" /\ ~Unloaded

\* A due task or host job is run or made not due by somebody (task_scheduler.py),
\* a deployment that fails to start is taken back when it can be (deploy.py), a
\* session it interrupted is resumed (startup_handler.py) and source that has
\* reached main is loaded (git_ops/sync_poll.py), whatever runs take long, calls
\* fail and restarts do.
HostFollows == Awaited ~> Ended
=============================================================================

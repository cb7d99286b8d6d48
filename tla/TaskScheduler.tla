--------------------------- MODULE TaskScheduler ---------------------------
(***************************************************************************)
(* The scheduler of agent tasks and host jobs: the polling loop and the    *)
(* run of a task (orchestrator/task_scheduler.py), the rows it works on    *)
(* (state/tasks.py, state/host_jobs.py), the requests of agents that       *)
(* create, pause, resume and cancel rows (ipc/handlers_tasks.py and the    *)
(* tools in the container), and the reconciliation of the rows with        *)
(* config.toml at every start (orchestrator/workspace_config.py).          *)
(*                                                                         *)
(* Time is a counter.  The next run of a repeating schedule is the instant *)
(* after now, so a run that takes longer than its period is simply one     *)
(* during which the clock ticks.  Of the queue (module GroupQueue) this    *)
(* module keeps what the scheduler relies on: a list of waiting tasks per  *)
(* folder without duplicates, and one task running.                        *)
(***************************************************************************)
EXTENDS Naturals, Sequences, FiniteSets, SequencesExt

CONSTANTS
  Folders,        \* the workspaces
  Admin,          \* the folder of the admin workspace
  Ids,            \* ids of task rows; an id is given out once
  Schedules,      \* the cron expressions config.toml may hold
  Configs,        \* the contents of config.toml: see the variable config
  MaxClock,       \* bound of the model: instants
  MaxDisturbed    \* bound of the model: requests, crashes and failed polls

ASSUME FoldersAssumption ==
  Admin \in Folders /\ IsFiniteSet(Folders) /\ {"own", "none", "absent"} \cap Schedules = {}
ASSUME ConfigsAssumption == /\ Configs \subseteq [Folders -> Schedules \cup {"none", "absent"}]
                            /\ \A c \in Configs : c[Admin] # "absent"
ASSUME IdsAssumption == Ids \subseteq Nat \ {0} /\ IsFiniteSet(Ids)
ASSUME SchedulerBounds == {MaxClock, MaxDisturbed} \subseteq Nat

Never == MaxClock + 2     \* NULL: sorts after every time a row can be due at
Kinds == {"once", "repeat"}

VARIABLES
  clock,
  config,      \* config.toml: the cron expression of a periodic folder, "none" for
               \* one that is not periodic, "absent" for one without a section
  rows,        \* scheduled_tasks
  hostjob,         \* host_jobs: one row
  poller,      \* the polling loop: what it is about to do and its list of due tasks
  waiting,     \* pending_tasks of the queue: closures over a task
  running,     \* the task the folder's queue is running
  lost,        \* history: tasks whose only run was lost, or that were resumed after it
  disturbed    \* requests, crashes and failed polls so far

memory == <<poller, waiting, running>>
scheduler_vars == <<clock, config, rows, hostjob, memory, lost, disturbed>>

NoRow == [folder |-> Admin, kind |-> "once", sched |-> "own", status |-> "gone", next |-> Never]
Unused == [NoRow EXCEPT !.status = "unused"]
Idle == [id |-> 0, kind |-> "once", pc |-> "idle"]
AtRest == [pc |-> "sleep", due |-> <<>>]
Row == [folder : Folders, kind : Kinds, sched : Schedules \cup {"own"},
        status : {"unused", "active", "paused", "completed", "gone"}, next : 0..Never]

SchedulerTypeOK ==
  /\ clock \in 0..MaxClock
  /\ config \in Configs
  /\ rows \in [Ids -> Row] /\ hostjob \in Row
  /\ poller \in [pc : {"sleep", "job_run", "tasks", "recheck"}, due : Seq(Ids)]
  /\ waiting \in [Folders -> Seq([id : Ids, kind : Kinds])]
  /\ running \in [Folders -> [id : Ids \cup {0}, kind : Kinds, pc : {"idle", "start", "agent"}]]
  /\ \A f \in Folders : running[f].id = 0 <=> running[f].pc = "idle"
  /\ lost \subseteq Ids
  /\ disturbed \in 0..MaxDisturbed

-----------------------------------------------------------------------------
\* The store.

\* Slips checked against DueTasksRun, NoSilentStall and PauseHolds.
NextRunIsNow(kind) == IF kind = "once" THEN Never ELSE clock
StaysActive(row, next) == IF row.status \in {"unused", "gone"} THEN row ELSE [row EXCEPT !.next = next]
ActiveAgain(row, next) ==
  IF row.status \in {"unused", "gone"} THEN row
  ELSE [row EXCEPT !.next = next, !.status = IF next = Never THEN "completed" ELSE "active"]

\* Of a cron expression and an interval the next instant, of "once" nothing.
ComputeNextRun(kind) == IF kind = "once" THEN Never ELSE clock + 1

NewRow(folder, kind, sched, next) ==
  [folder |-> folder, kind |-> kind, sched |-> sched, status |-> "active", next |-> next]

Due(row) == row.status = "active" /\ row.next # Never /\ row.next <= clock

DueTasks == {i \in Ids : Due(rows[i])}

Stored(row) == row.status \notin {"unused", "gone"}

\* Updates of a row that is not there change nothing.
Updated(row, new) == IF Stored(row) THEN new ELSE row

AfterRun(row, next) ==
  Updated(row, [row EXCEPT !.next = next, !.status = IF next = Never THEN "completed" ELSE @])

-----------------------------------------------------------------------------
\* Reconciliation with config.toml, at every start, before the scheduler.

ActiveOf(rs, f) == {i \in Ids : rs[i].status = "active" /\ rs[i].folder = f}

\* The first active row of the folder, in the order of creation, whoever
\* created it, is taken for the task of the periodic agent.
ActiveTaskFor(rs, f) == CHOOSE i \in ActiveOf(rs, f) : \A j \in ActiveOf(rs, f) : i <= j

FreshIds(rs) == {i \in Ids : rs[i].status = "unused"}
FreshId(rs) == CHOOSE i \in FreshIds(rs) : \A j \in FreshIds(rs) : i <= j

Periodic(cfg, f) == cfg[f] \notin {"none", "absent"}

ReconcileFolder(rs, cfg, f) ==
  IF ~Periodic(cfg, f) THEN rs
  ELSE IF ActiveOf(rs, f) = {}
  THEN IF FreshIds(rs) = {} THEN rs
       ELSE [rs EXCEPT ![FreshId(rs)] = NewRow(f, "repeat", cfg[f], ComputeNextRun("repeat"))]
  ELSE LET i == ActiveTaskFor(rs, f)
       IN  IF rs[i].sched = cfg[f] THEN rs
           ELSE [rs EXCEPT ![i].sched = cfg[f], ![i].next = ComputeNextRun("repeat")]

PauseOrphans(rs, cfg) ==
  [i \in Ids |-> IF rs[i].status = "active" /\ ~Periodic(cfg, rs[i].folder)
                 THEN [rs[i] EXCEPT !.status = "paused"] ELSE rs[i]]

\* One folder after the other, then the orphans.
Reconciled(rs, cfg) ==
  LET folders == SetToSeq(Folders)
      after[n \in 0..Len(folders)] == IF n = 0 THEN rs ELSE ReconcileFolder(after[n - 1], cfg, folders[n])
  IN  PauseOrphans(after[Len(folders)], cfg)

\* The service has just been started, and an agent of the admin workspace has
\* scheduled a task and a host job.
SchedulerInit ==
  /\ clock = 0
  /\ config \in Configs
  /\ LET r == Reconciled([i \in Ids |-> Unused], config)
     IN  /\ FreshIds(r) # {}
         /\ \E k \in Kinds : /\ rows = [r EXCEPT ![FreshId(r)] = NewRow(Admin, k, "own", 0)]
                            /\ hostjob = NewRow(Admin, k, "own", 0)
  /\ poller = AtRest
  /\ waiting = [f \in Folders |-> <<>>] /\ running = [f \in Folders |-> Idle]
  /\ lost = {} /\ disturbed = 0

Disturbs == disturbed < MaxDisturbed /\ disturbed' = disturbed + 1

Tick == clock < MaxClock /\ clock' = clock + 1
        /\ UNCHANGED <<config, rows, hostjob, memory, lost, disturbed>>

\* The process dies; the next start reads a config.toml that may have changed.
\* A task that was to run once and had its next run cleared is never due again.
SchedulerCrash ==
  /\ Disturbs
  /\ lost' = lost \cup {i \in Ids : \E f \in Folders : running[f].id = i /\ running[f].pc = "agent"
                                       /\ running[f].kind = "once"}
  /\ poller' = AtRest
  /\ waiting' = [f \in Folders |-> <<>>] /\ running' = [f \in Folders |-> Idle]
  /\ config' \in Configs
  /\ rows' = Reconciled(rows, config')
  /\ UNCHANGED <<clock, hostjob>>

-----------------------------------------------------------------------------
\* The polling loop.

Goes(pc) == poller' = [poller EXCEPT !.pc = pc]

\* The loop wakes up and runs the host jobs that are due, awaiting each.
PollDatabaseHostJobs ==
  /\ poller.pc = "sleep"
  /\ Goes(IF Due(hostjob) THEN "job_run" ELSE "tasks")
  /\ UNCHANGED <<clock, config, rows, hostjob, waiting, running, lost, disturbed>>

\* The command has ended, failed or been killed at its timeout.
HostJobEnds ==
  /\ poller.pc = "job_run" /\ Goes("tasks")
  /\ hostjob' = AfterRun(hostjob, ComputeNextRun(hostjob.kind))
  /\ UNCHANGED <<clock, config, rows, waiting, running, lost, disturbed>>

\* ORDER BY next_run
DueBefore(i, j) == rows[i].next < rows[j].next \/ (rows[i].next = rows[j].next /\ i < j)

GetDueTasks ==
  /\ poller.pc = "tasks"
  /\ \E due \in [1..Cardinality(DueTasks) -> DueTasks] :
       /\ \A m, n \in DOMAIN due : m < n => DueBefore(due[m], due[n])
       /\ poller' = [pc |-> "recheck", due |-> due]
  /\ UNCHANGED <<clock, config, rows, hostjob, waiting, running, lost, disturbed>>

\* A task that waits already is not added again; one that runs is.
EnqueueTask(f, i) ==
  waiting' = IF \E k \in DOMAIN waiting[f] : waiting[f][k].id = i THEN waiting
             ELSE [waiting EXCEPT ![f] = Append(@, [id |-> i, kind |-> rows[i].kind])]

\* The status is read again, the next run is not.
Recheck ==
  /\ poller.pc = "recheck"
  /\ IF poller.due = <<>> THEN Goes("sleep") /\ UNCHANGED waiting
     ELSE LET i == Head(poller.due)
          IN  /\ poller' = [poller EXCEPT !.due = Tail(@)]
              /\ IF rows[i].status = "active" THEN EnqueueTask(rows[i].folder, i) ELSE UNCHANGED waiting
  /\ UNCHANGED <<clock, config, rows, hostjob, running, lost, disturbed>>

\* An error anywhere in a poll is logged and the loop sleeps.
PollFails ==
  /\ poller.pc # "sleep" /\ Disturbs
  /\ poller' = AtRest
  /\ UNCHANGED <<clock, config, rows, hostjob, waiting, running, lost>>

-----------------------------------------------------------------------------
\* The run of a task.

TaskTaken(f) ==
  /\ running[f].pc = "idle" /\ waiting[f] # <<>>
  /\ running' = [running EXCEPT ![f] = [id |-> Head(waiting[f]).id, kind |-> Head(waiting[f]).kind, pc |-> "start"]]
  /\ waiting' = [waiting EXCEPT ![f] = Tail(@)]
  /\ UNCHANGED <<clock, config, rows, hostjob, poller, lost, disturbed>>

\* The next run moves on before the agent is started.
RunScheduledAgent(f) ==
  /\ running[f].pc = "start"
  /\ rows' = [rows EXCEPT ![running[f].id] = Updated(@, [@ EXCEPT !.next = ComputeNextRun(running[f].kind)])]
  /\ running' = [running EXCEPT ![f].pc = "agent"]
  /\ UNCHANGED <<clock, config, hostjob, poller, waiting, lost, disturbed>>

\* The workspace is no longer registered: the run ends there, without the
\* update that completes the task.
GroupMissing(f) ==
  /\ running[f].pc = "agent" /\ config[f] = "absent"
  /\ lost' = IF running[f].kind = "once" THEN lost \cup {running[f].id} ELSE lost
  /\ running' = [running EXCEPT ![f] = Idle]
  /\ UNCHANGED <<clock, config, rows, hostjob, poller, waiting, disturbed>>

\* The agent has answered, failed, or was closed when idle: the run is logged
\* and the next run is computed again.
TaskRunEnds(f) ==
  /\ running[f].pc = "agent" /\ config[f] # "absent"
  /\ rows' = [rows EXCEPT ![running[f].id] = AfterRun(@, ComputeNextRun(running[f].kind))]
  /\ running' = [running EXCEPT ![f] = Idle]
  /\ UNCHANGED <<clock, config, hostjob, poller, waiting, lost, disturbed>>

-----------------------------------------------------------------------------
\* Requests of agents, from the workspace source.

MayActOn(source, row) == Stored(row) /\ (source = Admin \/ row.folder = source)

HandleScheduleTask(source, target, kind) ==
  /\ Disturbs /\ FreshIds(rows) # {}
  /\ source = Admin \/ target = source
  /\ config[target] # "absent"
  /\ rows' = [rows EXCEPT ![FreshId(rows)] =
                NewRow(target, kind, "own", IF kind = "once" THEN clock ELSE ComputeNextRun(kind))]
  /\ UNCHANGED <<clock, config, hostjob, memory, lost>>

HandlePauseTask(source, i) ==
  /\ Disturbs /\ MayActOn(source, rows[i])
  /\ rows' = [rows EXCEPT ![i].status = "paused"]
  /\ UNCHANGED <<clock, config, hostjob, memory, lost>>

\* A task that has run and has no next run becomes active without one.
HandleResumeTask(source, i) ==
  /\ Disturbs /\ MayActOn(source, rows[i])
  /\ rows' = [rows EXCEPT ![i].status = "active"]
  /\ lost' = IF rows[i].next = Never THEN lost \cup {i} ELSE lost
  /\ UNCHANGED <<clock, config, hostjob, memory>>

HandleCancelTask(source, i) ==
  /\ Disturbs /\ MayActOn(source, rows[i])
  /\ rows' = [rows EXCEPT ![i].status = "gone"]
  /\ UNCHANGED <<clock, config, hostjob, memory, lost>>

\* Host jobs belong to the admin workspace.
HostJobAction(source, status) ==
  /\ Disturbs /\ source = Admin /\ Stored(hostjob)
  /\ hostjob' = [hostjob EXCEPT !.status = status]
  /\ UNCHANGED <<clock, config, rows, memory, lost>>

AgentRequest ==
  \E s \in Folders :
    \/ \E t \in Folders, k \in Kinds : HandleScheduleTask(s, t, k)
    \/ \E i \in Ids : HandlePauseTask(s, i) \/ HandleResumeTask(s, i) \/ HandleCancelTask(s, i)
    \/ \E st \in {"active", "paused", "gone"} : HostJobAction(s, st)

PollStep == PollDatabaseHostJobs \/ HostJobEnds \/ GetDueTasks \/ Recheck
TaskStep(f) == TaskTaken(f) \/ RunScheduledAgent(f) \/ GroupMissing(f) \/ TaskRunEnds(f)

SchedulerNext == Tick \/ SchedulerCrash \/ PollStep \/ PollFails \/ AgentRequest
                 \/ \E f \in Folders : TaskStep(f)

\* The loop is polled again and again, commands have a timeout, and an agent
\* that says nothing is closed by the idle timer of its run.
SchedulerFairness == WF_scheduler_vars(PollStep) /\ \A f \in Folders : WF_scheduler_vars(TaskStep(f))

SchedulerSpec == SchedulerInit /\ [][SchedulerNext]_scheduler_vars /\ SchedulerFairness

-----------------------------------------------------------------------------
\* Nothing stalls silently: an active task has a next run, unless it ran or is
\* running for the only time, its run was lost with the process or the
\* workspace, or somebody resumed it after its run.
NoSilentStall ==
  \A i \in Ids : rows[i].status = "active" /\ rows[i].next = Never =>
    i \in lost \/ \E f \in Folders : running[f].id = i /\ running[f].pc = "agent"

\* reconcile_workspaces promises to be idempotent: a second run changes nothing
\* more, and the periodic workspaces are those with an active task.
ReconcileIdempotent ==
  LET once == Reconciled(rows, config)
      needed == {f \in Folders : Periodic(config, f) /\ ActiveOf(rows, f) = {}}
  IN  Cardinality(needed) <= Cardinality(FreshIds(rows)) =>
        /\ Reconciled(once, config) = once
        /\ \A f \in Folders : ActiveOf(once, f) # {} <=> Periodic(config, f)

\* The rows stay usable whatever the order of runs, pauses, cancellations,
\* crashes and restarts with another config.toml.
SchedulerSound == NoSilentStall /\ ReconcileIdempotent

\* A pause that races a run, a poll or a restart holds until somebody resumes
\* the task, and a cancelled task stays away.
PauseHolds ==
  [][\A i \in Ids :
       /\ rows[i].status = "paused" /\ rows'[i].status = "active" => \E s \in Folders : HandleResumeTask(s, i)
       /\ rows[i].status = "gone" => rows'[i].status = "gone"
       /\ hostjob.status = "paused" /\ hostjob'.status = "active" => HostJobAction(Admin, "active")
       /\ hostjob.status = "gone" => hostjob'.status = "gone"]_scheduler_vars

\* A due task is run, unless it is paused or cancelled: its next run moves on.
DueTasksRun == (\A i \in Ids : Due(rows[i]) ~> ~Due(rows[i])) /\ (Due(hostjob) ~> ~Due(hostjob))
=============================================================================

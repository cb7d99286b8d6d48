----------------------------- MODULE GroupQueue -----------------------------
(***************************************************************************)
(* The per-group concurrency queue of the host orchestrator                *)
(* (src/pynchy/host/orchestrator/concurrency.py).                          *)
(*                                                                         *)
(* All methods run on one asyncio event loop, so the code between two      *)
(* awaits is atomic.  The state the code sets eagerly (active,             *)
(* _active_count) and the coroutines it schedules are kept apart: runs[g]  *)
(* holds the work items of the _run_for_group / _run_task coroutines of g  *)
(* that have been created and have not finished, so that "one container    *)
(* run per group" is a statement about coroutines and not about a flag.    *)
(*                                                                         *)
(* _drain_waiting is a loop without an await.  Each iteration is one       *)
(* DrainWaiting step; while the loop condition holds (draining), every     *)
(* other action is disabled, so the loop is atomic for the event loop.     *)
(***************************************************************************)
EXTENDS Naturals, Sequences, FiniteSets

CONSTANTS
  Groups,          \* group JIDs
  Tasks,           \* scheduled task ids
  MaxConcurrent,   \* settings.container.max_concurrent, clamped to >= 1
  MaxRetries,      \* settings.queue.max_retries
  MaxTimers        \* bound of the model: sleeping _retry coroutines per group

ASSUME GroupsFinite == IsFiniteSet(Groups)
ASSUME MaxConcurrentPositive == MaxConcurrent \in Nat \ {0}
ASSUME MaxRetriesNat == MaxRetries \in Nat
ASSUME MaxTimersNat == MaxTimers \in Nat

\* The reason a run was started for: a message check, or one scheduled task.
Messages == [kind |-> "messages"]
TaskRun(t) == [kind |-> "task", id |-> t]
Work == {Messages} \cup {TaskRun(t) : t \in Tasks}

VARIABLES
  active,            \* GroupState.active
  active_is_task,    \* GroupState.active_is_task
  pending_messages,  \* GroupState.pending_messages
  pending_tasks,     \* GroupState.pending_tasks, a FIFO of task ids
  retry_count,       \* GroupState.retry_count
  group_folder,      \* TRUE iff GroupState.group_folder is set (a container is registered)
  active_count,      \* GroupQueue._active_count
  waiting_groups,    \* GroupQueue._waiting_groups
  shutting_down,     \* GroupQueue._shutting_down
  runs,              \* live run coroutines of each group, by work item
  timers,            \* sleeping _retry coroutines of each group
  ipc_input,         \* message files in the group's IPC input dir: kind of the run they were piped to
  draining           \* inside the loop of _drain_waiting

stateVars == <<active, active_is_task, pending_messages, pending_tasks,
               active_count, waiting_groups, runs, draining>>
vars == <<active, active_is_task, pending_messages, pending_tasks, retry_count,
          group_folder, active_count, waiting_groups, shutting_down, runs,
          timers, ipc_input, draining>>

TypeOK ==
  /\ active \in [Groups -> BOOLEAN]
  /\ active_is_task \in [Groups -> BOOLEAN]
  /\ pending_messages \in [Groups -> BOOLEAN]
  /\ pending_tasks \in [Groups -> Seq(Tasks)]
  /\ retry_count \in [Groups -> 0..MaxRetries]
  /\ group_folder \in [Groups -> BOOLEAN]
  /\ active_count \in Nat
  /\ waiting_groups \in Seq(Groups)
  /\ shutting_down \in BOOLEAN
  /\ runs \in [Groups -> Seq(Work)]
  /\ timers \in [Groups -> 0..MaxTimers]
  /\ ipc_input \in [Groups -> SUBSET {"messages", "task"}]
  /\ draining \in BOOLEAN

Init ==
  /\ active = [g \in Groups |-> FALSE]
  /\ active_is_task = [g \in Groups |-> FALSE]
  /\ pending_messages = [g \in Groups |-> FALSE]
  /\ pending_tasks = [g \in Groups |-> <<>>]
  /\ retry_count = [g \in Groups |-> 0]
  /\ group_folder = [g \in Groups |-> FALSE]
  /\ active_count = 0
  /\ waiting_groups = <<>>
  /\ shutting_down = FALSE
  /\ runs = [g \in Groups |-> <<>>]
  /\ timers = [g \in Groups |-> 0]
  /\ ipc_input = [g \in Groups |-> {}]
  /\ draining = FALSE

-----------------------------------------------------------------------------
(* Helpers shared by the operations.                                       *)

\* Seeded fault: off by one in the limit test.
AtLimitOffByOne == active_count > MaxConcurrent

AtLimit == active_count >= MaxConcurrent

Queued(q, x) == \E i \in 1..Len(q) : q[i] = x

\* Seeded fault: work is marked pending but the group does not join the queue.
ForgetWaiting(g) == UNCHANGED waiting_groups

\* A group joins the waiting queue at most once.
AppendWaiting(g) ==
  waiting_groups' = IF Queued(waiting_groups, g) THEN waiting_groups
                    ELSE Append(waiting_groups, g)

HasPending(g) == pending_messages[g] \/ pending_tasks[g] # <<>>

\* The run list without its i-th coroutine.
WithoutRun(rs, i) == [j \in 1..(Len(rs) - 1) |-> IF j < i THEN rs[j] ELSE rs[j + 1]]

\* Seeded fault: active is left to the coroutine, so a second synchronous call
\* sees an idle group.
MarkActiveLazily(g, n) == active_count' = n + 1 /\ UNCHANGED active

\* Seeded fault: the slot is taken without being counted.
MarkActiveUncounted(g, n) ==
  /\ active' = [active EXCEPT ![g] = TRUE]
  /\ active_count' = n

\* Every start marks the group active and takes a slot before the coroutine runs.
MarkActive(g, n) ==
  /\ active' = [active EXCEPT ![g] = TRUE]
  /\ active_count' = n + 1

\* Seeded fault: queued tasks are drained before messages.
TasksFirst(g) == pending_messages[g] /\ pending_tasks[g] = <<>>

\* Messages are drained before tasks.
MessagesNext(g) == pending_messages[g]

\* _start_next_pending for a group with pending work.  rs and n are the live
\* runs of g and the active count at the time of the call.
StartNextPending(g, rs, n) ==
  /\ MarkActive(g, n)
  /\ \/ /\ MessagesNext(g)
        /\ active_is_task' = [active_is_task EXCEPT ![g] = FALSE]
        /\ pending_messages' = [pending_messages EXCEPT ![g] = FALSE]
        /\ runs' = [runs EXCEPT ![g] = Append(rs, Messages)]
        /\ UNCHANGED pending_tasks
     \/ /\ ~MessagesNext(g)
        /\ pending_tasks[g] # <<>>
        /\ active_is_task' = [active_is_task EXCEPT ![g] = TRUE]
        /\ pending_tasks' = [pending_tasks EXCEPT ![g] = Tail(@)]
        /\ runs' = [runs EXCEPT ![g] = Append(rs, TaskRun(Head(pending_tasks[g])))]
        /\ UNCHANGED pending_messages

\* The loop condition of _drain_waiting.
KeepDraining(waiting, n) == waiting # <<>> /\ n < MaxConcurrent

\* _drain_group returns at once when the queue is shutting down.
MayDrain == ~shutting_down

\* The finally block of a run: release() frees the slot, then _drain_group
\* starts the group's own next item or enters the _drain_waiting loop.
ReleaseAndDrain(g, i) ==
  LET rs == WithoutRun(runs[g], i)
      n  == active_count - 1
  IN /\ group_folder' = [group_folder EXCEPT ![g] = FALSE]
     /\ UNCHANGED waiting_groups
     /\ \/ /\ MayDrain /\ HasPending(g)
           /\ StartNextPending(g, rs, n)
           /\ UNCHANGED draining
        \/ /\ ~MayDrain \/ ~HasPending(g)
           /\ active' = [active EXCEPT ![g] = FALSE]
           /\ active_is_task' = [active_is_task EXCEPT ![g] = FALSE]
           /\ runs' = [runs EXCEPT ![g] = rs]
           /\ active_count' = n
           /\ draining' = (MayDrain /\ KeepDraining(waiting_groups, n))
           /\ UNCHANGED <<pending_messages, pending_tasks>>

\* _schedule_retry: back off and try again, or give up after MaxRetries and
\* leave the messages to the next incoming one.
ScheduleRetry(g) ==
  IF retry_count[g] + 1 > MaxRetries
  THEN /\ retry_count' = [retry_count EXCEPT ![g] = 0]
       /\ UNCHANGED timers
  ELSE /\ retry_count' = [retry_count EXCEPT ![g] = @ + 1]
       /\ timers[g] < MaxTimers
       /\ timers' = [timers EXCEPT ![g] = @ + 1]

\* The body of enqueue_message_check.
MessageCheck(g) ==
  /\ UNCHANGED <<active_is_task, pending_tasks, draining>>
  /\ \/ /\ shutting_down
        /\ UNCHANGED <<active, pending_messages, active_count, waiting_groups, runs>>
     \/ /\ ~shutting_down /\ active[g]
        /\ pending_messages' = [pending_messages EXCEPT ![g] = TRUE]
        /\ UNCHANGED <<active, active_count, waiting_groups, runs>>
     \/ /\ ~shutting_down /\ ~active[g] /\ AtLimit
        /\ pending_messages' = [pending_messages EXCEPT ![g] = TRUE]
        /\ AppendWaiting(g)
        /\ UNCHANGED <<active, active_count, runs>>
     \/ /\ ~shutting_down /\ ~active[g] /\ ~AtLimit
        /\ MarkActive(g, active_count)
        /\ pending_messages' = [pending_messages EXCEPT ![g] = FALSE]
        /\ runs' = [runs EXCEPT ![g] = Append(@, Messages)]
        /\ UNCHANGED waiting_groups

-----------------------------------------------------------------------------
(* The operations.                                                         *)

\* enqueue_message_check, called by the routing loop, recovery and IPC handlers.
EnqueueMessageCheck(g) ==
  /\ ~draining
  /\ MessageCheck(g)
  /\ UNCHANGED <<retry_count, group_folder, shutting_down, timers, ipc_input>>

\* enqueue_task, called by the scheduler: deduplicated against the queued
\* tasks of the group (not against the running one).
EnqueueTask(g, t) ==
  /\ ~draining
  /\ ~shutting_down
  /\ ~Queued(pending_tasks[g], t)
  /\ \/ /\ active[g]
        /\ pending_tasks' = [pending_tasks EXCEPT ![g] = Append(@, t)]
        /\ UNCHANGED <<active, active_is_task, active_count, waiting_groups, runs>>
     \/ /\ ~active[g] /\ AtLimit
        /\ pending_tasks' = [pending_tasks EXCEPT ![g] = Append(@, t)]
        /\ AppendWaiting(g)
        /\ UNCHANGED <<active, active_is_task, active_count, runs>>
     \/ /\ ~active[g] /\ ~AtLimit
        /\ MarkActive(g, active_count)
        /\ active_is_task' = [active_is_task EXCEPT ![g] = TRUE]
        /\ runs' = [runs EXCEPT ![g] = Append(@, TaskRun(t))]
        /\ UNCHANGED <<pending_tasks, waiting_groups>>
  /\ UNCHANGED <<pending_messages, retry_count, group_folder, shutting_down,
                 timers, ipc_input, draining>>

\* register_process, awaited by the run once its container is up.
RegisterProcess(g) ==
  /\ ~draining
  /\ runs[g] # <<>>
  /\ group_folder' = [group_folder EXCEPT ![g] = TRUE]
  /\ UNCHANGED <<stateVars, retry_count, shutting_down, timers, ipc_input>>

\* send_message: pipe a follow-up to the active container.  The early return
\* (no active container, or none registered) changes nothing.
SendMessage(g) ==
  /\ ~draining
  /\ active[g] /\ group_folder[g]
  /\ ipc_input' = [ipc_input EXCEPT ![g] =
                     @ \cup {IF active_is_task[g] THEN "task" ELSE "messages"}]
  /\ UNCHANGED <<stateVars, retry_count, group_folder, shutting_down, timers>>

\* The container of g consumes its input files (the agent side of the IPC).
ContainerReadsInput(g) ==
  /\ ~draining
  /\ ipc_input[g] # {}
  /\ ipc_input' = [ipc_input EXCEPT ![g] = {}]
  /\ UNCHANGED <<stateVars, retry_count, group_folder, shutting_down, timers>>

\* clear_pending_tasks: an interrupting message or a teardown drops the queue.
\* The group stays in waiting_groups.
ClearPendingTasks(g) ==
  /\ ~draining
  /\ pending_tasks' = [pending_tasks EXCEPT ![g] = <<>>]
  /\ UNCHANGED <<active, active_is_task, pending_messages, retry_count, group_folder,
                 active_count, waiting_groups, shutting_down, runs, timers, ipc_input,
                 draining>>

\* How _process_messages_fn ends.
Outcome == {"success", "failure", "exception", "policy_denied"}

\* _run_for_group finishes: bookkeeping for the outcome, then release and drain.
FinishMessages(g, i, outcome) ==
  /\ ~draining
  /\ i \in 1..Len(runs[g])
  /\ runs[g][i] = Messages
  /\ \/ /\ outcome = "success"
        /\ retry_count' = [retry_count EXCEPT ![g] = 0]
        /\ UNCHANGED timers
     \/ /\ outcome \in {"failure", "exception"}
        /\ ScheduleRetry(g)
     \/ /\ outcome = "policy_denied"
        /\ UNCHANGED <<retry_count, timers>>
  /\ ReleaseAndDrain(g, i)
  /\ UNCHANGED <<shutting_down, ipc_input>>

\* clean_ipc_input_dir on the folder of the run, a no-op when none was registered.
CleanInput(g) ==
  ipc_input' = IF group_folder[g] THEN [ipc_input EXCEPT ![g] = {}] ELSE ipc_input

\* _run_task finishes, normally or with an exception: stale input files of the
\* dead task container are removed before the drain may start another container.
FinishTask(g, i) ==
  /\ ~draining
  /\ i \in 1..Len(runs[g])
  /\ runs[g][i] # Messages
  /\ CleanInput(g)
  /\ ReleaseAndDrain(g, i)
  /\ UNCHANGED <<retry_count, shutting_down, timers>>

\* A sleeping _retry wakes up and re-enqueues the message check.
RetryFires(g) ==
  /\ ~draining
  /\ timers[g] > 0
  /\ timers' = [timers EXCEPT ![g] = @ - 1]
  /\ MessageCheck(g)
  /\ UNCHANGED <<retry_count, group_folder, shutting_down, ipc_input>>

\* One iteration of the _drain_waiting loop.
DrainWaiting ==
  /\ draining
  /\ LET g == Head(waiting_groups) IN
       \/ /\ HasPending(g)
          /\ StartNextPending(g, runs[g], active_count)
       \/ /\ ~HasPending(g)
          /\ UNCHANGED <<active, active_is_task, pending_messages, pending_tasks,
                         runs, active_count>>
  /\ waiting_groups' = Tail(waiting_groups)
  /\ draining' = KeepDraining(waiting_groups', active_count')
  /\ UNCHANGED <<retry_count, group_folder, shutting_down, timers, ipc_input>>

\* shutdown: no new run starts from here on; live runs end on their own when
\* their containers are stopped.
Shutdown ==
  /\ ~draining
  /\ ~shutting_down
  /\ shutting_down' = TRUE
  /\ UNCHANGED <<stateVars, retry_count, group_folder, timers, ipc_input>>

Next ==
  \/ \E g \in Groups :
       \/ EnqueueMessageCheck(g)
       \/ \E t \in Tasks : EnqueueTask(g, t)
       \/ RegisterProcess(g)
       \/ SendMessage(g)
       \/ ContainerReadsInput(g)
       \/ ClearPendingTasks(g)
       \/ \E i \in 1..Len(runs[g]), outcome \in Outcome : FinishMessages(g, i, outcome)
       \/ \E i \in 1..Len(runs[g]) : FinishTask(g, i)
       \/ RetryFires(g)
  \/ DrainWaiting
  \/ Shutdown

Spec == Init /\ [][Next]_vars


\* The event loop keeps running: a drain loop ends, a container run ends (every
\* query has a timeout and a stopped container ends its run) and a sleeping retry
\* wakes up.  Nothing is assumed about arrivals.
Fairness ==
  /\ WF_vars(DrainWaiting)
  /\ \A g \in Groups :
       /\ WF_vars(\E i \in 1..Len(runs[g]), outcome \in Outcome : FinishMessages(g, i, outcome))
       /\ WF_vars(\E i \in 1..Len(runs[g]) : FinishTask(g, i))
       /\ WF_vars(RetryFires(g))

FairSpec == Spec /\ Fairness

-----------------------------------------------------------------------------
(* Properties.                                                             *)

\* Container runs are serialized within a group: the eagerly set active flag and
\* the live run coroutines never disagree, so no group ever has two of them, and
\* the kind of the run is the one is_active_task reports.
OneRunPerGroup ==
  \A g \in Groups :
    /\ Len(runs[g]) = (IF active[g] THEN 1 ELSE 0)
    /\ active_is_task[g] <=> (active[g] /\ runs[g] # <<Messages>>)

ActiveGroups == {g \in Groups : active[g]}

\* The global limit: _active_count counts exactly the groups that hold a slot, and
\* never exceeds max_concurrent, across every path that starts or releases a run.
ConcurrencyLimit ==
  /\ active_count = Cardinality(ActiveGroups)
  /\ active_count <= MaxConcurrent

\* No wakeup is lost: pending work of a group is always owed to somebody, either
\* the group's live run (which drains it on release) or the waiting queue.
NoLostWork ==
  \A g \in Groups :
    HasPending(g) /\ ~shutting_down => active[g] \/ Queued(waiting_groups, g)

\* No group waits while a slot is free, once the drain loop has run.
WorkConserving ==
  waiting_groups # <<>> /\ ~draining /\ ~shutting_down => active_count = MaxConcurrent

\* A follow-up piped to a task container is gone by the time another run of the
\* group starts: _run_task cleans the input dir before it drains.
NoStaleTaskInput ==
  \A g \in Groups : "task" \in ipc_input[g] => active[g] /\ active_is_task[g]

\* Messages are started before tasks: no step starts a task of a group whose
\* messages are pending, not even the direct start in enqueue_task.
MessagesFirst ==
  \A g \in Groups :
    runs'[g] # runs[g] /\ runs'[g] # <<>> /\ pending_messages[g] => runs'[g] = <<Messages>>

MessagesBeforeTasks == [][MessagesFirst]_vars

\* Nobody overtakes the waiting queue: an idle group that gets a slot while
\* others wait is the head of the queue.
HeadStarts ==
  \A g \in Groups :
    ~active[g] /\ active'[g] /\ waiting_groups # <<>> => g = Head(waiting_groups)

NoBarging == [][HeadStarts]_vars

\* After shutdown() no run is started by a drain, a retry or an enqueue.
NothingStarts == \A g \in Groups : active'[g] => runs'[g] = runs[g]

NoStartAfterShutdown == [][shutting_down => NothingStarts]_vars

\* The runs: exclusive, counted, and rid of input that was meant for a task.
RunsSound == OneRunPerGroup /\ ConcurrencyLimit /\ NoStaleTaskInput

\* Accepted work: somebody owes it a run, and nobody waits for a slot that is free.
WorkIsOwed == NoLostWork /\ WorkConserving

\* The order of starts: messages before tasks, the head of the queue before others,
\* and none after shutdown().
StartOrder == MessagesBeforeTasks /\ NoBarging /\ NoStartAfterShutdown

\* A message check deferred behind a live run is started by that run's drain,
\* whatever else arrives for the group or for the others.
DeferredMessagesStart ==
  \A g \in Groups :
    active[g] /\ pending_messages[g] ~> ~pending_messages[g] \/ shutting_down

\* When arrivals stop, everything queued is eventually started: the waiting queue
\* and all pending work drain, retries included.
ArrivalStep == \E g \in Groups : EnqueueMessageCheck(g) \/ \E t \in Tasks : EnqueueTask(g, t)

QueueDrains ==
  <>[][~ArrivalStep]_vars
    => <>[](shutting_down \/ (waiting_groups = <<>> /\ \A g \in Groups : ~HasPending(g)))

\* Deferred and waiting work is started in the end.
QueueLives == DeferredMessagesStart /\ QueueDrains

\* The strengthening of the invariants above that is inductive.  A waiting group is
\* idle and waits once, a registered folder belongs to a live run and a task's input was
\* written through it (so the run's cleanup will find it), and the drain loop is entered only with a free slot, a waiting group and no shutdown.
Unique(q) == \A i, j \in 1..Len(q) : q[i] = q[j] => i = j

WaitingIsIdle ==
  /\ \A g \in Groups : Queued(waiting_groups, g) => ~active[g]
  /\ Unique(waiting_groups)

DrainLoopEntered ==
  draining => waiting_groups # <<>> /\ active_count < MaxConcurrent /\ ~shutting_down

FolderOfLiveRun ==
  \A g \in Groups :
    /\ group_folder[g] => active[g]
    /\ "task" \in ipc_input[g] => group_folder[g]

IInv ==
  /\ TypeOK
  /\ OneRunPerGroup
  /\ ConcurrencyLimit
  /\ NoLostWork
  /\ WorkConserving
  /\ NoStaleTaskInput
  /\ WaitingIsIdle
  /\ DrainLoopEntered
  /\ FolderOfLiveRun

-----------------------------------------------------------------------------
(* The queue implements the ledger of accepted work.                       *)

IsOwed(x) ==
  \/ x[2] = Messages /\ pending_messages[x[1]]
  \/ \E i \in 1..Len(pending_tasks[x[1]]) : x[2] = TaskRun(pending_tasks[x[1]][i])

Owed == {x \in Groups \X Work : IsOwed(x)}

Running == UNION {{<<g, runs[g][i]>> : i \in 1..Len(runs[g])} : g \in Groups}

Ledger == INSTANCE WorkLedger WITH
            Droppable <- {TaskRun(t) : t \in Tasks},
            Slots <- MaxConcurrent,
            owed <- Owed,
            running <- Running,
            closed <- shutting_down

\* Work accepted by enqueue_message_check and enqueue_task stays owed until its run
\* starts (only clear_pending_tasks drops any), runs are exclusive within a group and
\* limited globally, and none begins after shutdown: the abstract ledger.
ImplementsLedger == Ledger!LSpec

=============================================================================

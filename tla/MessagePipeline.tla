--------------------------- MODULE MessagePipeline ---------------------------
(***************************************************************************)
(* How stored chat messages reach an agent run and when they count as      *)
(* processed: the polling loop and router (messaging/inbound.py), the run  *)
(* itself (messaging/pipeline.py), the commands that tear a group down     *)
(* (session_handler.py), recovery at startup (startup_handler.py) and the  *)
(* inbound half of the reconciler (messaging/reconciler.py), composed with *)
(* the queue of module GroupQueue they all enqueue into.                   *)
(*                                                                         *)
(* A message is the index of its posting, which is also its timestamp.     *)
(* The router and every run are coroutines: each step below is the code    *)
(* between two awaits.  A save of the router state is one transaction; it  *)
(* may fail (then the caller sees an exception) and is the only thing of   *)
(* the cursors a crash leaves behind.                                      *)
(***************************************************************************)
EXTENDS GroupQueue, FiniteSetsExt

CONSTANTS
  Kinds,         \* the kinds of messages that are posted in this instance
  MentionGroups, \* non-admin groups that need a trigger word
  MaxMessages,   \* bound of the model: messages ever posted
  MaxCrashes,    \* bound of the model: crashes of the host
  SaveFailures,  \* whether a save of the router state may fail
  LateArrivals,  \* whether a channel may drop a message for the reconciler to find
  Handoffs       \* whether agents reset their context and leave a handoff prompt

\* text wakes the agent; chatter lacks the trigger word; btw and todo are prefixes;
\* command is approve, deny, pending or !cmd; reset stands for context reset and end
\* session; notice is a system notice, stored with is_from_me = 1.
AllKinds == {"text", "chatter", "btw", "todo", "command", "reset", "redeploy", "notice"}

ASSUME KindsKnown == Kinds \subseteq AllKinds
ASSUME MentionGroupsKnown == MentionGroups \subseteq Groups
ASSUME PipelineBoundsNat == MaxMessages \in Nat /\ MaxCrashes \in Nat

VARIABLES
  posted,                \* every message ever posted, in timestamp order
  store,                 \* the messages in the database
  last_timestamp,        \* PynchyApp.last_timestamp, the "seen" cursor
  last_agent_timestamp,  \* PynchyApp.last_agent_timestamp, the processed cursors
  dispatched_through,    \* PynchyApp._dispatched_through; 0 for no entry
  saved,                 \* router_state in the database
  reset_prompt,          \* whether reset_prompt.json exists
  router,                \* the polling loop: pc, messages left to route, all_pending
  run,                   \* the message run of each group
  booting,               \* groups recover_pending_messages has still to visit
  crashes,
  done,                  \* history: messages a completed run or command took care of
  piped,                 \* history: messages written into a container's input dir
  gave_up,               \* history: messages left to "the next incoming message"
  executed               \* history: how often each command was executed

cursors == <<last_timestamp, last_agent_timestamp, dispatched_through, saved>>
history == <<done, piped, gave_up, executed>>
messages == <<posted, store>>
pvars == <<messages, cursors, reset_prompt, router, run, booting, crashes, history>>
allvars == <<vars, pvars>>

Ids == 1..MaxMessages
IdleRouter == [pc |-> "idle", batch |-> {}, pending |-> {}]
IdleRun == [pc |-> "idle", missed |-> {}, sent |-> FALSE, outcome |-> "success", previous |-> 0]
Zero == [g \in Groups |-> 0]

PTypeOK ==
  /\ posted \in Seq([chat : Groups, kind : Kinds]) /\ Len(posted) <= MaxMessages
  /\ store \subseteq 1..Len(posted)
  /\ last_timestamp \in 0..MaxMessages
  /\ last_agent_timestamp \in [Groups -> 0..MaxMessages]
  /\ dispatched_through \in [Groups -> 0..MaxMessages]
  /\ saved \in [seen : 0..MaxMessages, agent : [Groups -> 0..MaxMessages]]
  /\ reset_prompt \in [Groups -> BOOLEAN]
  /\ router \in [pc : {"idle", "route", "decide", "command", "enqueue", "mark", "reconciled"},
                 batch : SUBSET Ids, pending : SUBSET Ids]
  /\ run \in [Groups -> [pc : {"idle", "handoff", "fetch", "fetched", "command", "agent",
                               "finalize", "return"},
                         missed : SUBSET Ids, sent : BOOLEAN,
                         outcome : {"success", "failure", "exception"},
                         previous : 0..MaxMessages]]
  /\ \A g \in Groups : run[g].pc # "idle" => runs[g] = <<Messages>>
  /\ booting \subseteq Groups
  /\ crashes \in 0..MaxCrashes
  /\ done \subseteq store /\ piped \subseteq store /\ gave_up \subseteq store
  /\ executed \in [Ids -> Nat]

PInit ==
  /\ Init
  /\ posted = <<>> /\ store = {}
  /\ last_timestamp = 0 /\ last_agent_timestamp = Zero /\ dispatched_through = Zero
  /\ saved = [seen |-> 0, agent |-> Zero]
  /\ reset_prompt = [g \in Groups |-> FALSE]
  /\ router = IdleRouter
  /\ run = [g \in Groups |-> IdleRun]
  /\ booting = {}
  /\ crashes = 0
  /\ done = {} /\ piped = {} /\ gave_up = {}
  /\ executed = [i \in Ids |-> 0]

-----------------------------------------------------------------------------
(* Helpers.                                                                *)

Chat(i) == posted[i].chat
Kind(i) == posted[i].kind

\* is_from_me = 0
Visible(i) == Kind(i) # "notice"

\* get_messages_since
MessagesSince(g, t) == {i \in store : i > t /\ Chat(i) = g /\ Visible(i)}

\* get_new_messages, over all registered chats
NewMessages(t) == {i \in store : i > t /\ Visible(i)}

Magic(k) == k \in {"reset", "redeploy"}

\* In a mention group everything but chatter and magic commands has the trigger word.
Wakes(i) == Chat(i) \notin MentionGroups \/ Kind(i) \notin {"chatter", "reset", "redeploy"}

HasTrigger(ids) == \E i \in ids : Wakes(i)

SaveOutcomes == IF SaveFailures THEN BOOLEAN ELSE {TRUE}

\* save_state: both cursors in one transaction, or an exception and no change.
SaveState(ok) ==
  saved' = IF ok THEN [seen |-> last_timestamp', agent |-> last_agent_timestamp'] ELSE saved

\* Seeded fault: the router reads from the seen cursor, which has just moved.
SeenCursor(g) == last_timestamp

\* The router reads from the further of the two cursors.
RouteCursor(g) == Max({last_agent_timestamp[g], dispatched_through[g]})

-----------------------------------------------------------------------------
(* Messages arrive.                                                        *)

\* on_inbound / ingest_user_message stores a message, or the channel drops it.
Post(g, k) ==
  /\ Len(posted) < MaxMessages
  /\ posted' = Append(posted, [chat |-> g, kind |-> k])
  /\ \/ store' = store \cup {Len(posted) + 1}
     \/ LateArrivals /\ UNCHANGED store
  /\ UNCHANGED <<vars, cursors, reset_prompt, router, run, booting, crashes, history>>

\* The reconciler finds a message the channel dropped and ingests it under its own
\* timestamp (after an existence test), oldest first, then enqueues a message check.  It
\* runs at boot before the recovery, and between two iterations of the polling loop.
ReconcileIngest(i) ==
  /\ router.pc = "idle" /\ booting \in {{}, Groups}
  /\ i \notin store /\ \A j \in 1..(i - 1) : Chat(j) = Chat(i) => j \in store
  /\ store' = store \cup {i}
  /\ router' = [pc |-> "reconciled", batch |-> {i}, pending |-> {}]
  /\ UNCHANGED <<vars, posted, cursors, reset_prompt, run, booting, crashes, history>>

ReconcileEnqueue ==
  /\ router.pc = "reconciled"
  /\ EnqueueMessageCheck(Chat(Min(router.batch)))
  /\ router' = IdleRouter
  /\ UNCHANGED <<messages, cursors, reset_prompt, run, booting, crashes, history>>

\* recover_pending_messages visits one group at startup.
Recover(g) ==
  /\ router.pc = "idle" /\ g \in booting
  /\ IF MessagesSince(g, last_agent_timestamp[g]) # {} THEN EnqueueMessageCheck(g)
                                                        ELSE UNCHANGED vars
  /\ booting' = booting \ {g}
  /\ UNCHANGED <<messages, cursors, reset_prompt, router, run, crashes, history>>

-----------------------------------------------------------------------------
(* Commands, intercepted by the router or by a run.                        *)

\* Execution of the command message i, counted.
Execute(i) == executed' = [executed EXCEPT ![i] = @ + 1]

\* The cursor moves to the command itself and is saved.
CursorTo(g, i, ok) ==
  /\ last_agent_timestamp' = [last_agent_timestamp EXCEPT ![g] = i]
  /\ UNCHANGED <<last_timestamp, dispatched_through>>
  /\ SaveState(ok)
  /\ done' = done \cup {i}

\* Context reset and end session drop the queued tasks and stop the container
\* (_teardown_group); a redeploy saves the cursor before the process may die.
InterceptMagic(g, i, ok) ==
  /\ Magic(Kind(i))
  /\ IF Kind(i) = "reset" THEN ClearPendingTasks(g) ELSE UNCHANGED vars
  /\ CursorTo(g, i, ok)
  /\ IF Kind(i) = "reset" \/ ok THEN Execute(i) ELSE UNCHANGED executed
  /\ UNCHANGED piped

-----------------------------------------------------------------------------
(* The polling loop and the router.                                        *)

Current == Chat(Min(router.batch))

\* The next chat of this iteration, or the end of it.
RouteDone ==
  LET rest == {i \in router.batch : Chat(i) # Current}
  IN router' = [pc |-> IF rest = {} THEN "idle" ELSE "route", batch |-> rest, pending |-> {}]

\* An exception ends the whole iteration; the rest of the batch is left to the next
\* message of its group.
RouteNext(ok) ==
  /\ IF ok THEN RouteDone ELSE router' = IdleRouter
  /\ gave_up' = IF ok THEN gave_up ELSE gave_up \cup router.batch

\* start_message_loop reads the new messages, advances the seen cursor and saves it.
Poll(ok) ==
  /\ router.pc = "idle" /\ booting = {} /\ ~shutting_down
  /\ NewMessages(last_timestamp) # {}
  /\ last_timestamp' = Max(NewMessages(last_timestamp))
  /\ UNCHANGED <<last_agent_timestamp, dispatched_through>>
  /\ SaveState(ok)
  /\ router' = IF ok THEN [pc |-> "route", batch |-> NewMessages(last_timestamp), pending |-> {}]
               ELSE IdleRouter
  /\ gave_up' = IF ok THEN gave_up ELSE gave_up \cup NewMessages(last_timestamp)
  /\ UNCHANGED <<vars, messages, reset_prompt, run, booting, crashes, done, piped, executed>>

\* _route_incoming_group reads what is pending beyond both cursors.
RouteQuery ==
  LET g == Current
      new == {i \in router.batch : Chat(i) = g}
      triggered == HasTrigger(new) \/ Magic(Kind(Max(new)))
      pending == MessagesSince(g, RouteCursor(g))
  IN /\ router.pc = "route"
     /\ IF triggered /\ pending # {}
        THEN router' = [router EXCEPT !.pc = "decide", !.pending = pending]
        ELSE RouteDone
     /\ UNCHANGED <<vars, messages, cursors, reset_prompt, run, booting, crashes, history>>

RouteLast == Max(router.pending)

RouteMagic(ok) ==
  /\ router.pc = "decide"
  /\ InterceptMagic(Current, RouteLast, ok)
  /\ RouteNext(ok)
  /\ UNCHANGED <<messages, reset_prompt, run, booting, crashes>>

\* The other commands run first and move the cursor afterwards.
RouteCommand ==
  /\ router.pc = "decide" /\ Kind(RouteLast) = "command"
  /\ Execute(RouteLast)
  /\ router' = [router EXCEPT !.pc = "command"]
  /\ UNCHANGED <<vars, messages, cursors, reset_prompt, run, booting, crashes,
                 done, piped, gave_up>>

RouteCommandDone(ok) ==
  /\ router.pc = "command"
  /\ CursorTo(Current, RouteLast, ok)
  /\ RouteNext(ok)
  /\ UNCHANGED <<vars, messages, reset_prompt, run, booting, crashes,
                 piped, executed>>

ToAgent == router.pc = "decide" /\ ~Magic(Kind(RouteLast)) /\ Kind(RouteLast) # "command"
ActiveTask(g) == active[g] /\ active_is_task[g]

\* Seeded fault: a message that waits for a task is not marked pending.
LeavePending(g) == UNCHANGED pending_messages

MarkPending(g) ==
  pending_messages' = [pending_messages EXCEPT ![g] = @ \/ ~shutting_down]

\* _handle_message_during_task, without an await in between: a todo is forwarded as a
\* notice, any other message drops the queued tasks and stops the running one; both
\* leave a message check behind the task.
RouteTodoOrInterrupt ==
  LET g == Current IN
  /\ ToAgent /\ ActiveTask(g) /\ Kind(RouteLast) # "btw"
  /\ IF Kind(RouteLast) = "todo"
     THEN /\ ipc_input' = IF group_folder[g] THEN [ipc_input EXCEPT ![g] = @ \cup {"task"}] ELSE ipc_input
          /\ UNCHANGED pending_tasks
     ELSE /\ pending_tasks' = [pending_tasks EXCEPT ![g] = <<>>]
          /\ UNCHANGED ipc_input
  /\ MarkPending(g)
  /\ RouteDone
  /\ UNCHANGED <<active, active_is_task, retry_count, group_folder, active_count, waiting_groups,
                 shutting_down, runs, timers, draining>>
  /\ UNCHANGED <<messages, cursors, reset_prompt, run, booting, crashes, history>>

\* A btw is forwarded, to a task or to a message run, and checked again later.
RouteForward ==
  LET g == Current IN
  /\ ToAgent /\ Kind(RouteLast) = "btw"
  /\ active[g] /\ (active_is_task[g] \/ group_folder[g])
  /\ IF group_folder[g] THEN SendMessage(g) ELSE UNCHANGED vars
  /\ router' = [router EXCEPT !.pc = "enqueue"]
  /\ UNCHANGED <<messages, cursors, reset_prompt, run, booting, crashes, history>>

\* A follow-up is piped to the container of the active message run; the marker moves
\* after the reaction has been awaited.
RoutePipe ==
  LET g == Current IN
  /\ ToAgent /\ ~ActiveTask(g) /\ Kind(RouteLast) # "btw"
  /\ SendMessage(g)
  /\ piped' = piped \cup router.pending
  /\ router' = [router EXCEPT !.pc = "mark"]
  /\ UNCHANGED <<messages, cursors, reset_prompt, run, booting, crashes,
                 done, gave_up, executed>>

RouteMark ==
  /\ router.pc = "mark"
  /\ dispatched_through' = [dispatched_through EXCEPT ![Current] = RouteLast]
  /\ RouteDone
  /\ UNCHANGED <<vars, messages, last_timestamp, last_agent_timestamp, saved, reset_prompt,
                 run, booting, crashes, history>>

\* No container to pipe to: react, then enqueue.
RouteWake ==
  LET g == Current IN
  /\ ToAgent /\ ~ActiveTask(g) /\ ~(active[g] /\ group_folder[g])
  /\ router' = [router EXCEPT !.pc = "enqueue"]
  /\ UNCHANGED <<vars, messages, cursors, reset_prompt, run, booting, crashes, history>>

RouteEnqueue ==
  /\ router.pc = "enqueue"
  /\ EnqueueMessageCheck(Current)
  /\ RouteDone
  /\ UNCHANGED <<messages, cursors, reset_prompt, run, booting, crashes, history>>

RouterStep ==
  \/ \E ok \in SaveOutcomes : Poll(ok) \/ RouteMagic(ok) \/ RouteCommandDone(ok)
  \/ RouteQuery \/ RouteCommand \/ RouteTodoOrInterrupt \/ RouteForward
  \/ RoutePipe \/ RouteMark \/ RouteWake \/ RouteEnqueue

-----------------------------------------------------------------------------
(* A message run: process_group_messages for group g.                      *)

RunStep(g, r) == run' = [run EXCEPT ![g] = r]

\* process_group_messages returns (or raises); _run_for_group takes over.
RunEnds(g, outcome) == RunStep(g, [run[g] EXCEPT !.pc = "return", !.outcome = outcome])

RunOf(g, pc) == runs[g] = <<Messages>> /\ run[g].pc = pc

\* _handle_reset_handoff: the prompt file is consumed, then the agent runs on it.
RunHandoff(g) ==
  /\ RunOf(g, "idle") /\ reset_prompt[g]
  /\ reset_prompt' = [reset_prompt EXCEPT ![g] = FALSE]
  /\ RunStep(g, [run[g] EXCEPT !.pc = "handoff"])
  /\ UNCHANGED <<vars, messages, cursors, router, booting, crashes, history>>

HandoffEnds(g, ok) ==
  /\ RunOf(g, "handoff")
  /\ IF ok THEN RunStep(g, [run[g] EXCEPT !.pc = "fetch"]) ELSE RunEnds(g, "failure")
  /\ UNCHANGED <<vars, messages, cursors, reset_prompt, router, booting, crashes, history>>

\* The messages since the processed cursor; with none, the run is over.
RunFetch(g) ==
  /\ RunOf(g, "fetch") \/ (RunOf(g, "idle") /\ ~reset_prompt[g])
  /\ LET missed == MessagesSince(g, last_agent_timestamp[g]) IN
       IF missed = {} THEN RunEnds(g, "success")
       ELSE RunStep(g, [IdleRun EXCEPT !.pc = "fetched", !.missed = missed])
  /\ UNCHANGED <<vars, messages, cursors, reset_prompt, router, booting, crashes, history>>

RunLast(g) == Max(run[g].missed)

RunMagic(g, ok) ==
  /\ RunOf(g, "fetched")
  /\ InterceptMagic(g, RunLast(g), ok)
  /\ RunEnds(g, IF ok THEN "success" ELSE "exception")
  /\ UNCHANGED <<messages, reset_prompt, router, booting, crashes, gave_up>>

RunCommand(g) ==
  /\ RunOf(g, "fetched") /\ Kind(RunLast(g)) = "command"
  /\ Execute(RunLast(g))
  /\ RunStep(g, [run[g] EXCEPT !.pc = "command"])
  /\ UNCHANGED <<vars, messages, cursors, reset_prompt, router, booting, crashes,
                 done, piped, gave_up>>

RunCommandDone(g, ok) ==
  /\ RunOf(g, "command")
  /\ CursorTo(g, RunLast(g), ok)
  /\ RunEnds(g, IF ok THEN "success" ELSE "exception")
  /\ UNCHANGED <<vars, messages, reset_prompt, router, booting, crashes,
                 piped, gave_up, executed>>

ForAgent(g) ==
  RunOf(g, "fetched") /\ ~Magic(Kind(RunLast(g))) /\ Kind(RunLast(g)) # "command"

\* Messages without a trigger wait for one.
RunSkips(g) ==
  /\ ForAgent(g) /\ ~HasTrigger(run[g].missed)
  /\ RunEnds(g, "success")
  /\ UNCHANGED <<vars, messages, cursors, reset_prompt, router, booting, crashes, history>>

\* The messages are marked dispatched (in memory) and handed to run_agent.
RunAgent(g) ==
  /\ ForAgent(g) /\ HasTrigger(run[g].missed)
  /\ dispatched_through' = [dispatched_through EXCEPT ![g] = RunLast(g)]
  /\ RunStep(g, [run[g] EXCEPT !.pc = "agent", !.previous = last_agent_timestamp[g]])
  /\ UNCHANGED <<vars, messages, last_timestamp, last_agent_timestamp, saved, reset_prompt,
                 router, booting, crashes, history>>

\* The container is up: follow-ups can be piped from here on.  Between the marker of the
\* run and this step lie calls to the database and to the container runtime, so it never
\* overtakes the answer to a query the router has issued.
AgentRegisters(g) ==
  /\ RunOf(g, "agent") \/ active_is_task[g]
  /\ router.pc # "decide"
  /\ RegisterProcess(g)
  /\ UNCHANGED pvars

\* on_output delivered something to the user.
AgentSends(g) ==
  /\ RunOf(g, "agent") /\ ~run[g].sent
  /\ RunStep(g, [run[g] EXCEPT !.sent = TRUE])
  /\ UNCHANGED <<vars, messages, cursors, reset_prompt, router, booting, crashes, history>>

\* run_agent returned, with or without an error.
AgentEnds(g, outcome) ==
  /\ RunOf(g, "agent")
  /\ RunStep(g, [run[g] EXCEPT !.pc = "finalize", !.outcome = outcome])
  /\ UNCHANGED <<vars, messages, cursors, reset_prompt, router, booting, crashes, history>>

\* run_agent raised (its setup is outside of its try block): the marker stays.
AgentRaises(g) ==
  /\ RunOf(g, "agent")
  /\ RunEnds(g, "exception")
  /\ UNCHANGED <<vars, messages, cursors, reset_prompt, router, booting, crashes, history>>

\* The agent called reset_context with a message: the handler leaves the prompt for the
\* next run and enqueues it.
AgentResets(g) ==
  /\ Handoffs /\ RunOf(g, "agent") /\ ~reset_prompt[g]
  /\ reset_prompt' = [reset_prompt EXCEPT ![g] = TRUE]
  /\ EnqueueMessageCheck(g)
  /\ UNCHANGED <<messages, cursors, router, run, booting, crashes, history>>

Own(g) == {i \in piped : Chat(i) = g}

\* Seeded fault: the cursor is moved past the last message.
FinalCursorPast(g) == Max({RunLast(g), dispatched_through[g]}) + 1

\* Seeded fault: follow-ups piped meanwhile are not counted into the final cursor.
FinalWithoutPiped(g) == RunLast(g)

\* The dispatched marker is popped; follow-ups piped to the run count as processed.
FinalCursor(g) == Max({RunLast(g), dispatched_through[g]})

\* For the history: the agent succeeded, or the user has seen output.
Answered(g) == run[g].outcome = "success" \/ run[g].sent

\* Success, or an error after output was sent, moves the processed cursor.
Processed(g) == run[g].outcome = "success" \/ run[g].sent

\* _advance_cursor, rolled back when the save fails.
RunAdvances(g, ok) ==
  /\ RunOf(g, "finalize") /\ Processed(g)
  /\ dispatched_through' = [dispatched_through EXCEPT ![g] = 0]
  /\ last_agent_timestamp' =
       [last_agent_timestamp EXCEPT ![g] = IF ok THEN FinalCursor(g) ELSE run[g].previous]
  /\ UNCHANGED last_timestamp
  /\ SaveState(ok)
  /\ RunEnds(g, IF ok THEN "success" ELSE "exception")
  /\ done' = IF ok /\ Answered(g)
             THEN done \cup run[g].missed \cup {i \in Own(g) : i <= dispatched_through[g]}
             ELSE done
  /\ UNCHANGED <<vars, messages, reset_prompt, router, booting, crashes,
                 piped, gave_up, executed>>

\* An error without output leaves the cursor for the retry.
RunFails(g) ==
  /\ RunOf(g, "finalize") /\ ~Processed(g)
  /\ dispatched_through' = [dispatched_through EXCEPT ![g] = 0]
  /\ RunEnds(g, "failure")
  /\ UNCHANGED <<vars, messages, last_timestamp, last_agent_timestamp, saved, reset_prompt,
                 router, booting, crashes, history>>

\* What no later poll brings to a run: the poll has seen it, or the router will find it
\* below a marker, which a run that raised leaves behind and a pipe sets after an await.
NotPolledAgain(g) ==
  {i \in MessagesSince(g, last_agent_timestamp[g]) :
     \/ i <= last_timestamp \/ i <= dispatched_through[g]
     \/ router.pc = "mark" /\ g = Current /\ i <= RouteLast}

\* _run_for_group: after the last retry the messages, follow-ups piped to the failed
\* run included, are left to the next incoming one.
RunReturns(g) ==
  LET failed == run[g].outcome # "success"
      exhausted == retry_count[g] + 1 > MaxRetries
      tried == run[g].missed \cup Own(g) \cup NotPolledAgain(g)
  IN /\ RunOf(g, "return")
     /\ FinishMessages(g, 1, run[g].outcome)
     /\ RunStep(g, IdleRun)
     /\ piped' = IF failed THEN piped \ Own(g) ELSE piped
     /\ gave_up' = IF failed /\ exhausted THEN gave_up \cup tried ELSE gave_up
     /\ UNCHANGED <<messages, cursors, reset_prompt, router, booting, crashes,
                    done, executed>>

RunCoroutine(g) ==
  \/ RunHandoff(g) \/ RunFetch(g) \/ RunCommand(g) \/ RunSkips(g) \/ RunAgent(g)
  \/ \E ok \in BOOLEAN : HandoffEnds(g, ok)
  \/ \E ok \in SaveOutcomes : RunMagic(g, ok) \/ RunCommandDone(g, ok) \/ RunAdvances(g, ok)
  \/ \E outcome \in {"success", "failure"} : AgentEnds(g, outcome)
  \/ AgentRaises(g) \/ RunFails(g) \/ RunReturns(g)

-----------------------------------------------------------------------------
(* The rest of the queue, and crashes.                                     *)

QueueStep ==
  /\ \/ DrainWaiting
     \/ Shutdown
     \/ \E g \in Groups :
          \/ \E t \in Tasks : EnqueueTask(g, t)
          \/ \E i \in 1..Len(runs[g]) : FinishTask(g, i)
          \/ RetryFires(g)
          \/ ContainerReadsInput(g)
  /\ UNCHANGED pvars

\* Seeded fault: recovery is skipped after a restart.
NothingToRecover == booting' = {}

RecoverAll == booting' = Groups

\* The host dies and starts again from the database; containers and their input are gone.
Crash ==
  /\ crashes < MaxCrashes
  /\ crashes' = crashes + 1
  /\ active' = [g \in Groups |-> FALSE] /\ active_is_task' = [g \in Groups |-> FALSE]
  /\ pending_messages' = [g \in Groups |-> FALSE] /\ pending_tasks' = [g \in Groups |-> <<>>]
  /\ retry_count' = Zero /\ timers' = Zero
  /\ group_folder' = [g \in Groups |-> FALSE] /\ ipc_input' = [g \in Groups |-> {}]
  /\ active_count' = 0 /\ waiting_groups' = <<>> /\ runs' = [g \in Groups |-> <<>>]
  /\ shutting_down' = FALSE /\ draining' = FALSE
  /\ last_timestamp' = saved.seen /\ last_agent_timestamp' = saved.agent
  /\ dispatched_through' = Zero
  /\ router' = IdleRouter /\ run' = [g \in Groups |-> IdleRun]
  /\ RecoverAll
  /\ piped' = {} /\ gave_up' = {}
  /\ UNCHANGED <<messages, saved, reset_prompt, done, executed>>

\* The drain loop of the queue has no await: nothing else happens inside it.
PNext ==
  \/ QueueStep
  \/ Crash
  \/ /\ ~draining
     /\ \/ \E g \in Groups, k \in Kinds : Post(g, k)
        \/ \E i \in 1..Len(posted) : ReconcileIngest(i)
        \/ ReconcileEnqueue
        \/ RouterStep
        \/ \E g \in Groups :
             \/ Recover(g)
             \/ RunCoroutine(g)
             \/ AgentRegisters(g) \/ AgentSends(g) \/ AgentResets(g)

PSpec == PInit /\ [][PNext]_allvars

\* The event loop runs: the polling loop goes on, runs end, timers fire, recovery
\* visits every group.  Nothing is assumed about messages, commands or crashes.
PFairness ==
  /\ WF_allvars(RouterStep /\ ~draining)
  /\ WF_allvars(QueueStep /\ DrainWaiting)
  /\ WF_allvars(ReconcileEnqueue)
  /\ \A g \in Groups :
       /\ WF_allvars(RunCoroutine(g) /\ ~draining)
       /\ WF_allvars(Recover(g))
       /\ WF_allvars(RetryFires(g) /\ UNCHANGED pvars)
       /\ WF_allvars((\E i \in 1..Len(runs[g]) : FinishTask(g, i)) /\ UNCHANGED pvars)

PFairSpec == PSpec /\ PFairness

-----------------------------------------------------------------------------
(* Properties.                                                             *)

\* Beyond the processed cursor of its group and not taken care of otherwise.
Unprocessed(i) == Visible(i) /\ i > last_agent_timestamp[Chat(i)] /\ i \notin done

\* Somebody still has to look at message i of group g: the polling loop, the router,
\* the group's run, or a run owed by the queue, a retry or the recovery.
LookedAtLater(g, i) ==
  \/ i > last_timestamp
  \/ i \in router.batch
  \/ runs[g] = <<Messages>> /\ run[g].pc \in {"idle", "handoff", "fetch"}
  \/ i \in run[g].missed
  \/ run[g].pc = "return" /\ run[g].outcome # "success"
  \/ pending_messages[g] \/ timers[g] > 0
  \/ g \in booting

\* A command answers for everything its group wrote before it: the cursor moves to it.
\* (The end of a run may move the cursor back below: RedeployCursorDurable.)
PassedOver(i) ==
  \E j \in done : Chat(j) = Chat(i) /\ j > i /\ Kind(j) \in {"command", "reset", "redeploy"}

\* No message is forgotten: while it is unprocessed somebody still looks at it, unless
\* it was piped to a container, its retries are used up or a later command was executed.
\* The seen cursor moves long before a message is routed, so every path of router, run,
\* queue and recovery counts.
NoMessageStranded ==
  \A i \in store :
    Unprocessed(i) /\ Wakes(i) /\ ~shutting_down
      => LookedAtLater(Chat(i), i) \/ i \in piped \cup gave_up \/ PassedOver(i)

\* The cursor on disk never covers a message nobody answered: recovery after a crash
\* starts from it, so such a message would be lost for good.
DurableCursorIsProcessed ==
  \A i \in store : Visible(i) /\ i <= saved.agent[Chat(i)] => i \in done

\* A message the agent has answered, follow-ups included, is not handed to it again, not
\* even by the recovery after a crash or by the retry after a failed save.
NoReprocessing ==
  \A g \in Groups : run[g].pc \in {"fetched", "agent", "finalize"} => run[g].missed \cap done = {}

\* The queue's own guarantees hold under the calls the pipeline really makes, also those
\* that change it behind a running task and across a restart.
QueueStaysSafe == OneRunPerGroup /\ ConcurrencyLimit /\ NoLostWork /\ NoStaleTaskInput

\* The processed cursor, on disk and in memory: never ahead of the agent, so that nothing
\* is lost, and never behind what it answered, so that nothing is repeated.
CursorSound == DurableCursorIsProcessed /\ NoReprocessing

\* No message is forgotten, and the queue that would have to know stays sound.
PipelineSafe == NoMessageStranded /\ QueueStaysSafe

\* "advance cursor BEFORE the call (process may die)": once a redeploy has been executed,
\* the cursor on disk covers its command, whatever the group's run does meanwhile.
RedeployCursorDurable ==
  \A i \in store : Kind(i) = "redeploy" /\ executed[i] > 0 => saved.agent[Chat(i)] >= i

\* A message the reconciler recovers is processed or will be.
RecoveredIsProcessed ==
  \A i \in store : Visible(i) /\ ~shutting_down =>
    i \in done \cup piped \cup gave_up \/ LookedAtLater(Chat(i), i)

\* Nothing more is owed to message i.
Settled(i) ==
  \/ shutting_down
  \/ i \in done \cup gave_up
  \/ i \in piped /\ runs[Chat(i)] # <<Messages>>

\* Every message that wakes the agent is answered, or its retries are used up, or it was
\* piped and the run ended, whatever crashes and interrupts in between.
MessagesAnswered == \A i \in Ids : (i \in store /\ Wakes(i)) ~> Settled(i)

=============================================================================

-------------------------- MODULE ContainerSession --------------------------
(***************************************************************************)
(* The life of the container behind one group folder: the session and its  *)
(* registry (container_manager/session.py), the runs that use them         *)
(* (orchestrator/agent_runner.py), the output side of the IPC watcher      *)
(* (container_manager/ipc/watcher.py), the ways a container is stopped     *)
(* (concurrency.py, session_handler.py), and the agent runner inside the   *)
(* container (agent_runner/main.py and ipc.py).                            *)
(*                                                                         *)
(* One folder is modelled: folders share nothing here.  The queue runs one *)
(* run of a group at a time (OneRunPerGroup of module GroupQueue), so run  *)
(* is a single record.  What a run asks, or a user adds while it is going  *)
(* on, is an item.  Containers are numbered in the order they are spawned; *)
(* the session of container c is ses[c].  A container is killed by name:   *)
(* interactive containers share one stable name, and one-shot containers   *)
(* have a name of their own.                                               *)
(***************************************************************************)
EXTENDS Naturals, Sequences, FiniteSets

CONSTANTS
  RunKinds,       \* the kinds of runs in this instance: "message" and "task"
  MaxRuns,        \* bound of the model: runs of the group
  MaxFollowUps,   \* bound of the model: follow-ups of users
  MaxFaults       \* bound of the model: failing containers, timeouts,
                  \* teardowns and interrupts together

ASSUME RunKindsKnown == RunKinds \subseteq {"message", "task"}
ASSUME BoundsNat == MaxRuns \in Nat /\ MaxFollowUps \in Nat /\ MaxFaults \in Nat

Cs == 1..MaxRuns       \* every container is spawned for a run
Items == 1..(MaxRuns + MaxFollowUps)
None == 0

VARIABLES
  con,         \* the containers: name, phase, exit code, items in the prompt
  ses,         \* their ContainerSession objects
  registry,    \* _sessions of the folder: a container or None
  registered,  \* GroupState.process and group_folder: a container or None
  run,         \* the run of the group: pc, kind, item, session, what it waits for
  stopper,     \* stop_active_process: awaiting destroy_session of a container, or not
  input,       \* message files in ipc/<folder>/input
  initial,     \* initial.json: an item or None
  close,       \* whether the _close sentinel exists
  output,      \* output files queued for the watcher, in order
  watcher,     \* the output file whose handler is being awaited
  run_count,   \* runs started so far
  followups,   \* follow-ups sent so far
  spawned,     \* containers spawned so far
  faults,
  written_for  \* history: the container an item was addressed to

host == <<ses, registry, registered, run, stopper, watcher>>
files == <<input, initial, close, output>>
bounds == <<run_count, followups, spawned, faults>>
svars == <<con, host, files, bounds, written_for>>

NoRun == [pc |-> "idle", kind |-> "message", item |-> None, session |-> None, result |-> "none"]
NoStopper == [pc |-> "idle", target |-> None]
NoFile == [kind |-> "none", items |-> {}]
Unborn == [name |-> None, phase |-> "none", code |-> 0, items |-> {}]
NoSession == [dead |-> FALSE, returned |-> FALSE, done |-> FALSE, died |-> FALSE,
              handler |-> None, idle |-> "off", stop |-> "none"]

STypeOK ==
  /\ con \in [Cs -> [name : Cs \cup {None}, phase : {"none", "boot", "query", "wait", "exited"},
                     code : {0, 1, 125}, items : SUBSET Items]]
  /\ ses \in [Cs -> [dead : BOOLEAN, returned : BOOLEAN, done : BOOLEAN,
                     died : BOOLEAN, handler : Items \cup {None}, idle : {"off", "armed", "fired"},
                     stop : {"none", "stopping", "waiting", "removing", "done"}]]
  /\ registry \in 0..spawned /\ registered \in 0..spawned
  /\ registered # None => run.pc \in {"await", "destroy"}
  /\ run \in [pc : {"idle", "clean", "setup", "ensure", "remove", "spawn", "await", "destroy"},
              kind : {"message", "task"}, item : Items \cup {None},
              session : Cs \cup {None}, result : {"none", "success", "error"}]
  /\ stopper \in [pc : {"idle", "request", "destroy"}, target : Cs \cup {None}]
  /\ input \subseteq Items /\ initial \in Items \cup {None} /\ close \in BOOLEAN
  /\ output \in Seq([kind : {"answer", "pulse"}, items : SUBSET Items])
  /\ watcher \in [kind : {"none", "answer", "pulse"}, items : SUBSET Items]
  /\ run_count \in 0..MaxRuns /\ followups \in 0..MaxFollowUps /\ spawned \in 0..run_count
  /\ faults \in 0..MaxFaults
  /\ written_for \in [Items -> Cs \cup {None}]

SInit ==
  /\ con = [c \in Cs |-> Unborn] /\ ses = [c \in Cs |-> NoSession]
  /\ registry = None /\ registered = None
  /\ run = NoRun /\ stopper = NoStopper
  /\ input = {} /\ initial = None /\ close = FALSE
  /\ output = <<>> /\ watcher = NoFile
  /\ run_count = 0 /\ followups = 0 /\ spawned = 0 /\ faults = 0
  /\ written_for = [i \in Items |-> None]

-----------------------------------------------------------------------------
(* Containers and their names (docker).                                    *)

Live(c) == con[c].phase \in {"boot", "query", "wait"}

Exited(r, code) == [r EXCEPT !.phase = "exited", !.code = code, !.items = {}]

\* docker stop <name>, docker rm -f <name>: whoever runs under the name dies.
Killed(name) ==
  [c \in Cs |-> IF Live(c) /\ con[c].name = name THEN Exited(con[c], 1) ELSE con[c]]

StableName == None
OneshotName(c) == c

-----------------------------------------------------------------------------
(* Sessions and their registry.                                            *)

\* is_alive: the process runs as far as the host knows and the session was not stopped.
IsAlive(c) == c # None /\ ~ses[c].dead /\ ~ses[c].returned

\* get_session pops a dead session on access.
AfterGet == IF IsAlive(registry) THEN registry ELSE None

GetSession == IF IsAlive(registry) THEN registry ELSE None

\* set_output_handler cancels the timer; a teardown already created is not stopped.
CancelTimer(s) == IF s.idle = "armed" THEN "off" ELSE s.idle

SetOutputHandler(s, i) ==
  [s EXCEPT !.handler = i, !.done = FALSE, !.died = FALSE, !.idle = CancelTimer(s)]

\* One-shot sessions are created with idle_timeout_override = 0.
ArmTimer(c) == IF ses[c].idle = "fired" \/ con[c].name # StableName THEN ses[c].idle ELSE "armed"

\* Seeded fault: the handler stays set after the query.
KeepHandler(c) == ses[c].handler

ClearHandler(c) == None

\* signal_query_done on the session that is registered now, whichever that is.
SignalQueryDone ==
  /\ registry' = AfterGet
  /\ ses' = IF GetSession = None THEN ses
            ELSE [ses EXCEPT ![GetSession].done = TRUE,
                             ![GetSession].handler = ClearHandler(GetSession),
                             ![GetSession].idle = ArmTimer(GetSession)]

\* The synchronous beginning of stop(): mark the session dead; the stop goes on as a
\* docker stop, or straight to the removal when the process is known to be gone.
Stopped(s) ==
  [s EXCEPT !.idle = CancelTimer(s), !.dead = TRUE,
            !.stop = IF s.returned THEN "removing" ELSE "stopping"]

\* destroy_session pops whatever session is registered and stops it.
DestroySession ==
  /\ registry' = None
  /\ ses' = IF registry = None THEN ses ELSE [ses EXCEPT ![registry] = Stopped(@)]
  /\ close' = (close \/ registry # None)

\* The await of destroy_session on the session it popped.
Destroyed(c) == c # None => ses[c].stop = "done"

\* stop(), docker stop by name.
StopKills(c) ==
  /\ ses[c].stop = "stopping"
  /\ con' = Killed(con[c].name)
  /\ ses' = [ses EXCEPT ![c].stop = "waiting"]
  /\ UNCHANGED <<registry, registered, run, stopper, watcher, files, bounds, written_for>>

\* stop(), the process has exited.
StopExited(c) ==
  /\ ses[c].stop = "waiting" /\ ses[c].returned
  /\ ses' = [ses EXCEPT ![c].stop = "removing"]
  /\ UNCHANGED <<con, registry, registered, run, stopper, watcher, files, bounds, written_for>>

\* stop(), docker rm -f by name, then release whoever awaits the query.
StopRemoves(c) ==
  /\ ses[c].stop = "removing"
  /\ con' = Killed(con[c].name)
  /\ ses' = [ses EXCEPT ![c].stop = "done", ![c].done = TRUE]
  /\ UNCHANGED <<registry, registered, run, stopper, watcher, files, bounds, written_for>>

\* Seeded fault: a clean exit during a query is noted but nobody is woken.
WakesOnlyOnFailure(c) == con[c].code # 0

WakesWaiter(c) == TRUE

\* _monitor_proc: the exit of the process.  Exit code 0 without a pulse is no failure.
MonitorProc(c) ==
  /\ con[c].phase = "exited" /\ ~ses[c].returned
  /\ ses' = [ses EXCEPT ![c].returned = TRUE, ![c].dead = TRUE,
                        ![c].died = @ \/ (~ses[c].done /\ con[c].code # 0),
                        ![c].done = @ \/ WakesWaiter(c)]
  /\ UNCHANGED <<con, registry, registered, run, stopper, watcher, files, bounds, written_for>>

\* The idle timer fires and creates the teardown task, which first awaits a callback.
IdleExpires(c) ==
  /\ ses[c].idle = "armed"
  /\ ses' = [ses EXCEPT ![c].idle = "fired"]
  /\ UNCHANGED <<con, registry, registered, run, stopper, watcher, files, bounds, written_for>>

\* _idle_teardown goes on after the callback.
IdleTeardown(c) ==
  /\ ses[c].idle = "fired"
  /\ registry' = None
  /\ ses' = [d \in Cs |->
               LET s == IF d = registry THEN Stopped(ses[d]) ELSE ses[d]
               IN  IF d = c THEN [s EXCEPT !.idle = "off"] ELSE s]
  /\ close' = (close \/ registry # None)
  /\ UNCHANGED <<con, registered, run, stopper, watcher, input, initial, output, bounds,
                 written_for>>

-----------------------------------------------------------------------------
(* A run of the group (run_agent).                                         *)

\* Seeded fault: a finished run leaves its process in the group state.
StayRegistered == registered

\* release() at the end of a run: the group state forgets its process.
Released == None

\* The item of a new run or follow-up.
NewItem == run_count + followups + 1

\* run_agent begins.  A scheduled task first destroys the session of the group.
RunStarts(kind) ==
  /\ run.pc = "idle" /\ run_count < MaxRuns
  /\ run_count' = run_count + 1
  /\ \/ /\ kind = "message"
        /\ run' = [NoRun EXCEPT !.pc = "setup", !.item = NewItem]
        /\ UNCHANGED <<ses, registry, close>>
     \/ /\ kind = "task"
        /\ run' = [NoRun EXCEPT !.pc = "clean", !.kind = kind, !.item = NewItem,
                                !.session = registry]
        /\ DestroySession
  /\ UNCHANGED <<con, registered, stopper, watcher, input, initial, output, followups, spawned, faults, written_for>>

RunCleaned ==
  /\ run.pc = "clean" /\ Destroyed(run.session)
  /\ run' = [run EXCEPT !.pc = "setup", !.session = None]
  /\ UNCHANGED <<con, ses, registry, registered, stopper, watcher, files, bounds, written_for>>

\* After _pre_container_setup: the warm path, the cold path or a one-shot container.
RunChooses ==
  /\ run.pc = "setup"
  /\ \/ /\ run.kind = "task"
        /\ run' = [run EXCEPT !.pc = "spawn"]
        /\ UNCHANGED registry
     \/ /\ run.kind = "message" /\ GetSession # None
        /\ run' = [run EXCEPT !.pc = "ensure", !.session = registry]
        /\ UNCHANGED registry
     \/ /\ run.kind = "message" /\ GetSession = None
        /\ run' = [run EXCEPT !.pc = "remove"]
        /\ registry' = AfterGet
  /\ UNCHANGED <<con, ses, registered, stopper, watcher, files, bounds, written_for>>

\* _warm_query after its await of ensure_workspace_running: the session may be gone.
RunWarm ==
  /\ run.pc = "ensure"
  /\ registered' = run.session
  /\ ses' = [ses EXCEPT ![run.session] = SetOutputHandler(@, run.item)]
  /\ input' = input \cup {run.item}
  /\ written_for' = [written_for EXCEPT ![run.item] = run.session]
  /\ run' = [run EXCEPT !.pc = "await"]
  /\ UNCHANGED <<con, registry, stopper, watcher, initial, close, output, bounds>>

\* _cold_start: docker rm -f of the stable name before spawning.
RemovedStale == Killed(StableName)

RunRemoves ==
  /\ run.pc = "remove"
  /\ con' = RemovedStale
  /\ run' = [run EXCEPT !.pc = "spawn"]
  /\ UNCHANGED <<ses, registry, registered, stopper, watcher, files, bounds, written_for>>

NameTaken(name) == \E c \in Cs : Live(c) /\ con[c].name = name

\* Seeded fault: create_session leaves the files of the previous session.
KeptInput == input

\* create_session removes stale messages and the sentinel; initial.json stays.
CleanedInput == {}

\* _spawn_and_await: _spawn_container after its last await, create_session (which finds no
\* session to stop: CreateFindsNoSession), register_process and set_output_handler.
RunSpawns ==
  /\ run.pc = "spawn" /\ registry = None
  /\ spawned' = spawned + 1
  /\ LET c == spawned + 1
         name == IF run.kind = "task" THEN OneshotName(c) ELSE StableName
     IN /\ con' = [con EXCEPT ![c] = IF NameTaken(name)
                                     THEN [Unborn EXCEPT !.name = name, !.phase = "exited", !.code = 125]
                                     ELSE [Unborn EXCEPT !.name = name, !.phase = "boot"]]
        /\ registry' = c /\ registered' = c
        /\ ses' = [ses EXCEPT ![c] = SetOutputHandler([NoSession EXCEPT !.idle = ArmTimer(c)], run.item)]
        /\ run' = [run EXCEPT !.pc = "await", !.session = c]
        /\ written_for' = [written_for EXCEPT ![run.item] = c]
  /\ initial' = run.item /\ input' = CleanedInput /\ close' = FALSE
  /\ output' = <<>>
  /\ UNCHANGED <<stopper, watcher, run_count, followups, faults>>

\* The spawn fails with an OSError, or ensure_workspace_running raises.
RunFails ==
  /\ run.pc \in {"ensure", "spawn"}
  /\ \/ /\ run.kind = "message"
        /\ run' = NoRun /\ registered' = Released
        /\ UNCHANGED <<ses, registry, close>>
     \/ /\ run.kind = "task"
        /\ run' = [run EXCEPT !.pc = "destroy", !.session = registry, !.result = "error"]
        /\ DestroySession
        /\ UNCHANGED registered
  /\ UNCHANGED <<con, stopper, watcher, input, initial, output, bounds, written_for>>

\* _await_query returns.  A task goes on to destroy its session in any case, a message
\* run only ends; pipeline.py then looks the session up for its idle callback.
RunAnswered ==
  /\ run.pc = "await" /\ ses[run.session].done
  /\ \/ /\ run.kind = "message"
        /\ run' = NoRun /\ registered' = Released
        /\ registry' \in {registry, AfterGet}
        /\ UNCHANGED <<ses, close>>
     \/ /\ run.kind = "task"
        /\ run' = [run EXCEPT !.pc = "destroy", !.session = registry,
                              !.result = IF ses[run.session].died THEN "error" ELSE "success"]
        /\ DestroySession
        /\ UNCHANGED registered
  /\ UNCHANGED <<con, stopper, watcher, input, initial, output, bounds, written_for>>

\* wait_for_query_done times out: the session registered now is destroyed.
RunTimesOut ==
  /\ run.pc = "await" /\ ~ses[run.session].done /\ faults < MaxFaults
  /\ faults' = faults + 1
  /\ run' = [run EXCEPT !.pc = "destroy", !.session = registry, !.result = "error"]
  /\ DestroySession
  /\ UNCHANGED <<con, registered, stopper, watcher, input, initial, output, run_count,
                 followups, spawned, written_for>>

\* The destroy is over: release() forgets the process; _run_task also empties the input
\* directory if a container was registered.
RunEnds ==
  /\ run.pc = "destroy" /\ Destroyed(run.session)
  /\ run' = NoRun /\ registered' = Released
  /\ IF run.kind = "task" /\ registered # None
     THEN input' = {} /\ initial' = None /\ close' = FALSE
     ELSE UNCHANGED <<input, initial, close>>
  /\ UNCHANGED <<con, ses, registry, stopper, watcher, output, bounds, written_for>>

-----------------------------------------------------------------------------
(* What users and the scheduler do to a running container.                 *)

\* send_message: a follow-up for the registered container.
FollowUp ==
  /\ registered # None /\ followups < MaxFollowUps
  /\ followups' = followups + 1
  /\ input' = input \cup {NewItem}
  /\ written_for' = [written_for EXCEPT ![NewItem] = registered]
  /\ UNCHANGED <<con, host, initial, close, output, run_count, spawned, faults>>

\* close_stdin from the idle timer of a scheduled task.
CloseStdin ==
  /\ registered # None /\ run.kind = "task" /\ faults < MaxFaults
  /\ faults' = faults + 1
  /\ close' = TRUE
  /\ UNCHANGED <<con, host, input, initial, output, run_count, followups, spawned, written_for>>

\* A message or a reaction interrupts a task: stop_active_process in a task of its own.
Interrupt ==
  /\ run.kind = "task" /\ run.pc # "idle"
  /\ stopper.pc = "idle" /\ faults < MaxFaults
  /\ stopper' = [NoStopper EXCEPT !.pc = "request"]
  /\ faults' = faults + 1
  /\ UNCHANGED <<con, ses, registry, registered, run, watcher, files, run_count, followups, spawned, written_for>>

\* _teardown_group: destroy_session in one task, stop_active_process in another.
Teardown ==
  /\ stopper.pc = "idle" /\ faults < MaxFaults
  /\ stopper' = [NoStopper EXCEPT !.pc = "request"]
  /\ DestroySession
  /\ faults' = faults + 1
  /\ UNCHANGED <<con, registered, run, watcher, input, initial, output, run_count, followups, spawned, written_for>>

\* stop_active_process begins: it destroys the session if the group has a folder.
StopBegins ==
  /\ stopper.pc = "request"
  /\ IF registered = None
     THEN stopper' = [pc |-> "destroy", target |-> None] /\ UNCHANGED <<ses, registry, close>>
     ELSE stopper' = [pc |-> "destroy", target |-> registry] /\ DestroySession
  /\ UNCHANGED <<con, registered, run, watcher, input, initial, output, bounds, written_for>>

\* stop_active_process after its await: the group state is read again.
StopRegistered ==
  /\ stopper.pc = "destroy" /\ Destroyed(stopper.target)
  /\ stopper' = NoStopper
  /\ IF registered = None THEN UNCHANGED <<con, close>>
     ELSE close' = TRUE /\ con' = Killed(con[registered].name)
  /\ UNCHANGED <<ses, registry, registered, run, watcher, input, initial, output, bounds,
                 written_for>>

-----------------------------------------------------------------------------
(* Inside the container (the agent runner).                                *)

\* Startup: read initial.json, unlink a stale sentinel, drain pending messages into the
\* first prompt.  Without initial.json the runner fails.
ContainerBoots(c) ==
  /\ con[c].phase = "boot"
  /\ \/ /\ initial # None
        /\ con' = [con EXCEPT ![c].phase = "query", ![c].items = {initial} \cup input]
        /\ initial' = None /\ input' = {} /\ close' = FALSE
     \/ /\ initial = None
        /\ con' = [con EXCEPT ![c] = Exited(@, 1)]
        /\ UNCHANGED <<input, initial, close>>
  /\ UNCHANGED <<host, output, bounds, written_for>>

\* The query ends: its answer and the query-done pulse are written.
QueryEnds(c) ==
  /\ con[c].phase = "query"
  /\ output' = output \o <<[kind |-> "answer", items |-> con[c].items],
                           [kind |-> "pulse", items |-> {}]>>
  /\ con' = [con EXCEPT ![c].phase = "wait", ![c].items = {}]
  /\ UNCHANGED <<host, input, initial, close, bounds, written_for>>

\* The sentinel is seen, during a query or in wait_for_ipc_message.
SeesClose(c) ==
  /\ con[c].phase \in {"query", "wait"} /\ close
  /\ close' = FALSE
  /\ con' = [con EXCEPT ![c] = Exited(@, 0)]
  /\ UNCHANGED <<host, input, initial, output, bounds, written_for>>

\* wait_for_ipc_message drains every .json file; initial.json is discarded.
ReadsInput(c) ==
  /\ con[c].phase = "wait" /\ ~close
  /\ input # {} \/ initial # None
  /\ input' = {} /\ initial' = None
  /\ con' = IF input = {} THEN con
            ELSE [con EXCEPT ![c].phase = "query", ![c].items = input]
  /\ UNCHANGED <<host, close, output, bounds, written_for>>

\* finished_work and reset_context: the tool writes the sentinel and exits.
AgentExits(c) ==
  /\ con[c].phase = "query"
  /\ close' = TRUE
  /\ con' = [con EXCEPT ![c] = Exited(@, 0)]
  /\ UNCHANGED <<host, input, initial, output, bounds, written_for>>

\* The runner or the container fails.
ContainerCrashes(c) ==
  /\ Live(c) /\ faults < MaxFaults
  /\ faults' = faults + 1
  /\ con' = [con EXCEPT ![c] = Exited(@, 1)]
  /\ UNCHANGED <<host, files, run_count, followups, spawned, written_for>>

-----------------------------------------------------------------------------
(* The output side of the IPC watcher, which handles one file at a time.   *)

Handler == IF GetSession = None THEN None ELSE ses[GetSession].handler

\* A file whose handler is awaited.
WatcherDispatches ==
  /\ watcher = NoFile /\ output # <<>> /\ Handler # None
  /\ watcher' = Head(output)
  /\ output' = Tail(output)
  /\ UNCHANGED <<con, ses, registry, registered, run, stopper, input, initial, close, bounds,
                 written_for>>

\* A file without a handler is left in place; a pulse is signalled all the same.
WatcherSkips ==
  /\ watcher = NoFile /\ output # <<>> /\ Handler = None
  /\ output' = Tail(output)
  /\ IF Head(output).kind = "pulse" THEN SignalQueryDone
     ELSE registry' = AfterGet /\ UNCHANGED ses
  /\ UNCHANGED <<con, registered, run, stopper, watcher, input, initial, close, bounds, written_for>>

\* The handler has returned, or failed.
WatcherFinishes ==
  /\ watcher # NoFile
  /\ watcher' = NoFile
  /\ IF watcher.kind = "pulse" THEN SignalQueryDone ELSE UNCHANGED <<ses, registry>>
  /\ UNCHANGED <<con, registered, run, stopper, files, bounds, written_for>>

-----------------------------------------------------------------------------
RunStep ==
  \/ \E kind \in RunKinds : RunStarts(kind)
  \/ RunCleaned \/ RunChooses \/ RunWarm \/ RunRemoves \/ RunSpawns \/ RunFails
  \/ RunAnswered \/ RunTimesOut \/ RunEnds

SessionStep(c) ==
  StopKills(c) \/ StopExited(c) \/ StopRemoves(c) \/ MonitorProc(c) \/ IdleExpires(c) \/ IdleTeardown(c)

RequestStep ==
  FollowUp \/ CloseStdin \/ Interrupt \/ Teardown \/ StopBegins \/ StopRegistered

ContainerStep(c) ==
  \/ ContainerBoots(c) \/ QueryEnds(c) \/ SeesClose(c) \/ ReadsInput(c)
  \/ AgentExits(c) \/ ContainerCrashes(c)

WatcherStep == WatcherDispatches \/ WatcherSkips \/ WatcherFinishes

SNext ==
  \/ RunStep \/ RequestStep \/ WatcherStep
  \/ \E c \in Cs : SessionStep(c) \/ ContainerStep(c)

SSpec == SInit /\ [][SNext]_svars

\* The event loop gets around to every exited process and to every run whose event is
\* set.  Nothing is assumed of containers, and in particular no query times out.
SFairness ==
  /\ WF_svars(RunAnswered)
  /\ \A c \in Cs : WF_svars(MonitorProc(c))

SFairSpec == SSpec /\ SFairness

-----------------------------------------------------------------------------
(* Properties.                                                             *)

\* create_session stops a session it finds registered, under the name of the container
\* that has just been spawned.  It never finds one: a run gets to its spawn only when
\* get_session or destroy_session has emptied the registry, and nobody else fills it.
CreateFindsNoSession == run.pc \in {"remove", "spawn"} => registry = None

\* docker run never fails with a name conflict, although a session that was popped may
\* still be stopping its container while the next run of the group starts another.
NoNameConflict == \A c \in Cs : con[c].code # 125

\* The handler the watcher would call belongs to the run that is waiting for it: no
\* pulse, timeout, death or stop leaves the handler of a finished run behind.
HandlerOfLiveRun ==
  IsAlive(registry) /\ ses[registry].handler # None
    => run.pc = "await" /\ run.session = registry /\ run.item = ses[registry].handler

\* No idle timer runs for a session in the middle of a query.
TimerOnlyWhenIdle ==
  IsAlive(registry) /\ ses[registry].idle = "armed" => ses[registry].handler = None

\* A message file is read by the container it was written for, or by one whose stop has
\* begun: a new container never gets what was meant for an earlier one.
InputReachesItsContainer ==
  \A c \in Cs : \A i \in con[c].items : written_for[i] = c \/ ses[c].dead

\* A session, its container, its handler and its timer: each belongs to the run that is
\* there now, and none is left over from an earlier one.
SessionSound == CreateFindsNoSession /\ NoNameConflict /\ HandlerOfLiveRun /\ TimerOnlyWhenIdle

\* A container that dies during a query ends the wait of its run, without the timeout.
DeathEndsQuery ==
  run.pc = "await" /\ con[run.session].phase = "exited" /\ ~ses[run.session].returned
    ~> run.pc # "await"

\* What the code says of the idle timer: it fires when the session has been idle for too
\* long, so the teardown takes down a session that is idle.
QueryInFlight(c) == IsAlive(c) /\ ses[c].handler # None

TeardownOfIdle ==
  \A c \in Cs : ses[c].idle = "fired" /\ ses'[c].idle = "off" => ~QueryInFlight(registry)

IdleTeardownSparesQuery == [][TeardownOfIdle]_svars

\* What the docs say of follow-ups: they join the running conversation, and only stale
\* output of a dead session finds no handler.  Then no live session loses an answer.
AnswerSkipped ==
  /\ output # <<>> /\ output' = Tail(output) /\ spawned' = spawned
  /\ Head(output).kind = "answer" /\ Handler = None

AnswersFindHandler == [][AnswerSkipped => ~IsAlive(registry)]_svars

=============================================================================

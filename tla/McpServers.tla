----------------------------- MODULE McpServers -----------------------------
(***************************************************************************)
(* The tool servers shared by the workspaces: started on demand before an  *)
(* agent is launched, stopped when idle or at shutdown                     *)
(* (container_manager/mcp/manager.py, mcp/lifecycle.py, docker.py).  One   *)
(* instance of type docker, a container known by its name, and one of type *)
(* script, a child process; every workspace uses both, in that order.      *)
(*                                                                         *)
(* Each docker command is awaited, so launches of two workspaces, and the  *)
(* idle checker, interleave between commands on the same name.             *)
(***************************************************************************)
EXTENDS Naturals, FiniteSets

CONSTANTS
  Workspaces,
  MaxProcesses,   \* bound of the model: script processes ever started
  MaxLaunches,    \* bound of the model: launches of agents
  MaxExits        \* bound of the model: ends of the host process

ASSUME McpBounds == {MaxProcesses, MaxLaunches, MaxExits} \subseteq Nat

Docker == "docker"
Script == "script"

VARIABLES
  docker,       \* the container of the instance, as docker knows its name
  scripts,      \* the script processes that are alive: a number to a state
  tracked,      \* instance.process: the number of the last one started, 0 if none
  started,      \* script processes started so far
  idle,         \* instances whose last activity is longer ago than the timeout
  launch,       \* what the launch of each workspace awaits
  checker,      \* what the idle checker awaits
  launches, exits, crashed    \* bounds, and whether an end was a crash

mcp_vars == <<docker, scripts, tracked, started, idle, launch, checker, launches, exits, crashed>>
bounds == <<launches, exits, crashed>>

Pcs == {"none", "inspect", "prepare", "remove", "run", "wait", "stop", "rm",
        "script", "script_wait", "launched", "blocked"}
NoCall == [pc |-> "none", proc |-> 0]

McpTypeOK ==
  /\ docker \in {"absent", "starting", "failed", "healthy", "down", "stopped"}
  /\ DOMAIN scripts \subseteq 1..MaxProcesses /\ \A n \in DOMAIN scripts : scripts[n] \in {"starting", "healthy"}
  /\ tracked \in 0..MaxProcesses /\ started \in 0..MaxProcesses
  /\ idle \subseteq {Docker, Script}
  /\ launch \in [Workspaces -> [pc : Pcs, proc : 0..MaxProcesses]]
  /\ checker \in {"sleep", "inspect", "stop", "rm"}
  /\ launches \in 0..MaxLaunches /\ exits \in 0..MaxExits /\ crashed \in BOOLEAN

McpInit ==
  /\ docker = "absent" /\ scripts = <<>> /\ tracked = 0 /\ started = 0
  /\ idle = {} /\ launch = [w \in Workspaces |-> NoCall] /\ checker = "sleep"
  /\ launches = 0 /\ exits = 0 /\ crashed = FALSE

-----------------------------------------------------------------------------
\* docker.py: what a command does to the name.

IsContainerRunning == docker \in {"starting", "healthy"}
RemoveContainer == docker' = "absent"
StopContainer == docker' = IF docker = "absent" THEN "absent" ELSE "stopped"

Alive(n) == n \in DOMAIN scripts
Without(n) == [m \in DOMAIN scripts \ {n} |-> scripts[m]]

\* The SIGTERM, and the SIGKILL after it, reach whatever process is tracked.
TerminateProcess == scripts' = Without(tracked) /\ tracked' = 0

\* An HTTP request to the port of the instance is answered by anyone there.
PortAnswers == \E n \in DOMAIN scripts : scripts[n] = "healthy"

-----------------------------------------------------------------------------
\* The launch of an agent.

Goes(w, pc) == launch' = [launch EXCEPT ![w].pc = pc]

\* A workspace asks for its instances; the timestamp is all that tells the idle
\* checker of it, requests through the proxy leave none.
EnsureWorkspaceRunning(w) ==
  /\ launch[w].pc \in {"none", "launched", "blocked"} /\ launches < MaxLaunches
  /\ launches' = launches + 1
  /\ Goes(w, "inspect") /\ idle' = idle \ {Docker}
  /\ UNCHANGED <<docker, scripts, tracked, started, checker, exits, crashed>>

\* One that fails its health check is logged and skipped.
NextInstance(w) == Goes(w, "script")

\* A container that runs is taken as it is, healthy or not yet.
EnsureDockerRunning(w) ==
  /\ launch[w].pc = "inspect"
  /\ IF IsContainerRunning THEN NextInstance(w) ELSE Goes(w, "prepare")
  /\ UNCHANGED <<docker, scripts, tracked, started, idle, checker, bounds>>

\* Image and network; a pull or build that fails is not among the errors that
\* are skipped, and ends the launch.
EnsureMcpImage(w) ==
  /\ launch[w].pc = "prepare"
  /\ \E to \in {"remove", "blocked"} : Goes(w, to)
  /\ UNCHANGED <<docker, scripts, tracked, started, idle, checker, bounds>>

RemoveStale(w) ==
  /\ launch[w].pc = "remove" /\ RemoveContainer /\ Goes(w, "run")
  /\ UNCHANGED <<scripts, tracked, started, idle, checker, bounds>>

\* The command fails if the name has been taken meanwhile.
RunDocker(w) ==
  /\ launch[w].pc = "run"
  /\ IF docker = "absent" THEN docker' = "starting" /\ Goes(w, "wait")
     ELSE Goes(w, "blocked") /\ UNCHANGED docker
  /\ UNCHANGED <<scripts, tracked, started, idle, checker, bounds>>

\* Healthy, or not running any more, or the deadline has passed.
WaitHealthy(w) ==
  /\ launch[w].pc = "wait"
  /\ \/ docker = "healthy" /\ NextInstance(w)
     \/ docker # "healthy" /\ Goes(w, "stop")
  /\ UNCHANGED <<docker, scripts, tracked, started, idle, checker, bounds>>

\* A slip checked against McpSound: a container that failed is left as it is.
LeavesFailed(w) ==
  /\ launch[w].pc = "stop" /\ NextInstance(w)
  /\ UNCHANGED <<docker, scripts, tracked, started, idle, checker, bounds>>

\* The failed container is stopped and removed, by name.
StopFailed(w) ==
  /\ \/ launch[w].pc = "stop" /\ StopContainer /\ Goes(w, "rm")
     \/ launch[w].pc = "rm" /\ RemoveContainer /\ NextInstance(w)
  /\ UNCHANGED <<scripts, tracked, started, idle, checker, bounds>>

\* A process that is alive is enough; otherwise one is started and waited for.
EnsureScriptRunning(w) ==
  /\ launch[w].pc = "script" /\ idle' = idle \ {Script}
  /\ \/ Alive(tracked) /\ Goes(w, "launched") /\ UNCHANGED <<scripts, tracked, started>>
     \/ /\ ~Alive(tracked) /\ started < MaxProcesses
        /\ started' = started + 1 /\ tracked' = started'
        /\ scripts' = [n \in DOMAIN scripts \cup {started'} |-> IF Alive(n) THEN scripts[n] ELSE "starting"]
        /\ launch' = [launch EXCEPT ![w] = [pc |-> "script_wait", proc |-> started']]
  /\ UNCHANGED <<docker, checker, bounds>>

\* The failure of one launch terminates the process tracked by now, which
\* another launch may have started.
ScriptWait(w) ==
  /\ launch[w].pc = "script_wait"
  /\ \/ PortAnswers /\ UNCHANGED <<scripts, tracked>>
     \/ ~PortAnswers /\ TerminateProcess     \* it has exited, or the deadline
  /\ launch' = [launch EXCEPT ![w] = [pc |-> "launched", proc |-> 0]]
  /\ UNCHANGED <<docker, started, idle, checker, bounds>>

-----------------------------------------------------------------------------
\* The servers themselves.

\* One that exits is started again by docker, unless it was stopped: "failed"
\* before it was ever healthy, "down" after.
ContainerChanges ==
  /\ \/ docker = "starting" /\ docker' \in {"healthy", "failed"}
     \/ docker = "failed" /\ docker' = "starting"
     \/ docker = "healthy" /\ docker' = "down"
     \/ docker = "down" /\ docker' = "healthy"
  /\ UNCHANGED <<scripts, tracked, started, idle, launch, checker, bounds>>

\* A script that finds its port taken exits.
ScriptChanges(n) ==
  /\ Alive(n)
  /\ \/ scripts[n] = "starting" /\ ~PortAnswers /\ scripts' = [scripts EXCEPT ![n] = "healthy"]
     \/ scripts' = Without(n)
  /\ UNCHANGED <<docker, tracked, started, idle, launch, checker, bounds>>

-----------------------------------------------------------------------------
\* The idle checker.

GoesIdle(i) ==
  /\ i \notin idle /\ idle' = idle \cup {i}
  /\ UNCHANGED <<docker, scripts, tracked, started, launch, checker, bounds>>

CheckerTurns(pc) == checker' = pc /\ UNCHANGED <<scripts, tracked, started, idle, launch, bounds>>

\* The age of the instance is looked at before the container is inspected.
StopIdle ==
  \/ checker = "sleep" /\ Docker \in idle /\ CheckerTurns("inspect") /\ UNCHANGED docker
  \/ checker = "inspect" /\ CheckerTurns(IF IsContainerRunning THEN "stop" ELSE "sleep") /\ UNCHANGED docker
  \/ checker = "stop" /\ StopContainer /\ CheckerTurns("rm")
  \/ checker = "rm" /\ RemoveContainer /\ CheckerTurns("sleep")

StopIdleScript ==
  /\ checker = "sleep" /\ Script \in idle /\ Alive(tracked)
  /\ TerminateProcess
  /\ UNCHANGED <<docker, started, idle, launch, checker, bounds>>

-----------------------------------------------------------------------------
\* The end of the host process; launches and the checker end with it.

HostEnds ==
  /\ exits < MaxExits /\ exits' = exits + 1
  /\ launch' = [w \in Workspaces |-> NoCall] /\ checker' = "sleep" /\ tracked' = 0
  /\ idle' = {} /\ UNCHANGED <<started, launches>>

StopAll == HostEnds /\ docker' = "absent" /\ scripts' = Without(tracked) /\ UNCHANGED crashed

\* Containers and scripts, which have a session of their own, live on.
HostCrashes == HostEnds /\ crashed' = TRUE /\ UNCHANGED <<docker, scripts>>

-----------------------------------------------------------------------------
LaunchStep(w) ==
  \/ EnsureDockerRunning(w) \/ EnsureMcpImage(w) \/ RemoveStale(w) \/ RunDocker(w)
  \/ WaitHealthy(w) \/ StopFailed(w) \/ EnsureScriptRunning(w) \/ ScriptWait(w)

McpNext ==
  \/ \E w \in Workspaces : EnsureWorkspaceRunning(w) \/ LaunchStep(w)
  \/ ContainerChanges \/ \E n \in DOMAIN scripts : ScriptChanges(n)
  \/ \E i \in {Docker, Script} : GoesIdle(i)
  \/ StopIdle \/ StopIdleScript \/ StopAll \/ HostCrashes

\* Docker commands have timeouts and health checks deadlines.
McpFairness == \A w \in Workspaces : WF_mcp_vars(LaunchStep(w))

McpSpec == McpInit /\ [][McpNext]_mcp_vars /\ McpFairness

-----------------------------------------------------------------------------
\* Whatever launches, failures and idle stops interleave, no script process is
\* alive that the instance has lost sight of, so that nothing could stop it.
\* A crash of the host leaves such processes behind.
ScriptsTracked == ~crashed => DOMAIN scripts \subseteq {tracked}

\* A container that was never healthy has a launch that will clear it away should
\* it never be, so that docker does not start it again for ever.
NoHalfStarted ==
  docker \in {"starting", "failed"} /\ ~crashed => \E w \in Workspaces : launch[w].pc \in {"wait", "stop", "rm"}

McpSound == ScriptsTracked /\ NoHalfStarted

\* A broken server does not hold up a launch for ever.
Launching(w) == launch[w].pc \notin {"none", "launched", "blocked"}
LaunchEnds == \A w \in Workspaces : Launching(w) ~> ~Launching(w)
=============================================================================

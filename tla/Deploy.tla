------------------------------- MODULE Deploy -------------------------------
(***************************************************************************)
(* Deployments and restarts: the four ways to ask for one (HTTP, IPC, the  *)
(* magic word and the git poll loop), the continuation file that carries   *)
(* sessions and the previous commit over the restart, the phases of a      *)
(* start, and the rollback when it fails (http_server.py, handlers_deploy, *)
(* session_handler.py, dep_factory.py, deploy.py, lifecycle.py,            *)
(* startup_handler.py, service_installer.py).                              *)
(*                                                                         *)
(* The commits of origin form one line and are numbered; how main and      *)
(* origin come apart is the subject of GitSync.  A commit is what it does  *)
(* to the service: where a process with it fails to start, and whether it  *)
(* touches the files of the container image.                               *)
(***************************************************************************)
EXTENDS Naturals, Sequences, FiniteSets

CONSTANTS
  SessionGroups,
  CommitKinds,         \* the commits there are: [fault : Faults, agent : BOOLEAN]
  MaxCommits,    \* bound of the model: commits that follow the first
  MaxRequests,   \* bound of the model: deployments that are asked for
  MaxDeployMishaps     \* bound of the model: crashes, and commands or starts that fail

\* A commit that cannot be imported, that fails while core and channels are set
\* up, or that fails later in the start.
Faults == {"none", "import", "early", "late"}

ASSUME DeployKinds == CommitKinds \subseteq [fault : Faults, agent : BOOLEAN]
ASSUME DeployBounds == {MaxCommits, MaxRequests, MaxDeployMishaps} \subseteq Nat

Paths == {"http", "ipc", "manual", "poll"}

VARIABLES
  history,  \* of origin, after the commit 0, which is good
  head,     \* of the host's main branch
  pulls,    \* the service manager pulls before it starts the process (systemd)
  phase,    \* of the process
  loaded,  \* the commit it has loaded
  cont,     \* deploy_continuation.json: no or one record
  req,      \* the deployment each path is working on
  baseline, \* deployed_sha of the poll loop
  fetched,  \* last_origin_sha of the poll loop
  sessions, \* groups with a session
  telling,  \* groups check_deploy_continuation has still to tell
  owed,     \* groups that wait for a notice since their session was interrupted
  dep_past  \* history and bounds

code == <<history, head, pulls>>
process == <<phase, loaded, baseline, fetched>>
resume == <<sessions, telling, owed>>
dep_vars == <<code, process, cont, req, resume, dep_past>>

newest == Len(history)
KindOf(c) == IF c = 0 THEN [fault |-> "none", agent |-> FALSE] ELSE history[c]
Fault(c) == KindOf(c).fault
Rebuilds(old, new) == \E c \in 1..newest : KindOf(c).agent /\ (c <= old) # (c <= new)

NoRequest == [pc |-> "idle", previous |-> 0, who |-> {}]
RequestPcs == {"idle", "build", "sessions", "write", "signal"}
NoCommit == MaxCommits + 1   \* the empty string

DeployTypeOK ==
  /\ Len(history) <= MaxCommits /\ \A c \in 1..newest : history[c] \in CommitKinds
  /\ {head, loaded, baseline, fetched} \subseteq 0..newest
  /\ phase \in {"down", "core", "later", "boot", "telling", "up", "stopping"}
  /\ Len(cont) <= 1 /\ \A i \in DOMAIN cont : cont[i].previous \in 0..newest \cup {NoCommit} /\ cont[i].who \subseteq SessionGroups
  /\ \A p \in Paths : req[p].pc \in RequestPcs /\ req[p].who \subseteq SessionGroups
  /\ sessions \cup telling \cup owed \subseteq SessionGroups
  /\ dep_past.mishaps \in 0..MaxDeployMishaps /\ dep_past.asked \in 0..MaxRequests

DeployInit ==
  /\ history = <<>> /\ head = 0 /\ pulls \in BOOLEAN
  /\ phase = "up" /\ loaded = 0 /\ cont = <<>>
  /\ req = [p \in Paths |-> NoRequest] /\ baseline = 0 /\ fetched = 0
  /\ sessions = {} /\ telling = {} /\ owed = {}
  /\ dep_past = [mishaps |-> 0, asked |-> 0, written |-> 0, rollbacks |-> 0]

DeployMishap == dep_past.mishaps < MaxDeployMishaps /\ dep_past' = [dep_past EXCEPT !.mishaps = @ + 1]
NothingFails == UNCHANGED dep_past

\* The subsystems that take requests run before the boot is finalized.
Serving == phase \in {"boot", "telling", "up"}

Asked == dep_past.asked < MaxRequests /\ dep_past' = [dep_past EXCEPT !.asked = @ + 1]

Next0(p, pc) == req' = [req EXCEPT ![p].pc = pc]
Drop(p) == req' = [req EXCEPT ![p] = NoRequest]

-----------------------------------------------------------------------------
\* What the world does.

OriginAdvances ==
  /\ newest < MaxCommits /\ \E k \in CommitKinds : history' = Append(history, k)
  /\ UNCHANGED <<head, pulls, process, cont, req, resume, dep_past>>

\* An agent's commit that is merged and pushed, or the poll loop's pull.
HeadMoves ==
  /\ Serving
  /\ \/ head = newest /\ newest < MaxCommits /\ \E k \in CommitKinds : history' = Append(history, k) /\ UNCHANGED fetched
     \/ head < newest /\ newest # fetched /\ fetched' = newest /\ UNCHANGED history
  /\ head' = Len(history')
  /\ UNCHANGED <<pulls, phase, loaded, baseline, cont, req, resume, dep_past>>

SessionStarts(g) ==
  /\ phase = "up" /\ g \notin sessions /\ sessions' = sessions \cup {g}
  /\ UNCHANGED <<code, process, cont, req, telling, owed, dep_past>>

-----------------------------------------------------------------------------
\* Asking for a deployment.

\* POST /deploy, up to the first await: what fails to import is taken back.
HandleDeploy ==
  /\ Serving /\ req["http"].pc = "idle" /\ Asked
  /\ head' \in {newest, head}   \* rebased onto origin, or not
  /\ req' = [req EXCEPT !["http"] =
       IF head' = head THEN [NoRequest EXCEPT !.pc = "signal"]  \* a plain restart
       ELSE [NoRequest EXCEPT !.pc = IF Rebuilds(head, head') THEN "build" ELSE "sessions", !.previous = head]]
  /\ Fault(head') # "import" \/ head' = head
  /\ UNCHANGED <<history, pulls, process, cont, resume>>

\* Answered with 422; the head is where it was.
ValidationFails ==
  /\ Serving /\ req["http"].pc = "idle" /\ Asked
  /\ head # newest /\ Fault(newest) = "import"
  /\ UNCHANGED <<code, process, cont, req, resume>>

\* The admin's deploy_changes: the head is also what to go back to.
IpcDeploy ==
  /\ Serving /\ req["ipc"].pc = "idle" /\ Asked
  /\ \E pc \in {"build", "sessions"} :
       req' = [req EXCEPT !["ipc"] = [NoRequest EXCEPT !.pc = pc, !.previous = head]]
  /\ UNCHANGED <<code, process, cont, resume>>

TriggerManualRedeploy ==
  /\ phase = "up" /\ req["manual"].pc = "idle" /\ Asked
  /\ req' = [req EXCEPT !["manual"] = [NoRequest EXCEPT !.pc = "sessions", !.previous = head]]
  /\ UNCHANGED <<code, process, cont, resume>>

\* The head or a config file is not what the loop started with.
PollDeploys ==
  /\ Serving /\ req["poll"].pc = "idle"
  /\ \/ /\ head # baseline /\ NothingFails
        /\ req' = [req EXCEPT !["poll"] =
             [NoRequest EXCEPT !.pc = IF Rebuilds(baseline, head) THEN "build" ELSE "sessions", !.previous = baseline]]
     \/ /\ Asked
        /\ req' = [req EXCEPT !["poll"] = [NoRequest EXCEPT !.pc = "sessions", !.previous = baseline]]
  /\ UNCHANGED <<code, process, cont, resume>>

-----------------------------------------------------------------------------
\* Carrying it out.

\* A failed build ends a deployment only if the agent asked for it.
BuildContainerImage(p) ==
  /\ req[p].pc = "build"
  /\ \/ NothingFails /\ Next0(p, "sessions")
     \/ DeployMishap /\ IF p = "ipc" THEN Drop(p) ELSE Next0(p, "sessions")
  /\ UNCHANGED <<code, process, cont, resume>>

CollectSessions(p) ==
  /\ req[p].pc = "sessions"
  /\ req' = [req EXCEPT ![p].pc = "write", ![p].who = sessions]
  /\ UNCHANGED <<code, process, cont, resume, dep_past>>

WriteContinuation(p) ==
  /\ req[p].pc = "write" /\ Next0(p, "signal")
  /\ cont' = <<[previous |-> req[p].previous, who |-> req[p].who]>>
  /\ owed' = req[p].who
  /\ dep_past' = [dep_past EXCEPT !.written = @ + 1]
  /\ UNCHANGED <<code, process, sessions, telling>>

\* The first SIGTERM starts the shutdown, which cancels the subsystems; the
\* second one, or the watchdog, ends the process at once.
Signal(p) ==
  /\ req[p].pc = "signal"
  /\ IF phase = "stopping"
     THEN phase' = "down" /\ req' = [q \in Paths |-> NoRequest] /\ telling' = {}
     ELSE /\ phase' = "stopping" /\ telling' = {}
          /\ req' = [q \in Paths |-> IF q \in {p, "poll", "ipc"} THEN NoRequest ELSE req[q]]
  /\ owed' = owed \ telling
  /\ UNCHANGED <<code, loaded, baseline, fetched, cont, sessions, dep_past>>

ShutdownApp ==
  /\ phase = "stopping" /\ phase' = "down" /\ req' = [p \in Paths |-> NoRequest]
  /\ UNCHANGED <<code, loaded, baseline, fetched, cont, resume, dep_past>>

\* What had been read from the file and not yet been said is lost.
ProcessDies ==
  /\ phase # "down" /\ DeployMishap
  /\ phase' = "down" /\ req' = [p \in Paths |-> NoRequest] /\ telling' = {} /\ owed' = owed \ telling
  /\ UNCHANGED <<code, loaded, baseline, fetched, cont, sessions>>

-----------------------------------------------------------------------------
\* The start.

\* ExecStartPre of the systemd unit, and the process; without a working import
\* there is none.
Start ==
  /\ phase = "down"
  /\ head' = IF pulls THEN newest ELSE head
  /\ Fault(head') # "import" \/ head' # head
  /\ IF Fault(head') = "import" THEN UNCHANGED <<phase, loaded>> ELSE phase' = "core" /\ loaded' = head'
  /\ UNCHANGED <<history, pulls, baseline, fetched, cont, req, resume, dep_past>>

KnowsPrevious == cont # <<>> /\ cont[1].previous # NoCommit
WithoutPrevious == <<[cont[1] EXCEPT !.previous = NoCommit]>>
RolledBack(past) == [past EXCEPT !.rollbacks = @ + 1]

\* A slip checked against DeploySound: what to go back to stays in the file.
KeepsPrevious(past) ==
  IF KnowsPrevious
  THEN head' = cont[1].previous /\ UNCHANGED cont /\ dep_past' = RolledBack(past)
  ELSE dep_past' = past /\ UNCHANGED <<head, cont>>

\* A slip checked against HostTypeOK: the empty commit is gone back to as well.
GoesBackAnyway(past) ==
  IF cont # <<>>
  THEN head' = cont[1].previous /\ cont' = WithoutPrevious /\ dep_past' = RolledBack(past)
  ELSE dep_past' = past /\ UNCHANGED <<head, cont>>

\* The reset may fail; then the file is as it was, and so is the next start.
AutoRollback(past) ==
  \/ KnowsPrevious /\ head' = cont[1].previous /\ cont' = WithoutPrevious /\ dep_past' = RolledBack(past)
  \/ KnowsPrevious /\ past.mishaps < MaxDeployMishaps
     /\ dep_past' = [past EXCEPT !.mishaps = @ + 1] /\ UNCHANGED <<head, cont>>
  \/ ~KnowsPrevious /\ dep_past' = past /\ UNCHANGED <<head, cont>>

\* Core and channels: the commit, or what it depends on, may fail.
InitializeCore ==
  /\ phase = "core"
  /\ \/ Fault(loaded) # "early" /\ phase' = "later" /\ UNCHANGED <<head, cont, dep_past>>
     \/ Fault(loaded) = "early" /\ phase' = "down" /\ AutoRollback(dep_past)
     \/ /\ Fault(loaded) = "none" /\ phase' = "down" /\ dep_past.mishaps < MaxDeployMishaps
        /\ AutoRollback([dep_past EXCEPT !.mishaps = @ + 1])
  /\ UNCHANGED <<history, pulls, loaded, baseline, fetched, req, resume>>

\* Reconciliation and subsystems; no rollback covers them.
StartSubsystems ==
  /\ phase = "later"
  /\ IF Fault(loaded) = "late" THEN phase' = "down" /\ UNCHANGED <<baseline, fetched>>
     ELSE phase' = "boot" /\ baseline' = head /\ fetched' = newest
  /\ UNCHANGED <<code, loaded, cont, req, resume, dep_past>>

SendBootNotification ==
  /\ phase = "boot" /\ phase' = "telling"
  /\ telling' = UNION {cont[i].who : i \in DOMAIN cont} /\ cont' = <<>>
  /\ UNCHANGED <<code, loaded, baseline, fetched, req, sessions, owed, dep_past>>

CheckDeployContinuation ==
  /\ phase = "telling"
  /\ \E g \in telling : owed' = owed \ {g} /\ telling' = telling \ {g}
  /\ UNCHANGED <<code, process, cont, req, sessions, dep_past>>

Up ==
  /\ phase = "telling" /\ telling = {} /\ phase' = "up"
  /\ UNCHANGED <<code, loaded, baseline, fetched, cont, req, resume, dep_past>>

-----------------------------------------------------------------------------
ProcessStep == ShutdownApp \/ Start \/ InitializeCore \/ StartSubsystems \/ SendBootNotification \/ CheckDeployContinuation \/ Up
RequestStep(p) == BuildContainerImage(p) \/ CollectSessions(p) \/ WriteContinuation(p) \/ Signal(p)

DeployNext ==
  \/ OriginAdvances \/ HeadMoves \/ \E g \in SessionGroups : SessionStarts(g)
  \/ HandleDeploy \/ ValidationFails \/ IpcDeploy \/ TriggerManualRedeploy \/ PollDeploys
  \/ \E p \in Paths : RequestStep(p)
  \/ ProcessStep \/ ProcessDies

\* The service manager restarts what ends, a build has a timeout, and the steps
\* of a process are not held up.
DeployFairness == WF_dep_vars(ProcessStep) /\ \A p \in Paths : WF_dep_vars(RequestStep(p))

DeploySpec == DeployInit /\ [][DeployNext]_dep_vars /\ DeployFairness

-----------------------------------------------------------------------------
\* "clear previous_commit_sha to prevent loops": there are no more rollbacks
\* than deployments, so none repeats.
RollbackOnce == dep_past.rollbacks <= dep_past.written

\* Whoever waits to hear that the deployment is done is named in the file or
\* about to be told: no step in between loses a session.
SessionsCarried == owed \subseteq telling \cup UNION {cont[i].who : i \in DOMAIN cont}

DeploySound == RollbackOnce /\ SessionsCarried

Bad(c) == Fault(c) # "none"

\* A deployment whose commit fails to start, and that knows a good commit to go
\* back to, ends with a service that serves, if nothing pulls the commit again.
CanGoBack ==
  /\ ~pulls /\ phase = "core" /\ Fault(loaded) = "early"
  /\ KnowsPrevious /\ ~Bad(cont[1].previous)
BadStartRecovers == CanGoBack ~> (phase = "boot")

\* A session that a deployment interrupted is resumed, if the service stays up.
InterruptedAndUp == owed # {} /\ phase = "up"
ResumeFollows == InterruptedAndUp ~> ~InterruptedAndUp
=============================================================================

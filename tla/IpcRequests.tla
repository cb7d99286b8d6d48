---------------------------- MODULE IpcRequests ----------------------------
(***************************************************************************)
(* Requests of an agent that the host answers: service calls, host-mutating*)
(* scripts, checks of shell commands and questions to the user.  The       *)
(* container writes a file and waits for a response file                   *)
(* (agent_tools/_ipc_request.py); the watcher picks it up (ipc/watcher.py),*)
(* a handler decides (ipc/handlers_*.py, security/cop_gate.py), and a      *)
(* human may have to approve or answer first (security/approval.py,        *)
(* messaging/approval_handler.py, pending_questions.py,                    *)
(* ask_user_handler.py).  The gate of the container collects taints from   *)
(* what the agent reads through the proxy (mcp/proxy.py).                  *)
(*                                                                         *)
(* One group.  Files survive the process, events and gates do not.  Writing*)
(* a file and recording an audit event do not fail.                        *)
(***************************************************************************)
EXTENDS Naturals, Sequences, FiniteSets, SequencesExt, SecurityGate

CONSTANTS
  Requests,     \* ids of requests
  Tools,        \* the services an agent can call
  Services,     \* the trust its workspace declares for some of them
  Scripts,      \* the services that are MCP scripts
  Bash, AskUser,\* the two other kinds of request
  NoGate,       \* no gate is registered
  MaxCrashes,   \* bound of the model: deaths of the process
  MaxSpawns,    \* bound of the model: containers
  MaxDecisions  \* bound of the model: decisions of the human

ASSUME ServicesAssumption == /\ Tools \cap {Bash, AskUser} = {} /\ Bash # AskUser /\ NoGate \notin Taint
                             /\ "unused" \notin Tools \cup {Bash, AskUser}
                             /\ Scripts \cup DOMAIN Services \subseteq Tools
                             /\ \A s \in DOMAIN Services : Services[s] \in Trust
ASSUME RequestBounds == {MaxCrashes, MaxSpawns, MaxDecisions} \subseteq Nat
ASSUME RequestsFinite == IsFiniteSet(Requests)

RequestKinds == Tools \cup {Bash, AskUser}
Decisions == {"approve", "deny"}

VARIABLES
  watcher,     \* "down", "sweep" at the start, "ready" once events arrive
  events,      \* files to process, in order
  worker,      \* what the one consumer of the events awaits
  kind,        \* of each request
  file,        \* the task file of a request
  pending,     \* the request as filed for a human
  decision,    \* the decision file
  response,    \* the response file
  waiter,      \* the tool call in the container
  container,   \* "none", "run" inside a run of the queue, "warm" between two
  gate,        \* the taints of the registered gate, or NoGate
  past         \* history and bounds

files == <<kind, file, pending, decision, response>>
request_vars == <<watcher, events, worker, files, waiter, container, gate, past>>

AtRest == [pc |-> "idle", r |-> 0, approved |-> FALSE]

RequestTypeOK ==
  /\ watcher \in {"down", "sweep", "ready"}
  /\ events \in Seq({"task", "decision"} \X Requests)
  /\ worker \in [pc : {"idle", "cop", "execute", "ask", "audit"}, r : Requests \cup {0}, approved : BOOLEAN]
  /\ kind \in [Requests -> RequestKinds \cup {"unused"}]
  /\ file \in [Requests -> {"none", "tasks", "errors"}]
  /\ pending \in [Requests -> {"none", "service", "ipc", "question"}]
  /\ decision \in [Requests -> Decisions \cup {"none"}]
  /\ response \in [Requests -> {"none", "result", "error"}]
  /\ waiter \in [Requests -> {"none", "waits", "result", "error", "gone"}]
  /\ container \in {"none", "run", "warm"}
  /\ gate \in Taint \cup {NoGate}
  /\ past \in [crashes : 0..MaxCrashes, spawns : 0..MaxSpawns, decisions : 0..MaxDecisions,
               executed : [Requests -> 0..(1 + MaxCrashes)], asked : SUBSET Requests,
               approved : SUBSET Requests, interrupted : SUBSET Requests, enqueued : SUBSET Requests]

RequestInit ==
  /\ watcher = "down" /\ events = <<>> /\ worker = AtRest
  /\ kind = [r \in Requests |-> "unused"] /\ file = [r \in Requests |-> "none"]
  /\ pending = [r \in Requests |-> "none"] /\ decision = [r \in Requests |-> "none"]
  /\ response = [r \in Requests |-> "none"] /\ waiter = [r \in Requests |-> "none"]
  /\ container = "none" /\ gate = NoGate
  /\ past = [crashes |-> 0, spawns |-> 0, decisions |-> 0, executed |-> [r \in Requests |-> 0],
             asked |-> {}, approved |-> {}, interrupted |-> {}, enqueued |-> {}]

-----------------------------------------------------------------------------
\* The container and its gate.

SpawnContainer ==
  /\ watcher # "down" /\ container = "none" /\ past.spawns < MaxSpawns
  /\ container' = "run" /\ gate' = Clean
  /\ past' = [past EXCEPT !.spawns = @ + 1]
  /\ UNCHANGED <<watcher, events, worker, files, waiter>>

\* The queue releases the slot, and the gate with it; the session stays.
ReleaseSlot ==
  /\ container = "run" /\ container' = "warm" /\ gate' = NoGate
  /\ UNCHANGED <<watcher, events, worker, files, waiter, past>>

\* A message to the warm session: a run without a gate.
FollowUp ==
  /\ container = "warm" /\ container' = "run"
  /\ UNCHANGED <<watcher, events, worker, files, waiter, gate, past>>

Gone == [r \in Requests |-> IF waiter[r] = "waits" THEN "gone" ELSE waiter[r]]

ContainerEnds ==
  /\ container # "none" /\ container' = "none" /\ gate' = NoGate /\ waiter' = Gone
  /\ UNCHANGED <<watcher, events, worker, files, past>>

\* The response of a public source is fenced, inspected, and taints the gate.
AfterFencing(s) ==
  IF TrustOf(Services, s).public_source = "no" THEN gate ELSE EvaluateRead(TrustOf(Services, s), gate)

\* A request that the proxy forwards and whose response it fences.  Only calls are
\* judged (by EvaluateWrite), and those not allowed or in need of a human are
\* answered 403; any other request passes and is fenced too, so the judgement
\* cannot be seen here.  No gate, or a response that is not JSON, changes nothing.
ProxyHandler(s) ==
  /\ container = "run" /\ gate # NoGate
  /\ gate' = AfterFencing(s)
  /\ UNCHANGED <<watcher, events, worker, files, waiter, container, past>>

\* The tool call: the file is written and its response awaited.  The watcher
\* hears of it only if its observer has been started.
ServiceRequest(r, k) ==
  /\ container = "run" /\ kind[r] = "unused"
  /\ kind' = [kind EXCEPT ![r] = k]
  /\ file' = [file EXCEPT ![r] = "tasks"]
  /\ waiter' = [waiter EXCEPT ![r] = "waits"]
  /\ events' = IF watcher = "ready" THEN Append(events, <<"task", r>>) ELSE events
  /\ UNCHANGED <<watcher, worker, pending, decision, response, container, gate, past>>

ReadResponse(r) ==
  /\ waiter[r] = "waits" /\ response[r] # "none"
  /\ waiter' = [waiter EXCEPT ![r] = response[r]]
  /\ response' = [response EXCEPT ![r] = "none"]
  /\ UNCHANGED <<watcher, events, worker, kind, file, pending, decision, container, gate, past>>

RequestTimesOut(r) ==
  /\ waiter[r] = "waits" /\ response[r] = "none"
  /\ waiter' = [waiter EXCEPT ![r] = "gone"]
  /\ UNCHANGED <<watcher, events, worker, files, container, gate, past>>

-----------------------------------------------------------------------------
\* The watcher: one consumer, which awaits what it handles.

\* A handler that finds no gate makes one for the request.
TaintNow == IF gate = NoGate THEN Clean ELSE gate

Turn(pc, r, approved) == worker' = [pc |-> pc, r |-> r, approved |-> approved]
Executed(r) == past' = [past EXCEPT !.executed[r] = @ + 1]
Respond(r, what) == response' = [response EXCEPT ![r] = what]
Unlink(r) == file' = [file EXCEPT ![r] = "none"]

\* The response is written and the task file removed.
Answers(r, what) == Respond(r, what) /\ Unlink(r) /\ worker' = AtRest
                    /\ UNCHANGED <<kind, pending, decision, past>>

\* No response: the container waits until the human decides.  The file is
\* removed after the human was told.
CreatePendingApproval(r, type) ==
  /\ pending' = [pending EXCEPT ![r] = type]
  /\ past' = [past EXCEPT !.asked = @ \cup {r}]
  /\ Turn("ask", r, FALSE)
  /\ UNCHANGED <<kind, file, decision, response>>

Starts(r, pc) == Turn(pc, r, FALSE) /\ UNCHANGED <<files, past>>

HandleServiceRequest(r) ==
  LET d == EvaluateWrite(TrustOf(Services, kind[r]), TaintNow, FALSE)
  IN  \/ ~d.allowed /\ Answers(r, "error")
      \/ d.allowed /\ d.human /\ CreatePendingApproval(r, "service")
      \/ d.allowed /\ ~d.human /\ kind[r] \in Scripts /\ Starts(r, "cop")
      \/ /\ d.allowed /\ ~d.human /\ kind[r] \notin Scripts
         /\ Turn("execute", r, FALSE) /\ Executed(r) /\ UNCHANGED files

\* The commands of a pipeline by their class; a safe one never gets here.
HandleBashSecurityCheck(r) ==
  \E parts \in SUBSET CommandClasses, flagged \in BOOLEAN :
    LET verdict == EvaluateBashCommand(TaintNow, ClassifyCommand(parts), flagged)
    IN  /\ BashEscalates(parts)
        /\ CASE verdict = "needs_human" -> CreatePendingApproval(r, "service")
             [] verdict = "allow" -> Answers(r, "result")
             [] verdict = "deny" -> Answers(r, "error")

CreatePendingQuestion(r) == pending' = [pending EXCEPT ![r] = "question"]

\* The question is filed and then put to the channel.
HandleAskUserRequest(r) ==
  \/ CreatePendingQuestion(r) /\ Turn("ask", r, FALSE)
     /\ UNCHANGED <<kind, file, decision, response, past>>
  \/ Answers(r, "error")      \* no workspace, no channel, or one that cannot ask

ProcessTaskFile(r) ==
  \/ kind[r] \in Tools /\ HandleServiceRequest(r)
  \/ kind[r] = Bash /\ HandleBashSecurityCheck(r)
  \/ kind[r] = AskUser /\ HandleAskUserRequest(r)

\* A slip checked against RequestsSound: the filing is left behind.
KeepsFiling(r) == UNCHANGED pending /\ decision' = [decision EXCEPT ![r] = "none"]

Discard(r) == pending' = [pending EXCEPT ![r] = "none"] /\ decision' = [decision EXCEPT ![r] = "none"]

\* A script that was flagged goes through the whole handler again, without the
\* inspection; a policy that asks for a human by now gets no answer, because
\* the new filing is removed together with the old one.
ApprovedAgain(r) ==
  LET d == EvaluateWrite(TrustOf(Services, kind[r]), TaintNow, FALSE)
  IN  \/ ~d.allowed /\ Respond(r, "error") /\ Turn("audit", r, TRUE) /\ UNCHANGED past
      \/ d.allowed /\ d.human /\ Turn("audit", r, TRUE) /\ UNCHANGED <<response, past>>
      \/ d.allowed /\ ~d.human /\ Turn("execute", r, TRUE) /\ Executed(r) /\ UNCHANGED response

ProcessApprovalDecision(r) ==
  \/ /\ pending[r] = "none"
     /\ Discard(r) /\ worker' = AtRest /\ UNCHANGED <<kind, file, response, past>>
  \/ /\ pending[r] # "none" /\ decision[r] = "deny"
     /\ Respond(r, "error") /\ Turn("audit", r, TRUE) /\ UNCHANGED <<kind, file, pending, decision, past>>
  \/ /\ pending[r] = "service" /\ decision[r] = "approve"
     /\ IF kind[r] = Bash    \* a name no plugin serves
        THEN Respond(r, "error") /\ Turn("audit", r, TRUE) /\ UNCHANGED past
        ELSE Turn("execute", r, TRUE) /\ Executed(r) /\ UNCHANGED response
     /\ UNCHANGED <<kind, file, pending, decision>>
  \/ /\ pending[r] = "ipc" /\ decision[r] = "approve"
     /\ ApprovedAgain(r) /\ UNCHANGED <<kind, file, pending, decision>>

\* An event whose file is gone is skipped.
ProcessQueue ==
  /\ watcher # "down" /\ worker = AtRest /\ events # <<>>
  /\ events' = Tail(events)
  /\ LET r == Head(events)[2]
     IN  CASE Head(events)[1] = "task" /\ file[r] = "tasks" -> ProcessTaskFile(r)
           [] Head(events)[1] = "decision" /\ decision[r] # "none" -> ProcessApprovalDecision(r)
           [] OTHER -> UNCHANGED <<files, worker, past>>
  /\ UNCHANGED <<watcher, waiter, container, gate>>

CopGate ==
  /\ worker.pc = "cop"
  /\ \/ Turn("execute", worker.r, FALSE) /\ Executed(worker.r) /\ UNCHANGED files
     \/ CreatePendingApproval(worker.r, "ipc")
     \/ /\ file' = [file EXCEPT ![worker.r] = "errors"] /\ worker' = AtRest   \* telling raised
        /\ UNCHANGED <<kind, pending, decision, response, past>>
  /\ UNCHANGED <<watcher, events, waiter, container, gate>>

\* The tool is done, or has raised: a task goes to the errors directory without
\* a response, an approved one is answered with the error.
ToolEnds ==
  /\ worker.pc = "execute"
  /\ LET r == worker.r
     IN  IF worker.approved
         THEN /\ \E what \in {"result", "error"} : Respond(r, what)
              /\ Turn("audit", r, TRUE) /\ UNCHANGED <<kind, file, pending, decision, past>>
         ELSE \/ Answers(r, "result")
              \/ /\ file' = [file EXCEPT ![r] = "errors"] /\ worker' = AtRest
                 /\ UNCHANGED <<kind, pending, decision, response, past>>
  /\ UNCHANGED <<watcher, events, waiter, container, gate>>

\* The human has been told, or telling raised.
Told ==
  /\ worker.pc = "ask"
  /\ \E to \in {"none", "errors"} : file' = [file EXCEPT ![worker.r] = to]
  /\ worker' = AtRest
  /\ UNCHANGED <<watcher, events, kind, pending, decision, response, waiter, container, gate, past>>

Audited ==
  /\ worker.pc = "audit" /\ Discard(worker.r) /\ worker' = AtRest
  /\ UNCHANGED <<watcher, events, kind, file, response, waiter, container, gate, past>>

-----------------------------------------------------------------------------
\* The human.

PendingApproval(r) == pending[r] \in {"service", "ipc"}
PendingQuestion(r) == pending[r] = "question"

HandleApprovalCommand(r, d) ==
  /\ watcher # "down" /\ PendingApproval(r) /\ past.decisions < MaxDecisions
  /\ decision' = [decision EXCEPT ![r] = d]
  /\ past' = [past EXCEPT !.decisions = @ + 1, !.approved = IF d = "approve" THEN @ \cup {r} ELSE @]
  /\ events' = IF watcher = "ready" THEN Append(events, <<"decision", r>>) ELSE events
  /\ UNCHANGED <<watcher, worker, kind, file, pending, response, waiter, container, gate>>

ResolvePendingQuestion(r) == pending' = [pending EXCEPT ![r] = "none"]

\* An answer goes to the container of the group, whichever that is now, or
\* becomes a message that starts one.
HandleAskUserAnswer(r) ==
  /\ watcher # "down" /\ PendingQuestion(r) /\ ResolvePendingQuestion(r)
  /\ IF container # "none" THEN Respond(r, "result") /\ UNCHANGED past
     ELSE past' = [past EXCEPT !.enqueued = @ \cup {r}] /\ UNCHANGED response
  /\ UNCHANGED <<watcher, events, worker, kind, file, decision, waiter, container, gate>>

-----------------------------------------------------------------------------
\* Deaths and starts of the process.  Containers of the old one are removed.

WatcherCrash ==
  /\ watcher # "down" /\ past.crashes < MaxCrashes
  /\ watcher' = "down" /\ events' = <<>> /\ worker' = AtRest
  /\ waiter' = Gone /\ container' = "none" /\ gate' = NoGate
  /\ past' = [past EXCEPT !.crashes = @ + 1,
                !.interrupted = IF worker = AtRest THEN @ ELSE @ \cup {worker.r}]
  /\ UNCHANGED files

\* The task files found are processed before the observer is started.
StartIpcWatcher ==
  /\ watcher = "down" /\ watcher' = "sweep"
  /\ events' = SetToSeq({<<"task", r>> : r \in {q \in Requests : file[q] = "tasks"}})
  /\ UNCHANGED <<worker, files, waiter, container, gate, past>>

\* Then whatever has waited too long for a human is answered with an error,
\* and decisions that belong to nothing are removed.
Expired(r) == waiter[r] # "waits"
ExpiredApprovals == {r \in Requests : PendingApproval(r) /\ Expired(r)}
ExpiredQuestions == {r \in Requests : PendingQuestion(r) /\ Expired(r)}

SweepEnds ==
  /\ watcher = "sweep" /\ events = <<>> /\ worker = AtRest /\ watcher' = "ready"
  /\ \E old \in SUBSET (ExpiredApprovals \cup ExpiredQuestions) :
       /\ pending' = [r \in Requests |-> IF r \in old THEN "none" ELSE pending[r]]
       /\ response' = [r \in Requests |-> IF r \in old THEN "error" ELSE response[r]]
       /\ decision' = [r \in Requests |-> IF pending'[r] = "none" THEN "none" ELSE decision[r]]
  /\ UNCHANGED <<events, worker, kind, file, waiter, container, gate, past>>

-----------------------------------------------------------------------------
WatcherStep == ProcessQueue \/ CopGate \/ ToolEnds \/ Told \/ Audited \/ StartIpcWatcher \/ SweepEnds

RequestNext ==
  \/ SpawnContainer \/ ReleaseSlot \/ FollowUp \/ ContainerEnds
  \/ \E s \in Tools : ProxyHandler(s)
  \/ \E r \in Requests :
       \/ \E k \in RequestKinds : ServiceRequest(r, k)
       \/ ReadResponse(r) \/ RequestTimesOut(r) \/ HandleAskUserAnswer(r)
       \/ \E d \in Decisions : HandleApprovalCommand(r, d)
  \/ WatcherStep \/ WatcherCrash

\* The consumer is a task of the event loop, tools and channels have timeouts.
RequestFairness == WF_request_vars(WatcherStep)

RequestSpec == RequestInit /\ [][RequestNext]_request_vars /\ RequestFairness

-----------------------------------------------------------------------------
\* A tool runs twice for one request only if the process died while it ran.
ExecutedOnce == \A r \in Requests : past.executed[r] > 1 => r \in past.interrupted

\* A request that was put to the human is not carried out before the human
\* approves, whatever is denied, approved and restarted meanwhile.
ApprovalRespected ==
  \A r \in past.asked \ past.interrupted : past.executed[r] > 0 => r \in past.approved

\* Who waits has a reason to: the file is yet to be handled, the human is yet
\* to decide, the response is there, or the tool raised and there is none to
\* come.  A flagged script judged again (ApprovedAgain) is the other gap.
NobodyForgotten ==
  \A r \in Requests : waiter[r] = "waits" =>
    \/ file[r] # "none" \/ pending[r] # "none" \/ response[r] # "none"
    \/ kind[r] \in Scripts /\ r \in past.approved

RequestsSound == ExecutedOnce /\ ApprovalRespected /\ NobodyForgotten

\* Whatever a registered gate has collected by now, its decisions are as strict
\* as with less, and the three together ask a human.
PolicySound == gate # NoGate => StricterThanBefore(gate) /\ TrifectaAsksHuman(gate)

\* A decision the watcher has heard of is carried out: its files are gone in
\* the end, whatever the tool does and whatever else is being handled.  Only a
\* death of the process stops that, and the next start does not look at
\* decisions that belong to a filing.
Heard(r) == <<"decision", r>> \in ToSet(events)
Settled(r) == decision[r] = "none" \/ watcher = "down"
DecisionsTakeEffect == \A r \in Requests : Heard(r) ~> Settled(r)
=============================================================================

----------------------------- MODULE MCAgentSide -----------------------------
(***************************************************************************)
(* One run for what serves an agent and the chats, and shares no state:    *)
(* the requests of an agent to the host, the tool servers, the tools that  *)
(* drive a browser, the agent's own program, its output, the Slack channel *)
(* and its cards, and WhatsApp.  turn says which of them moves; the others *)
(* stay in one of their initial states.  watched is the one of its waits   *)
(* that ServicesLive is about; it does not change.                         *)
(***************************************************************************)
EXTENDS IpcRequests, McpServers, BrowserTools, AgentLoop,
        AgentOutput, SlackChannel, SlackCards, WhatsAppChannel

VARIABLES turn, watched

agent_vars == <<request_vars, mcp_vars, browser_vars, loop_vars>>
chat_vars == <<out_vars, slack_vars, card_vars, wa_vars>>
about == <<turn, watched>>
side_vars == <<agent_vars, chat_vars, about>>

\* What the declared trust of a service can be like: anybody writes to it and
\* reads it; nobody but the user; a script; one that must not be written to.
ServiceTrust ==
  LET T(source, data, sink, dangerous) ==
        [public_source |-> source, secret_data |-> data, public_sink |-> sink, dangerous_writes |-> dangerous]
  IN  [web |-> T("yes", FALSE, "yes", "no"), cal |-> T("no", TRUE, "no", "no"),
       job |-> T("yes", TRUE, "no", "no"), off |-> T("no", FALSE, "forbidden", "no")]

-----------------------------------------------------------------------------
RequestMoves(A) == turn = "requests" /\ A /\ UNCHANGED <<mcp_vars, browser_vars, loop_vars, chat_vars, about>>
McpMoves(A) == turn = "mcp" /\ A /\ UNCHANGED <<request_vars, browser_vars, loop_vars, chat_vars, about>>
BrowserMoves(A) == turn = "browser" /\ A /\ UNCHANGED <<request_vars, mcp_vars, loop_vars, chat_vars, about>>
LoopMoves(A) == turn = "loop" /\ A /\ UNCHANGED <<request_vars, mcp_vars, browser_vars, chat_vars, about>>
OutputMoves(A) == turn = "output" /\ A /\ UNCHANGED <<slack_vars, card_vars, wa_vars, agent_vars, about>>
SlackMoves(A) == turn = "slack" /\ A /\ UNCHANGED <<out_vars, card_vars, wa_vars, agent_vars, about>>
CardMoves(A) == turn = "cards" /\ A /\ UNCHANGED <<out_vars, slack_vars, wa_vars, agent_vars, about>>
WhatsAppMoves(A) == turn = "whatsapp" /\ A /\ UNCHANGED <<out_vars, slack_vars, card_vars, agent_vars, about>>

SideInit ==
  /\ RequestInit /\ McpInit /\ BrowserInit /\ LoopInit
  /\ OutputInit /\ SlackInit /\ CardsInit /\ WhatsAppInit
  /\ turn \in {"requests", "mcp", "browser", "loop", "output", "slack", "cards", "whatsapp"}
  /\ watched \in CASE turn = "slack" -> 1..3 [] turn = "loop" -> 1..2 [] OTHER -> {1}
  /\ turn # "loop" => core = "claude"
  /\ turn # "output" => updates
  /\ turn # "slack" => chat = "there"
  /\ turn # "cards" => \A c \in Cards : ~undecided[c]

SideNext ==
  \/ RequestMoves(RequestNext) \/ McpMoves(McpNext) \/ BrowserMoves(BrowserNext) \/ LoopMoves(LoopNext)
  \/ OutputMoves(OutputNext) \/ SlackMoves(SlackNext) \/ CardMoves(CardsNext) \/ WhatsAppMoves(WhatsAppNext)

\* The fairness of the components, of the one that moves: as turn does not change,
\* weak fairness of steps of different components is weak fairness of their
\* disjunction.
SideFairness ==
  /\ WF_side_vars(\/ RequestMoves(WatcherStep) \/ McpMoves(LaunchStep("a")) \/ OutputMoves(TimerFlush)
                  \/ SlackMoves(ComeBack) \/ WhatsAppMoves(OnConnected))
  /\ WF_side_vars(\/ McpMoves(LaunchStep("b")) \/ BrowserMoves(Runs) \/ OutputMoves(FlightLands)
                  \/ SlackMoves(HandlerIngests) \/ WhatsAppMoves(Loop))
  /\ WF_side_vars(\/ LoopMoves(Program) \/ OutputMoves(HandlerStep)
                  \/ SlackMoves(FetchInboundSince) \/ WhatsAppMoves(AnswerRuns))
  /\ WF_side_vars(SlackMoves(Reconcile))

SideSpec == SideInit /\ [][SideNext]_side_vars /\ SideFairness

-----------------------------------------------------------------------------
\* Every variable of the components has its type.
AgentTypeOK == RequestTypeOK /\ McpTypeOK /\ BrowserTypeOK /\ LoopTypeOK
ChatTypeOK == OutputTypeOK /\ SlackTypeOK /\ CardsTypeOK /\ WhatsAppTypeOK

\* What is waited for, of the component that moves, and the end of the wait:
\* DecisionsTakeEffect, LaunchEnds (of a workspace: they are alike), CallsEnd, InputIsRead and
\* CloseIsObeyed, TracesAreSent, MessagesArrive and ConnectionComesBack.
Awaited ==
  \/ turn = "requests" /\ Heard(1)
  \/ turn = "mcp" /\ Launching("a")
  \/ turn = "browser" /\ call # Idle
  \/ turn = "loop" /\ IF watched = 1 THEN InputThere ELSE CloseThere
  \/ turn = "output" /\ buffer # <<>>
  \/ turn = "slack" /\ IF watched = 3 THEN phase # "up" ELSE Unrecorded(watched)
Ended ==
  \/ turn = "requests" /\ Settled(1)
  \/ turn = "mcp" /\ ~Launching("a")
  \/ turn = "browser" /\ call = Idle
  \/ turn = "loop" /\ IF watched = 1 THEN InputGone ELSE loop.pc = "off"
  \/ turn = "output" /\ buffer = <<>>
  \/ turn = "slack" /\ IF watched = 3 THEN phase = "up" ELSE watched \in stored

\* What is waited for comes: a human's decision is carried out (ipc/_watcher), a
\* launch and a tool call end (mcp/lifecycle.py, integrations), a follow-up is read
\* and a sentinel obeyed (agent_runner/main.py), traces leave the buffer
\* (streaming.py), messages are stored and connections made again (slack).
ServicesLive == Awaited ~> Ended
=============================================================================

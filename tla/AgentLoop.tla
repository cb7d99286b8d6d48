----------------------------- MODULE AgentLoop -----------------------------
(***************************************************************************)
(* The program inside a container (agent_runner/main.py, ipc.py and the    *)
(* two cores).  It reads its first input, drains what else lies in the     *)
(* input directory, and then asks the core, writes what comes out, and     *)
(* waits for the next input, until the sentinel _close says to end.  The   *)
(* host (see ContainerSession) starts it, cleans the directory when it     *)
(* registers the session, writes follow-ups and the sentinel, and keeps    *)
(* the session of the last output.                                         *)
(*                                                                         *)
(* A message is its number; a session is the sequence of messages it       *)
(* knows.  Claude names the session of a query at its start, OpenAI when   *)
(* the answer is complete, and has a second model to fall back on.         *)
(***************************************************************************)
EXTENDS Naturals, Sequences, SequencesExt

CONSTANTS
  Cores,         \* subset of {"claude", "openai"}
  MaxMessages,   \* bound of the model: messages of the chat
  MaxMishaps     \* bound of the model: failures and ends that nobody asked for

ASSUME LoopAssumption ==
  Cores \subseteq {"claude", "openai"} /\ {MaxMessages, MaxMishaps} \subseteq Nat

VARIABLES
  core,       \* the agent core of the group
  inbox,      \* messages in the input directory, by name
  sentinel,   \* _close is there
  initial,    \* message in initial.json, 0 for none
  registered, \* the host has a session for the container
  loop,       \* how far the program is
  session,    \* session_id: of the core, and the one the running query has
  wake,       \* the event set by the observer of the directory
  saved,      \* the session the host resumes
  asked,      \* messages in the prompts so far
  loop_past   \* bounds

loop_vars == <<core, inbox, sentinel, initial, registered, loop, session, wake, saved, asked, loop_past>>

Messages == 1..MaxMessages
Off == [pc |-> "off", prompt |-> <<>>, attempt |-> 1]
Waiting == loop.pc \in {"check", "drain", "sleep"}

LoopTypeOK ==
  /\ core \in Cores /\ {inbox, saved, asked, session.core, session.query, loop.prompt} \subseteq Seq(Messages)
  /\ sentinel \in BOOLEAN /\ registered \in BOOLEAN /\ wake \in BOOLEAN
  /\ initial \in 0..MaxMessages /\ loop.attempt \in {1, 2}
  /\ loop.pc \in {"off", "boot", "start", "asks", "answers", "result", "check", "drain", "sleep"}
  /\ loop_past.messages \in 0..MaxMessages /\ loop_past.mishaps \in 0..MaxMishaps

LoopInit ==
  /\ core \in Cores /\ inbox = <<>> /\ sentinel = FALSE /\ initial = 0 /\ registered = FALSE
  /\ loop = Off /\ session = [core |-> <<>>, query |-> <<>>] /\ wake = FALSE
  /\ saved = <<>> /\ asked = <<>> /\ loop_past = [messages |-> 0, mishaps |-> 0]

NewMessage == loop_past.messages + 1
Counted == loop_past.messages < MaxMessages /\ loop_past' = [loop_past EXCEPT !.messages = @ + 1]
LoopMishap == loop_past.mishaps < MaxMishaps /\ loop_past' = [loop_past EXCEPT !.mishaps = @ + 1]

\* The program ends: by itself, or because it was made to.
Exits == loop' = Off /\ registered' = FALSE /\ wake' = FALSE

-----------------------------------------------------------------------------
\* The host.

\* _spawn_container: the input is written, then the container is started.
ContainerStarts ==
  /\ loop.pc = "off" /\ Counted /\ initial' = NewMessage /\ loop' = [Off EXCEPT !.pc = "boot"]
  /\ UNCHANGED <<core, inbox, sentinel, registered, session, wake, saved, asked>>

\* create_session: the directory is cleaned while the container starts.
CreateSession ==
  /\ loop.pc # "off" /\ ~registered /\ registered' = TRUE /\ inbox' = <<>> /\ sentinel' = FALSE
  /\ UNCHANGED <<core, initial, loop, session, wake, saved, asked, loop_past>>

\* write_ipc_message; the observer runs while the program waits.
WriteIpcMessage ==
  /\ registered /\ Counted /\ inbox' = Append(inbox, NewMessage) /\ wake' = Waiting
  /\ UNCHANGED <<core, sentinel, initial, registered, loop, session, saved, asked>>

\* write_ipc_close_sentinel by the host, _exit_container by a tool.
WriteCloseSentinel ==
  /\ registered /\ ~sentinel /\ LoopMishap /\ sentinel' = TRUE /\ wake' = (wake \/ Waiting)
  /\ UNCHANGED <<core, inbox, initial, registered, loop, session, saved, asked>>

\* docker rm -f, out of memory.
Killed ==
  /\ loop.pc # "off" /\ LoopMishap /\ Exits
  /\ UNCHANGED <<core, inbox, sentinel, initial, session, saved, asked>>

-----------------------------------------------------------------------------
\* main, up to the first query.

\* read_initial_input, a stale sentinel is unlinked, the directory is drained
\* into the prompt.
ReadsInput ==
  /\ loop.pc = "boot" /\ initial # 0
  /\ initial' = 0 /\ sentinel' = FALSE /\ inbox' = <<>>
  /\ loop' = [loop EXCEPT !.pc = "start", !.prompt = <<initial>> \o inbox]
  /\ session' = [core |-> saved, query |-> <<>>]
  /\ UNCHANGED <<core, registered, wake, saved, asked, loop_past>>

CoreStarts ==
  /\ loop.pc = "start" /\ loop' = [loop EXCEPT !.pc = "asks"] /\ asked' = asked \o loop.prompt
  /\ UNCHANGED <<core, inbox, sentinel, initial, registered, session, wake, saved, loop_past>>

\* The core's module, a tool server or the client fails: an error is written and
\* the program exits, with the prompt.
CoreFailsToStart ==
  /\ loop.pc = "start" /\ LoopMishap /\ Exits
  /\ UNCHANGED <<core, inbox, sentinel, initial, session, saved, asked>>

-----------------------------------------------------------------------------
\* core.query, and the loop over its events.

\* The session a query names at its start: Claude's system event names the new
\* one, OpenAI has none before the stream is complete.
SystemEvent == IF core = "claude" THEN session.core \o loop.prompt ELSE <<>>

\* The first event.
QueryStarts ==
  /\ loop.pc = "asks" /\ ~sentinel /\ loop' = [loop EXCEPT !.pc = "answers"]
  /\ session' = [session EXCEPT !.query = SystemEvent]
  /\ UNCHANGED <<core, inbox, sentinel, initial, registered, wake, saved, asked, loop_past>>

\* A slip checked against LoopTypeOK: every attempt is followed by another one.
FallsBackAgain ==
  /\ loop.pc = "asks" /\ core = "openai" /\ LoopMishap
  /\ loop' = [loop EXCEPT !.attempt = @ + 1]
  /\ UNCHANGED <<core, inbox, sentinel, initial, registered, session, wake, saved, asked>>

\* The model is not found and nothing came out yet: OpenAI's second attempt.
FallsBack ==
  /\ loop.pc = "asks" /\ core = "openai" /\ loop.attempt = 1 /\ LoopMishap
  /\ loop' = [loop EXCEPT !.attempt = 2]
  /\ UNCHANGED <<core, inbox, sentinel, initial, registered, session, wake, saved, asked>>

\* Any other error is written with the session so far.
QueryFails ==
  /\ loop.pc \in {"asks", "answers"} /\ LoopMishap /\ Exits /\ saved' = session.core
  /\ UNCHANGED <<core, inbox, sentinel, initial, session, asked>>

\* The sentinel is looked for at each event; what is left of the answer is not
\* written.
CloseSeen ==
  /\ loop.pc \in {"asks", "answers"} /\ sentinel /\ sentinel' = FALSE /\ Exits
  /\ UNCHANGED <<core, inbox, initial, session, saved, asked, loop_past>>

\* event_to_output: an output carries the session that is known by then.
NewSessionId == IF session.query # <<>> THEN session.query ELSE session.core

\* The core has read the answer to its end and gives the result.
Result ==
  /\ loop.pc = "answers" /\ ~sentinel /\ loop' = [loop EXCEPT !.pc = "result"]
  /\ saved' = NewSessionId
  /\ UNCHANGED <<core, inbox, sentinel, initial, registered, session, wake, asked, loop_past>>

\* A slip checked against SessionIsSaved: the output that ends a query is left out.
EndsWithoutPulse ==
  /\ loop.pc = "result" /\ loop' = [loop EXCEPT !.pc = "check", !.attempt = 1]
  /\ session' = [core |-> session.core \o loop.prompt, query |-> <<>>]
  /\ wake' = FALSE
  /\ UNCHANGED <<core, inbox, sentinel, initial, registered, saved, asked, loop_past>>

\* The core has its session; an output without a result tells the host.
QueryEnds ==
  /\ loop.pc = "result" /\ loop' = [loop EXCEPT !.pc = "check", !.attempt = 1]
  /\ session' = [core |-> session.core \o loop.prompt, query |-> <<>>]
  /\ saved' = session'.core /\ wake' = FALSE
  /\ UNCHANGED <<core, inbox, sentinel, initial, registered, asked, loop_past>>

-----------------------------------------------------------------------------
\* wait_for_ipc_message.

ShouldClose ==
  /\ loop.pc = "check"
  /\ IF sentinel THEN sentinel' = FALSE /\ Exits
     ELSE loop' = [loop EXCEPT !.pc = "drain"] /\ UNCHANGED <<sentinel, registered, wake>>
  /\ UNCHANGED <<core, inbox, initial, session, saved, asked, loop_past>>

\* All that is there becomes one prompt.
DrainIpcInput ==
  /\ loop.pc = "drain" /\ inbox' = <<>>
  /\ loop' = (IF inbox = <<>> THEN [loop EXCEPT !.pc = "sleep"] ELSE [loop EXCEPT !.pc = "asks", !.prompt = inbox])
  /\ asked' = asked \o inbox /\ wake' = (wake /\ inbox = <<>>)
  /\ UNCHANGED <<core, sentinel, initial, registered, session, saved, loop_past>>

Wakes ==
  /\ loop.pc = "sleep" /\ wake /\ wake' = FALSE /\ loop' = [loop EXCEPT !.pc = "check"]
  /\ UNCHANGED <<core, inbox, sentinel, initial, registered, session, saved, asked, loop_past>>

-----------------------------------------------------------------------------
Program ==
  \/ ReadsInput \/ CoreStarts \/ QueryStarts \/ CloseSeen \/ Result \/ QueryEnds
  \/ ShouldClose \/ DrainIpcInput \/ Wakes

LoopNext ==
  \/ ContainerStarts \/ CreateSession \/ WriteIpcMessage \/ WriteCloseSentinel \/ Killed
  \/ CoreFailsToStart \/ FallsBack \/ QueryFails \/ Program

\* The program runs on, and a model that is asked answers in the end.
LoopFairness == WF_loop_vars(Program)

LoopSpec == LoopInit /\ [][LoopNext]_loop_vars /\ LoopFairness

-----------------------------------------------------------------------------
\* No message is put to the agent twice, however containers end and start while
\* the directory is read, cleaned and written.
AskedOnce == \A i, j \in DOMAIN asked : asked[i] = asked[j] => i = j

\* A program that waits has told the host the session it is in, whatever the core:
\* a container that is started anew resumes what the last one knew.
SessionIsSaved == Waiting => saved = session.core

\* No message is repeated to the agent and no session forgotten.
LoopSound == AskedOnce /\ SessionIsSaved

\* Follow-ups that lie in the directory are read while the program is there: no
\* wake-up is lost between reading the directory and the wait.
InputThere == inbox # <<>> /\ Waiting
InputGone == inbox = <<>> \/ loop.pc = "off"
InputIsRead == InputThere ~> InputGone

\* A program that has read its input and is told to close ends.
CloseThere == sentinel /\ registered /\ loop.pc # "boot"
CloseIsObeyed == CloseThere ~> loop.pc = "off"
=============================================================================

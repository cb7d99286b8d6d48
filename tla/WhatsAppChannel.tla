-------------------------- MODULE WhatsAppChannel --------------------------
(***************************************************************************)
(* The WhatsApp channel (whatsapp/channel.py).  What cannot be sent waits  *)
(* in a queue in memory, and a flush at every connection sends it; to the  *)
(* caller a message is sent either way.  A message of the chat is taken as *)
(* the answer when a question is pending, else it goes to the pipeline.    *)
(*                                                                         *)
(* Messages are numbers, outbound and inbound apart.  The flush has no     *)
(* await but that of a send: while there is no connection it does not give *)
(* the event loop back.                                                    *)
(***************************************************************************)
EXTENDS Naturals, Sequences, FiniteSets, SequencesExt

CONSTANTS
  MaxSends, MaxInbound,   \* bounds of the model: messages either way
  MaxFailures             \* bound of the model: connections lost, sends that fail

ASSUME WhatsAppBounds == {MaxSends, MaxInbound, MaxFailures} \subseteq Nat

VARIABLES
  connected,  \* _connected
  queue,      \* _outgoing_queue
  flush,      \* _flush_outgoing_queue: tasks not started, and the one that runs
  sends,      \* sends of callers on their way to WhatsApp
  phone,      \* what has arrived
  told,       \* what the callers take for sent
  question,   \* a question is pending for the chat; answer tasks not started
  inbound,    \* what became of the messages of the chat
  wa_failures

wa_vars == <<connected, queue, flush, sends, phone, told, question, inbound, wa_failures>>
outward == <<connected, queue, flush, sends, phone, told>>

Sent == 1..MaxSends
NotFlushing == [due |-> 0, on |-> FALSE, item |-> 0]

WhatsAppTypeOK ==
  /\ connected \in BOOLEAN /\ queue \in Seq(Sent) /\ sends \cup told \subseteq Sent
  /\ flush.due \in Nat /\ flush.on \in BOOLEAN /\ flush.item \in 0..MaxSends
  /\ phone \in Seq(Sent) /\ wa_failures \in 0..MaxFailures
  /\ question.pending \in BOOLEAN /\ question.answers \subseteq 1..MaxInbound
  /\ \A m \in DOMAIN inbound : inbound[m] \in {"piped", "answering", "answered", "dropped"}

WhatsAppInit ==
  /\ connected = FALSE /\ queue = <<>> /\ flush = NotFlushing /\ sends = {} /\ phone = <<>> /\ told = {}
  /\ question = [pending |-> FALSE, answers |-> {}] /\ inbound = <<>> /\ wa_failures = 0

WhatsAppFails == wa_failures < MaxFailures /\ wa_failures' = wa_failures + 1

\* A flush between two sends has the event loop.
Running == flush.on /\ flush.item = 0
Attempts == Cardinality(told \cup sends)

-----------------------------------------------------------------------------
\* on_connected starts a flush; on_disconnected and on_connect_failure.

OnConnected ==
  /\ ~Running /\ ~connected /\ connected' = TRUE
  /\ flush' = [flush EXCEPT !.due = @ + 1]
  /\ UNCHANGED <<queue, sends, phone, told, question, inbound, wa_failures>>

OnDisconnected ==
  /\ ~Running /\ connected /\ WhatsAppFails /\ connected' = FALSE
  /\ UNCHANGED <<queue, flush, sends, phone, told, question, inbound>>

\* _send_text for a caller.
SendText ==
  /\ ~Running /\ Attempts < MaxSends
  /\ LET m == Attempts + 1
     IN  IF connected THEN sends' = sends \cup {m} /\ UNCHANGED <<queue, told>>
         ELSE queue' = Append(queue, m) /\ told' = told \cup {m} /\ UNCHANGED sends
  /\ UNCHANGED <<connected, flush, phone, question, inbound, wa_failures>>

SendReturns ==
  /\ ~Running
  /\ \E m \in sends :
       /\ sends' = sends \ {m} /\ told' = told \cup {m}
       /\ \/ phone' = Append(phone, m) /\ UNCHANGED <<queue, wa_failures>>
          \/ WhatsAppFails /\ queue' = Append(queue, m) /\ UNCHANGED phone
  /\ UNCHANGED <<connected, flush, question, inbound>>

-----------------------------------------------------------------------------
\* _flush_outgoing_queue.

\* A slip checked against NothingForgotten: a flush clears what another sends.
FlushClears ==
  /\ ~Running /\ flush.due > 0 /\ queue' = <<>>
  /\ flush' = [flush EXCEPT !.due = @ - 1, !.on = @ \/ queue # <<>>]
  /\ UNCHANGED <<connected, sends, phone, told, question, inbound, wa_failures>>

\* A slip checked against WhatsAppTypeOK: a flush that nobody scheduled.
FlushUnasked ==
  /\ ~Running /\ flush' = [flush EXCEPT !.due = @ - 1, !.on = @ \/ queue # <<>>]
  /\ UNCHANGED <<connected, queue, sends, phone, told, question, inbound, wa_failures>>

FlushStarts ==
  /\ ~Running /\ flush.due > 0
  /\ flush' = [flush EXCEPT !.due = @ - 1, !.on = @ \/ queue # <<>>]
  /\ UNCHANGED <<connected, queue, sends, phone, told, question, inbound, wa_failures>>

\* The next message is taken off the queue; without a connection it goes to its
\* end and the loop goes on.
FlushTakes ==
  /\ Running
  /\ \/ queue = <<>> /\ flush' = [flush EXCEPT !.on = FALSE] /\ UNCHANGED queue
     \/ /\ queue # <<>> /\ connected
        /\ flush' = [flush EXCEPT !.item = Head(queue)] /\ queue' = Tail(queue)
     \/ /\ queue # <<>> /\ ~connected
        /\ queue' = Append(Tail(queue), Head(queue)) /\ UNCHANGED flush
  /\ UNCHANGED <<connected, sends, phone, told, question, inbound, wa_failures>>

FlushSends ==
  /\ flush.item # 0 /\ flush' = [flush EXCEPT !.item = 0]
  /\ \/ phone' = Append(phone, flush.item) /\ UNCHANGED <<queue, wa_failures>>
     \/ WhatsAppFails /\ queue' = Append(queue, flush.item) /\ UNCHANGED phone
  /\ UNCHANGED <<connected, sends, told, question, inbound>>

-----------------------------------------------------------------------------
\* Inbound.

SendAskUser ==
  /\ ~Running /\ ~question.pending /\ Len(inbound) < MaxInbound /\ question' = [question EXCEPT !.pending = TRUE]
  /\ UNCHANGED <<outward, inbound, wa_failures>>

\* _handle_message: the answer is given by a task of its own.
HandleMessage ==
  /\ ~Running /\ Len(inbound) < MaxInbound
  /\ IF question.pending
     THEN /\ question' = [question EXCEPT !.answers = @ \cup {Len(inbound) + 1}]
          /\ inbound' = Append(inbound, "answering")
     ELSE inbound' = Append(inbound, "piped") /\ UNCHANGED question
  /\ UNCHANGED <<outward, wa_failures>>

\* handle_ask_user_answer: without a pending question there is nothing to do.
AnswerRuns ==
  /\ ~Running /\ question.answers # {}
  /\ LET m == CHOOSE n \in question.answers : \A k \in question.answers : n <= k
     IN  /\ question' = [pending |-> FALSE, answers |-> question.answers \ {m}]
         /\ inbound' = [inbound EXCEPT ![m] = IF question.pending THEN "answered" ELSE "dropped"]
  /\ UNCHANGED <<outward, wa_failures>>

-----------------------------------------------------------------------------
Loop == FlushStarts \/ FlushTakes \/ FlushSends \/ SendReturns

WhatsAppNext ==
  \/ OnConnected \/ OnDisconnected \/ SendText \/ Loop
  \/ SendAskUser \/ HandleMessage \/ AnswerRuns

\* Tasks go on, and the client connects again.
WhatsAppFairness == WF_wa_vars(OnConnected) /\ WF_wa_vars(Loop) /\ WF_wa_vars(AnswerRuns)

WhatsAppSpec == WhatsAppInit /\ [][WhatsAppNext]_wa_vars /\ WhatsAppFairness

-----------------------------------------------------------------------------
Places(m) ==
  Cardinality({i \in DOMAIN phone : phone[i] = m}) + Cardinality({i \in DOMAIN queue : queue[i] = m})
    + (IF flush.item = m THEN 1 ELSE 0)

\* What a caller takes for sent has arrived once or waits in the queue, however
\* the flush, failures and new sends interleave.
NothingForgotten == \A m \in told : Places(m) = 1

\* A reply to a question is not left between the channel and the pipeline: the
\* first one that comes is its answer.
RepliesAreTaken ==
  \A m \in DOMAIN inbound : inbound[m] = "dropped" =>
    \E n \in 1..(m - 1) : inbound[n] = "answered"

WhatsAppSound == NothingForgotten /\ RepliesAreTaken
=============================================================================

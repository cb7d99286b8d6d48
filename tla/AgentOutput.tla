----------------------------- MODULE AgentOutput -----------------------------
(***************************************************************************)
(* What an agent puts out, on its way to the channel of its chat           *)
(* (router.py, streaming.py, sender.finalize_stream_or_broadcast).  Text   *)
(* grows in one message that is updated in place; traces (thinking, tool   *)
(* use and result, system, cost) are buffered and sent after a pause or    *)
(* before the next text or reply; the reply takes the place of the         *)
(* streamed text.  The events of a chat are handled one after another; the *)
(* timer's flush runs beside them, and every call to the channel is an     *)
(* await.                                                                  *)
(*                                                                         *)
(* An event is its number.  A chat is owned by one channel, which can      *)
(* update messages (Slack, TUI) or cannot (WhatsApp).  A call that fails   *)
(* leaves a row for the reconciler in the ledger (see ChannelDelivery), or *)
(* nothing if it was a call of the stream.                                 *)
(***************************************************************************)
EXTENDS Naturals, Sequences, FiniteSets, SequencesExt

CONSTANTS
  MaxEvents,    \* bound of the model: events an agent puts out
  MaxOutputFailures   \* bound of the model: calls to the channel that fail

ASSUME OutputBounds == {MaxEvents, MaxOutputFailures} \subseteq Nat

VARIABLES
  updates,   \* the channel has post_event and update_event
  event,     \* the event being handled, and how far
  stream,    \* stream_states of the chat
  buffer,    \* _buffers of the batcher
  timer,     \* _timers of the batcher
  flights,   \* flushes of the timer on their way
  screen,    \* what the channel shows
  ledger,    \* events in rows that wait for a retry
  said,      \* the traces and the replies so far
  out_past   \* bounds

out_vars == <<updates, event, stream, buffer, timer, flights, screen, ledger, said, out_past>>

NoStream == [on |-> FALSE, items |-> <<>>, id |-> 0]
Rest == [pc |-> "rest", n |-> 0, kind |-> "none", carry |-> <<>>, stream |-> NoStream]
OutputKinds == {"text", "trace", "quiet", "reply", "empty"}
Numbers == 1..MaxEvents

OutputTypeOK ==
  /\ updates \in BOOLEAN /\ timer \in BOOLEAN
  /\ event.pc \in {"rest", "flush", "push", "settle", "reply"} /\ event.n \in 0..MaxEvents
  /\ event.kind \in OutputKinds \cup {"none"}
  /\ {buffer, event.carry, stream.items} \cup ToSet(flights) \subseteq Seq(Numbers)
  /\ \A i \in DOMAIN screen : screen[i].items \in Seq(Numbers) /\ screen[i].cursor \in BOOLEAN
  /\ stream.id \in 0..Len(screen)
  /\ ledger \cup said.traces \cup said.replies \subseteq Numbers
  /\ out_past.events \in 0..MaxEvents /\ out_past.failures \in 0..MaxOutputFailures

OutputInit ==
  /\ updates \in BOOLEAN /\ event = Rest /\ stream = NoStream
  /\ buffer = <<>> /\ timer = FALSE /\ flights = <<>> /\ screen = <<>> /\ ledger = {}
  /\ said = [traces |-> {}, replies |-> {}]
  /\ out_past = [events |-> 0, failures |-> 0]

Fails == out_past.failures < MaxOutputFailures /\ out_past' = [out_past EXCEPT !.failures = @ + 1]
Fine == UNCHANGED out_past

Message(items, cursor) == [items |-> items, cursor |-> cursor]
Shows(items) == screen' = Append(screen, Message(items, FALSE))

-----------------------------------------------------------------------------
\* streaming.py

\* enqueue: the timer starts anew.
Enqueue(n) == buffer' = Append(buffer, n) /\ timer' = TRUE

\* A slip checked against OutputSound: the buffer is not emptied.
FlushCopies ==
  /\ timer /\ timer' = FALSE
  /\ flights' = (IF buffer = <<>> THEN flights ELSE Append(flights, buffer))
  /\ UNCHANGED <<updates, event, stream, buffer, screen, ledger, said, out_past>>

\* The pause is over: a task of its own takes the buffer and sends it.
TimerFlush ==
  /\ timer /\ timer' = FALSE /\ buffer' = <<>>
  /\ flights' = (IF buffer = <<>> THEN flights ELSE Append(flights, buffer))
  /\ UNCHANGED <<updates, event, stream, screen, ledger, said, out_past>>

FlightLands ==
  /\ \E i \in DOMAIN flights :
       /\ flights' = RemoveAt(flights, i)
       /\ \/ Shows(flights[i]) /\ Fine /\ UNCHANGED ledger
          \/ Fails /\ ledger' = ledger \cup ToSet(flights[i]) /\ UNCHANGED screen
  /\ UNCHANGED <<updates, event, stream, buffer, timer, said>>

\* The handler's own flush takes what is in the buffer now, and goes on when it
\* has been sent.
TakeBuffer(pc, e) ==
  /\ timer' = FALSE /\ buffer' = <<>>
  /\ event' = [e EXCEPT !.carry = buffer, !.pc = IF buffer = <<>> THEN pc ELSE "flush"]

\* A message is posted or updated; a call of the stream that fails is logged.
Push(items, id, cursor) ==
  \/ /\ Fine
     /\ screen' = IF id = 0 THEN Append(screen, Message(items, cursor)) ELSE [screen EXCEPT ![id] = Message(items, cursor)]
  \/ Fails /\ UNCHANGED screen

-----------------------------------------------------------------------------
\* router.handle_streamed_output: an event comes in.

Arrives(kind) ==
  /\ event.pc = "rest" /\ out_past.events < MaxEvents
  /\ out_past' = [out_past EXCEPT !.events = @ + 1]

Event(kind) == [Rest EXCEPT !.n = out_past.events + 1, !.kind = kind]

\* _handle_text, where a new stream lets the traces go first.
HandleText ==
  /\ Arrives("text")
  /\ IF stream.on THEN event' = [Event("text") EXCEPT !.pc = "push"] /\ UNCHANGED <<buffer, timer>>
     ELSE TakeBuffer("push", Event("text"))
  /\ UNCHANGED <<updates, stream, flights, screen, ledger, said>>

\* _handle_thinking, _handle_tool_use: the text before becomes a message.
HandleTrace ==
  /\ Arrives("trace")
  /\ stream' = NoStream
  /\ event' = [Event("trace") EXCEPT !.pc = "settle", !.stream = stream]
  /\ UNCHANGED <<updates, buffer, timer, flights, screen, ledger, said>>

\* _handle_tool_result, _handle_system, _handle_result_metadata.
HandleQuiet ==
  /\ Arrives("quiet") /\ Enqueue(out_past.events + 1)
  /\ said' = [said EXCEPT !.traces = @ \cup {out_past.events + 1}]
  /\ UNCHANGED <<updates, event, stream, flights, screen, ledger>>

\* The end of a query, with or without a text.
HandleResult(kind) ==
  /\ Arrives(kind)
  /\ stream' = NoStream
  /\ said' = IF kind = "reply" THEN [said EXCEPT !.replies = @ \cup {out_past.events + 1}] ELSE said
  /\ TakeBuffer("reply", [Event(kind) EXCEPT !.stream = stream])
  /\ UNCHANGED <<updates, flights, screen, ledger>>

-----------------------------------------------------------------------------
\* The awaits of the handlers.

CarryLands ==
  /\ event.pc = "flush"
  /\ event' = [event EXCEPT !.carry = <<>>, !.pc = IF event.kind = "text" THEN "push" ELSE "reply"]
  /\ \/ Shows(event.carry) /\ Fine /\ UNCHANGED ledger
     \/ Fails /\ ledger' = ledger \cup ToSet(event.carry) /\ UNCHANGED screen
  /\ UNCHANGED <<updates, stream, buffer, timer, flights, said>>

\* stream_text_to_channels: throttled, unless it is the first text.
StreamText ==
  /\ event.pc = "push" /\ event' = Rest
  /\ LET items == Append(stream.items, event.n)
     IN  \/ /\ (~updates \/ stream.on)  \* nothing to call, or too early
            /\ stream' = [stream EXCEPT !.on = TRUE, !.items = items] /\ Fine /\ UNCHANGED screen
         \/ /\ updates /\ Push(items, stream.id, TRUE)
            /\ stream' = [on |-> TRUE, items |-> items,
                          id |-> IF stream.id = 0 /\ screen' # screen THEN Len(screen') ELSE stream.id]
  /\ UNCHANGED <<updates, buffer, timer, flights, ledger, said>>

\* finalize_active_stream, and the trace after it.
SettleStream ==
  /\ event.pc = "settle" /\ event' = Rest
  /\ IF updates /\ event.stream.on THEN Push(event.stream.items, event.stream.id, FALSE) ELSE Fine /\ UNCHANGED screen
  /\ Enqueue(event.n) /\ said' = [said EXCEPT !.traces = @ \cup {event.n}]
  /\ UNCHANGED <<updates, stream, flights, ledger>>

\* finalize_stream_or_broadcast: in place, or a message of its own.  Without a
\* text nothing is left to do.
Replies ==
  /\ event.pc = "reply" /\ event' = Rest
  /\ \/ event.kind = "empty" /\ Fine /\ UNCHANGED <<screen, ledger>>
     \/ /\ event.kind = "reply" /\ Push(<<event.n>>, event.stream.id, FALSE) /\ screen' # screen /\ UNCHANGED ledger
     \/ /\ event.kind = "reply" /\ event.stream.id # 0 /\ Fails /\ Shows(<<event.n>>) /\ UNCHANGED ledger
     \/ /\ event.kind = "reply" /\ Fails /\ ledger' = ledger \cup {event.n} /\ UNCHANGED screen
  /\ UNCHANGED <<updates, stream, buffer, timer, flights, said>>

-----------------------------------------------------------------------------
HandlerStep == CarryLands \/ StreamText \/ SettleStream \/ Replies

OutputNext ==
  \/ TimerFlush \/ FlightLands \/ HandleText \/ HandleTrace \/ HandleQuiet
  \/ \E kind \in {"reply", "empty"} : HandleResult(kind)
  \/ HandlerStep

\* Timers fire, and calls to the channel come back.
OutputFairness == WF_out_vars(TimerFlush) /\ WF_out_vars(FlightLands) /\ WF_out_vars(HandlerStep)

OutputSpec == OutputInit /\ [][OutputNext]_out_vars /\ OutputFairness

-----------------------------------------------------------------------------
Times(n) ==
  Cardinality({i \in DOMAIN screen : n \in ToSet(screen[i].items)})
    + Cardinality({i \in DOMAIN flights : n \in ToSet(flights[i])})
    + (IF n \in ledger THEN 1 ELSE 0) + (IF n \in ToSet(buffer) THEN 1 ELSE 0)
    + (IF n \in ToSet(event.carry) THEN 1 ELSE 0)

\* However the timer's flush and the handlers' flushes interleave, a trace is in
\* one place: buffered, on its way, shown, or in the ledger for a retry.
TracesKept == \A n \in said.traces : Times(n) = 1

\* A reply is shown once or in the ledger when its handling is over, whatever
\* became of the stream it takes the place of.
RepliesKept == \A n \in said.replies : n = event.n \/ Times(n) = 1

OutputSound == TracesKept /\ RepliesKept

\* The buffer is emptied: the timer that an event starts anew is there for all
\* that are buffered.
TracesAreSent == buffer # <<>> ~> buffer = <<>>
=============================================================================

--------------------------- MODULE ChannelDelivery ---------------------------
(***************************************************************************)
(* Messages between one chat and its channels: live broadcasts and the     *)
(* outbound ledger (messaging/sender.py, state/outbound.py), and the       *)
(* reconciler that retries what the ledger holds and fetches what a        *)
(* channel dropped (messaging/reconciler.py, state/channel_cursors.py).    *)
(*                                                                         *)
(* Outbound messages are numbered in the order their broadcasts start.     *)
(* Between resolving its targets and asking for the write lock of the      *)
(* database a broadcast does not await, and the lock is first come, first  *)
(* served, so this is also the order of their ledger ids and timestamps.   *)
(* Inbound messages of a channel are numbered in the order they were sent. *)
(* Every step is the code between two awaits.                              *)
(***************************************************************************)
EXTENDS Naturals, Sequences, FiniteSets, FiniteSetsExt

CONSTANTS
  NumChannels,   \* channels of the chat, in the order of deps.channels
  MaxOutbound,   \* bound of the model: broadcasts
  MaxInbound,    \* bound of the model: messages users send on each channel
  MaxCrashes     \* bound of the model: crashes of the host

ASSUME ChannelsPositive == NumChannels \in Nat \ {0}
ASSUME DeliveryBoundsNat == MaxOutbound \in Nat /\ MaxInbound \in Nat /\ MaxCrashes \in Nat

Channels == 1..NumChannels
Out == 1..MaxOutbound
In == 1..MaxInbound

VARIABLES
  rows,        \* outbound_deliveries: the row of each message and channel
  bcast,       \* the broadcasts: pc, targets left, whether the ledger has them, last outcome
  posted,      \* messages each channel has shown to its users
  rec,         \* the reconciler: pc, channel (the next one when idle), inbound and outbound
               \* left, new cursors, last outcome
  in_cursor,   \* channel_cursors, inbound
  out_cursor,  \* channel_cursors, outbound
  sent_in,     \* messages users have sent on each channel
  stored,      \* messages of each channel in the database
  filtered,    \* messages of each channel from senders that are not allowed
  dcrashes

outvars == <<rows, bcast, posted>>
invars == <<sent_in, stored, filtered>>
curvars == <<in_cursor, out_cursor>>
dvars == <<outvars, invars, curvars, rec, dcrashes>>

NoBroadcast == [pc |-> "none", left |-> {}, ledger |-> FALSE, ok |-> FALSE]
RecAt(c) == [pc |-> "idle", ch |-> c, msgs |-> {}, pending |-> {}, new_in |-> 0, new_out |-> 0, ok |-> FALSE]

RowStates == {"none", "pending", "error", "delivered"}

BroadcastStates == [pc : {"none", "record", "send", "mark", "over"}, left : SUBSET Channels,
                    ledger : BOOLEAN, ok : BOOLEAN]

ReconcilerStates == [pc : {"idle", "inbound", "outbound", "mark"}, ch : Channels,
                     msgs : SUBSET In, pending : SUBSET Out, new_in : 0..MaxInbound,
                     new_out : 0..MaxOutbound, ok : BOOLEAN]

DTypes ==
  /\ rows \in [Out -> [Channels -> RowStates]]
  /\ bcast \in [Out -> BroadcastStates]
  /\ posted \in [Channels -> SUBSET Out]
  /\ rec \in ReconcilerStates
  /\ in_cursor \in [Channels -> 0..MaxInbound] /\ out_cursor \in [Channels -> 0..MaxOutbound]
  /\ sent_in \in [Channels -> 0..MaxInbound]
  /\ stored \in [Channels -> SUBSET In] /\ filtered \in [Channels -> SUBSET In]
  /\ dcrashes \in 0..MaxCrashes

\* There is no row before its broadcast is recorded, and nothing to send to nobody.
RowsAndTargets ==
  \A m \in Out : /\ bcast[m].pc \in {"none", "record"} => \A c \in Channels : rows[m][c] = "none"
                 /\ bcast[m].pc \in {"record", "send", "mark"} => bcast[m].left # {}

DTypeOK == DTypes /\ RowsAndTargets

DInit ==
  /\ rows = [m \in Out |-> [c \in Channels |-> "none"]]
  /\ bcast = [m \in Out |-> NoBroadcast]
  /\ posted = [c \in Channels |-> {}]
  /\ rec = RecAt(1)
  /\ in_cursor = [c \in Channels |-> 0] /\ out_cursor = [c \in Channels |-> 0]
  /\ sent_in = [c \in Channels |-> 0]
  /\ stored = [c \in Channels |-> {}] /\ filtered = [c \in Channels |-> {}]
  /\ dcrashes = 0

-----------------------------------------------------------------------------
(* Helpers.                                                                *)

\* What a channel may do with a message: show it or not, and return, raise a network error
\* or raise something else.
Outcomes == {o \in [shown : BOOLEAN, error : {"none", "network", "other"}] : o.shown \/ o.error # "none"}

\* Seeded fault: a failed delivery is not retried.
RetryOnlyPending(m, c) == rows[m][c] = "pending"

\* delivered_at IS NULL
Undelivered(m, c) == rows[m][c] \in {"pending", "error"}

\* mark_delivered sets delivered_at; mark_delivery_error sets error and leaves it alone.
Marked(ok, row) == IF ok \/ row = "delivered" THEN "delivered" ELSE "error"

First(S) == Min(S)

-----------------------------------------------------------------------------
(* broadcast and finalize_stream_or_broadcast.                             *)

\* Targets are resolved: connected channels that may be written to and are not skipped.
Broadcast(m, targets) ==
  /\ bcast[m].pc = "none" /\ \A k \in 1..(m - 1) : bcast[k].pc # "none"
  /\ bcast' = [bcast EXCEPT ![m].pc = IF targets = {} THEN "over" ELSE "record", ![m].left = targets]
  /\ UNCHANGED <<rows, posted, invars, curvars, rec, dcrashes>>

\* record_outbound: one transaction, or an error that leaves the broadcast without rows.
Record(m, ok) ==
  /\ bcast[m].pc = "record" /\ \A k \in 1..(m - 1) : bcast[k].pc # "record"
  /\ bcast' = [bcast EXCEPT ![m].pc = "send", ![m].ledger = ok]
  /\ rows' = IF ok THEN [rows EXCEPT ![m] = [c \in Channels |-> IF c \in bcast[m].left THEN "pending" ELSE "none"]]
             ELSE rows
  /\ UNCHANGED <<posted, invars, curvars, rec, dcrashes>>

\* One send_event, or one update of a streamed message with send_event as its fallback.
\* An exception that is not a network error ends the broadcast, with the remaining targets
\* unsent.
Send(m, outcome) ==
  /\ bcast[m].pc = "send"
  /\ LET c == First(bcast[m].left) IN
       posted' = IF outcome.shown THEN [posted EXCEPT ![c] = @ \cup {m}] ELSE posted
  /\ bcast' = IF outcome.error = "other" THEN [bcast EXCEPT ![m].pc = "over", ![m].left = {}]
              ELSE [bcast EXCEPT ![m].pc = "mark", ![m].ok = (outcome.error = "none")]
  /\ UNCHANGED <<rows, invars, curvars, rec, dcrashes>>

\* Seeded fault: the last target does not end the broadcast.
NeverOver(rest) == "send"

AfterTarget(rest) == IF rest = {} THEN "over" ELSE "send"

\* mark_delivered or mark_delivery_error, best effort: written says whether it worked.
Mark(m, written) ==
  /\ bcast[m].pc = "mark"
  /\ LET c == First(bcast[m].left)
         rest == bcast[m].left \ {c}
     IN /\ rows' = IF bcast[m].ledger /\ written THEN [rows EXCEPT ![m][c] = Marked(bcast[m].ok, @)] ELSE rows
        /\ bcast' = [bcast EXCEPT ![m].left = rest, ![m].pc = AfterTarget(rest)]
  /\ UNCHANGED <<posted, invars, curvars, rec, dcrashes>>

-----------------------------------------------------------------------------
(* Users write on a channel.                                               *)

\* The channel passes the message on, drops it, or its sender is not allowed.
UserSends(c) ==
  /\ sent_in[c] < MaxInbound
  /\ sent_in' = [sent_in EXCEPT ![c] = @ + 1]
  /\ \/ stored' = [stored EXCEPT ![c] = @ \cup {sent_in'[c]}] /\ UNCHANGED filtered
     \/ UNCHANGED <<stored, filtered>>
     \/ filtered' = [filtered EXCEPT ![c] = @ \cup {sent_in'[c]}] /\ UNCHANGED stored
  /\ UNCHANGED <<outvars, curvars, rec, dcrashes>>

-----------------------------------------------------------------------------
(* reconcile_all_channels: one visit of each channel in turn.  The visits  *)
(* of other chats, and its cursor pruning, touch nothing of this chat.     *)

NextChannel == RecAt(IF rec.ch = NumChannels THEN 1 ELSE rec.ch + 1)

\* fetch_inbound_since the cursor.
Fetched(c) == {i \in In : i > in_cursor[c] /\ i <= sent_in[c]}

\* The channel was visited a moment ago, or its fetch fails: its outbound retry is
\* skipped, too.
SkipChannel ==
  /\ rec.pc = "idle"
  /\ rec' = NextChannel
  /\ UNCHANGED <<outvars, invars, curvars, dcrashes>>

\* A visit begins.
Visit(c) ==
  /\ rec.pc = "idle" /\ rec.ch = c
  /\ rec' = [rec EXCEPT !.pc = "inbound", !.msgs = Fetched(c), !.new_in = sent_in[c]]
  /\ UNCHANGED <<outvars, invars, curvars, dcrashes>>

\* The next message: skipped when it is stored already or its sender is not allowed.
SkipInbound ==
  /\ rec.pc = "inbound" /\ rec.msgs # {}
  /\ First(rec.msgs) \in stored[rec.ch] \cup filtered[rec.ch]
  /\ rec' = [rec EXCEPT !.msgs = @ \ {First(@)}]
  /\ UNCHANGED <<outvars, invars, curvars, dcrashes>>

\* Ingestion stores the message.  An exception afterwards ends the whole reconciliation
\* without moving a cursor.
Ingest(raises) ==
  /\ rec.pc = "inbound" /\ rec.msgs # {}
  /\ First(rec.msgs) \notin stored[rec.ch] \cup filtered[rec.ch]
  /\ stored' = [stored EXCEPT ![rec.ch] = @ \cup {First(rec.msgs)}]
  /\ rec' = IF raises THEN RecAt(1) ELSE [rec EXCEPT !.msgs = @ \ {First(@)}]
  /\ UNCHANGED <<outvars, sent_in, filtered, curvars, dcrashes>>

\* get_pending_outbound and the outbound cursor.
FetchPending ==
  /\ rec.pc = "inbound" /\ rec.msgs = {}
  /\ rec' = [rec EXCEPT !.pc = "outbound", !.pending = {m \in Out : Undelivered(m, rec.ch)},
                        !.new_out = out_cursor[rec.ch]]
  /\ UNCHANGED <<outvars, invars, curvars, dcrashes>>

\* One send_message of the retry.
Resend(outcome) ==
  /\ rec.pc = "outbound" /\ rec.pending # {}
  /\ posted' = IF outcome.shown THEN [posted EXCEPT ![rec.ch] = @ \cup {First(rec.pending)}] ELSE posted
  /\ rec' = [rec EXCEPT !.pc = "mark", !.ok = (outcome.error = "none")]
  /\ UNCHANGED <<rows, bcast, invars, curvars, dcrashes>>

\* Seeded fault: the retry goes on behind a message that failed.
SkipFailed == rec.pending \ {First(rec.pending)}

\* A failure ends the retry of the channel: later messages wait.
LeftAfterFailure == {}

\* The outcome is marked.  If marking a delivery raises, the row stays undelivered and
\* counts as failed; if marking the failure raises as well, the reconciliation ends.
MarkResent(outcome) ==
  /\ rec.pc = "mark"
  /\ LET m == First(rec.pending) IN
       \/ /\ outcome = "delivered" /\ rec.ok
          /\ rows' = [rows EXCEPT ![m][rec.ch] = Marked(rec.ok, @)]
          /\ rec' = [rec EXCEPT !.pc = "outbound", !.pending = @ \ {m}, !.new_out = Max({@, m})]
       \/ /\ outcome = "error"
          /\ rows' = [rows EXCEPT ![m][rec.ch] = Marked(FALSE, @)]
          /\ rec' = [rec EXCEPT !.pc = "outbound", !.pending = LeftAfterFailure]
       \/ /\ outcome = "raises"
          /\ rec' = RecAt(1)
          /\ UNCHANGED rows
  /\ UNCHANGED <<bcast, posted, invars, curvars, dcrashes>>

\* Seeded fault: the cursor moves to the newest message there is by now.
NewestInbound == sent_in[rec.ch]

\* The newest message of the page that was fetched.
NewInbound == rec.new_in

\* advance_cursors_atomic: both cursors, forward only.
AdvanceCursors ==
  /\ rec.pc = "outbound" /\ rec.pending = {}
  /\ in_cursor' = [in_cursor EXCEPT ![rec.ch] = Max({@, NewInbound})]
  /\ out_cursor' = [out_cursor EXCEPT ![rec.ch] = Max({@, rec.new_out})]
  /\ rec' = NextChannel
  /\ UNCHANGED <<outvars, invars, dcrashes>>

\* The host crashes and restarts: broadcasts and the visit are gone, the database stays.
HostCrash ==
  /\ dcrashes < MaxCrashes
  /\ dcrashes' = dcrashes + 1
  /\ bcast' = [m \in Out |-> IF bcast[m].pc = "none" THEN bcast[m]
                             ELSE [bcast[m] EXCEPT !.pc = "over", !.left = {}]]
  /\ rec' = RecAt(1)
  /\ UNCHANGED <<rows, posted, invars, curvars>>

-----------------------------------------------------------------------------
BroadcastStep(m) ==
  \/ \E targets \in SUBSET Channels : Broadcast(m, targets)
  \/ \E ok \in BOOLEAN : Record(m, ok) \/ Mark(m, ok)
  \/ \E outcome \in Outcomes : Send(m, outcome)

ReconcileStep ==
  \/ SkipChannel \/ SkipInbound \/ FetchPending \/ AdvanceCursors
  \/ \E c \in Channels : Visit(c)
  \/ \E raises \in BOOLEAN : Ingest(raises)
  \/ \E outcome \in Outcomes : Resend(outcome)
  \/ \E outcome \in {"delivered", "error", "raises"} : MarkResent(outcome)

DNext ==
  \/ \E m \in Out : BroadcastStep(m)
  \/ \E c \in Channels : UserSends(c)
  \/ ReconcileStep
  \/ HostCrash

DSpec == DInit /\ [][DNext]_dvars

\* The polling loop calls the reconciler again and again, and a visit goes on step by
\* step; a channel that is tried often enough answers a fetch, accepts a message and has
\* it marked.
DFairness ==
  /\ WF_dvars(ReconcileStep)
  /\ \A c \in Channels :
       /\ SF_dvars(Visit(c))
       /\ SF_dvars(rec.ch = c /\ Resend([shown |-> TRUE, error |-> "none"]))
       /\ SF_dvars(rec.ch = c /\ MarkResent("delivered"))

DFairSpec == DSpec /\ DFairness

-----------------------------------------------------------------------------
(* Properties.                                                             *)

\* A row is marked delivered only when the channel has shown the message, whoever of the
\* broadcast and the reconciler sent it and whichever error came in between.
DeliveredWasPosted ==
  \A m \in Out, c \in Channels : rows[m][c] = "delivered" => m \in posted[c]

\* The retry never skips ahead: when it sends a message, everything recorded earlier for
\* the channel is delivered.
RetriesInOrder ==
  rec.pc \in {"outbound", "mark"} /\ rec.pending # {}
    => \A m \in 1..(First(rec.pending) - 1) : ~Undelivered(m, rec.ch)

\* The outbound cursor covers only delivered messages, whatever was recorded and sent
\* beside the reconciler.
OutboundCursorSound ==
  \A c \in Channels : \A m \in 1..out_cursor[c] : ~Undelivered(m, c)

\* The inbound cursor covers only messages that are stored or not allowed: the next fetch
\* starts behind it, so anything else would never be found again.
InboundCursorSound ==
  \A c \in Channels : 1..in_cursor[c] \subseteq stored[c] \cup filtered[c]

\* What the ledger has accepted is delivered on every target, over errors, exceptions
\* that end a broadcast or a reconciliation, and crashes.
RecordedIsDelivered ==
  \A m \in Out, c \in Channels : rows[m][c] # "none" ~> rows[m][c] = "delivered"

\* What a channel dropped is found and stored.
DroppedIsStored ==
  \A c \in Channels : \A i \in In :
    sent_in[c] >= i ~> i \in stored[c] \cup filtered[c]

\* The ledger: what it calls delivered was shown, and the retry keeps its order.
LedgerSound == DeliveredWasPosted /\ RetriesInOrder

\* The cursors of both directions cover nothing that is still owed.
CursorsSound == OutboundCursorSound /\ InboundCursorSound

\* Both directions get there in the end.
DeliveryCompletes == RecordedIsDelivered /\ DroppedIsStored

\* The strengthening of the invariants above that is inductive: rows appear in the order
\* of the broadcasts, what is about to be marked has a row and is what the channel did,
\* the snapshot of the retry has everything undelivered in front of its last message, and
\* the page and the new cursors of a visit stay covered while it lasts.
Recorded(m) == bcast[m].pc \notin {"none", "record"}

HasRow(m) == \E c \in Channels : rows[m][c] # "none"

RecordedInOrder ==
  \A m \in Out : \A k \in 1..(m - 1) :
    /\ bcast[m].pc # "none" => bcast[k].pc # "none"
    /\ HasRow(m) => Recorded(k)

MarkIsTruthful ==
  /\ \A m \in Out : bcast[m].pc \in {"send", "mark"} /\ bcast[m].ledger
       => \A c \in bcast[m].left : rows[m][c] # "none"
  /\ \A m \in Out : bcast[m].pc = "mark" /\ bcast[m].ok => m \in posted[First(bcast[m].left)]
  /\ rec.pc = "mark" => rec.pending # {} /\ (rec.ok => First(rec.pending) \in posted[rec.ch])

RetryCovers ==
  rec.pc \in {"outbound", "mark"} =>
    \A p \in rec.pending :
      /\ rows[p][rec.ch] # "none"
      /\ \A m \in 1..(p - 1) : Undelivered(m, rec.ch) => m \in rec.pending

NewOutboundSound ==
  /\ \A c \in Channels : \A m \in 1..out_cursor[c] : Recorded(m)
  /\ rec.pc \in {"outbound", "mark"} =>
       \A m \in 1..rec.new_out : Recorded(m) /\ ~Undelivered(m, rec.ch)

PageCovered ==
  /\ rec.pc # "idle" => 1..rec.new_in \subseteq stored[rec.ch] \cup filtered[rec.ch] \cup rec.msgs
  /\ rec.pc \in {"outbound", "mark"} => rec.msgs = {}

DIInv ==
  /\ DTypeOK
  /\ DeliveredWasPosted
  /\ OutboundCursorSound
  /\ InboundCursorSound
  /\ RecordedInOrder
  /\ MarkIsTruthful
  /\ RetryCovers
  /\ NewOutboundSound
  /\ PageCovered

=============================================================================

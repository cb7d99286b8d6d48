---------------------------- MODULE SlackChannel ----------------------------
(***************************************************************************)
(* One chat of the Slack channel (slack/_channel.py) and the way a message *)
(* takes to the agent.  A post reaches the host as an event of the socket, *)
(* live, or later as a row of the history, which the reconciler asks for   *)
(* (reconciler.py, inbound half).  Both ways end in the same table, under  *)
(* an id made from Slack's time stamp; a live message is stored under the  *)
(* time it was handled, a recovered one under the time it was posted.      *)
(* What a run then takes from the table is in MessagePipeline.             *)
(*                                                                         *)
(* A post is its number.  The connection is booting, up, lost (the socket  *)
(* task ended), asleep or connecting (backoff), or closed.                 *)
(***************************************************************************)
EXTENDS Naturals, Sequences, FiniteSets, FiniteSetsExt, SequencesExt

CONSTANTS
  PageLimit,   \* messages in a page of the history (1000)
  MaxPages,    \* _MAX_PAGES (10)
  MaxPosts,    \* bound of the model: posts in the chat
  MaxSlackMishaps   \* bound of the model: drops, failures, deaths, restarts

ASSUME SlackBounds == {PageLimit, MaxPages} \subseteq Nat \ {0} /\ {MaxPosts, MaxSlackMishaps} \subseteq Nat

VARIABLES
  posts,       \* Slack: the kind of each post; its time is its number
  socket,      \* Slack: events on the socket, one or two for a post
  chat,        \* Slack: the channel is there, or the connection may create it
  phase,       \* of the connection
  allowed,     \* the chat is in _allowed_channel_ids
  shutting,    \* _shutting_down
  seen,        \* _seen_ts
  handlers,    \* _on_slack_message tasks that look up names
  stored,      \* messages table: the posts that have a row
  fetch,       \* the reconciler and how far it got
  cursor,      \* inbound cursor of the channel and chat
  slack_mishaps

slack_vars == <<posts, socket, chat, phase, allowed, shutting, seen, handlers,
                stored, fetch, cursor, slack_mishaps>>
socket_vars == <<socket, phase, allowed, shutting, seen, handlers>>

PostKinds == {"user", "bot", "file"}
Phases == {"booting", "up", "lost", "asleep", "connecting", "closed"}
Numbered == 1..MaxPosts
Mishap == slack_mishaps < MaxSlackMishaps /\ slack_mishaps' = slack_mishaps + 1
NoFetch == [pc |-> "rest", oldest |-> 0, mark |-> 0, page |-> 0, found |-> <<>>]

SlackTypeOK ==
  /\ posts \in Seq(PostKinds) /\ Len(posts) <= MaxPosts
  /\ socket \subseteq Numbered \X {1, 2} /\ seen \cup handlers \subseteq DOMAIN posts
  /\ phase \in Phases /\ allowed \in BOOLEAN /\ shutting \in BOOLEAN
  /\ chat \in {"there", "allow_create", "absent"}
  /\ stored \subseteq DOMAIN posts /\ cursor \in 0..Len(posts)
  /\ fetch.pc \in {"rest", "page", "check", "store"} /\ fetch.found \in Seq(Numbered)
  /\ slack_mishaps \in 0..MaxSlackMishaps

SlackInit ==
  /\ posts = <<>> /\ socket = {} /\ chat \in {"there", "allow_create", "absent"}
  /\ phase = "booting" /\ allowed = FALSE /\ shutting = FALSE /\ seen = {} /\ handlers = {}
  /\ stored = {} /\ fetch = NoFetch /\ cursor = 0
  /\ slack_mishaps = 0

-----------------------------------------------------------------------------
\* Slack.

CreateChat ==
  /\ chat # "there" /\ chat' = "there"
  /\ UNCHANGED <<posts, socket_vars, stored, fetch, cursor, slack_mishaps>>

\* A mention comes as a message and as an app_mention.  Without a socket, or by
\* a drop of the socket, the event is gone.
Post(kind) ==
  /\ chat = "there" /\ Len(posts) < MaxPosts
  /\ posts' = Append(posts, kind)
  /\ LET n == Len(posts) + 1
     IN  \/ phase = "up" /\ socket' \in {socket \cup {<<n, 1>>}, socket \cup {<<n, 1>>, <<n, 2>>}} /\ UNCHANGED slack_mishaps
         \/ phase = "up" /\ Mishap /\ UNCHANGED socket
         \/ phase # "up" /\ UNCHANGED <<socket, slack_mishaps>>
  /\ UNCHANGED <<chat, phase, allowed, shutting, seen, handlers, stored, fetch, cursor>>

-----------------------------------------------------------------------------
\* connect: the socket is started when the chats are known.  A call that fails
\* ends the attempt; at boot it ends the process.

\* _sync_allowed_channels: find the chat by name, else create it if that is
\* allowed, else go on without it.
SyncAllowed ==
  IF chat = "absent" THEN UNCHANGED <<chat, allowed>> ELSE chat' = "there" /\ allowed' = TRUE

Connect ==
  /\ phase \in {"booting", "connecting"} /\ phase' = "up" /\ SyncAllowed
  /\ UNCHANGED <<posts, socket, shutting, seen, handlers, stored, fetch, cursor, slack_mishaps>>

\* _reconnect_with_backoff goes on with twice the delay; at boot the service
\* manager starts the process again.
ConnectFails ==
  /\ phase \in {"booting", "connecting"} /\ Mishap
  /\ phase' = IF phase = "booting" THEN "booting" ELSE "asleep"
  /\ UNCHANGED <<posts, socket, chat, allowed, shutting, seen, handlers, stored, fetch, cursor>>

HandlerDies ==
  /\ phase = "up" /\ Mishap /\ phase' = "lost" /\ socket' = {}
  /\ UNCHANGED <<posts, chat, allowed, shutting, seen, handlers, stored, fetch, cursor>>

\* A slip checked against ConnectionComesBack: no reconnect is scheduled.
StaysDown ==
  /\ phase = "lost" /\ phase' = "closed"
  /\ UNCHANGED <<posts, socket, chat, allowed, shutting, seen, handlers, stored, fetch, cursor, slack_mishaps>>

\* _on_handler_done.
HandlerDone ==
  /\ phase = "lost" /\ phase' = IF shutting THEN "closed" ELSE "asleep"
  /\ UNCHANGED <<posts, socket, chat, allowed, shutting, seen, handlers, stored, fetch, cursor, slack_mishaps>>

WakeUp ==
  /\ phase = "asleep" /\ phase' = IF shutting THEN "closed" ELSE "connecting"
  /\ UNCHANGED <<posts, socket, chat, allowed, shutting, seen, handlers, stored, fetch, cursor, slack_mishaps>>

PrepareShutdown ==
  /\ ~shutting /\ phase # "booting" /\ Mishap /\ shutting' = TRUE
  /\ UNCHANGED <<posts, socket, chat, phase, allowed, seen, handlers, stored, fetch, cursor>>

\* disconnect, also of a connection that a reconnect has just made.
Disconnect ==
  /\ shutting /\ phase # "closed" /\ phase' = "closed" /\ socket' = {}
  /\ UNCHANGED <<posts, chat, allowed, shutting, seen, handlers, stored, fetch, cursor, slack_mishaps>>

\* The process is gone, after a shutdown or by a crash, and starts anew.
Restart ==
  /\ \/ shutting /\ phase = "closed" /\ UNCHANGED slack_mishaps
     \/ phase # "booting" /\ Mishap
  /\ phase' = "booting" /\ socket' = {} /\ allowed' = FALSE /\ shutting' = FALSE
  /\ seen' = {} /\ handlers' = {} /\ fetch' = NoFetch
  /\ UNCHANGED <<posts, chat, stored, cursor>>

-----------------------------------------------------------------------------
\* Live messages.

\* _on_slack_message up to its first await; _dedup_ts drops the second event.
TakeEvent ==
  /\ phase = "up"
  /\ \E e \in socket :
       /\ socket' = socket \ {e}
       /\ IF posts[e[1]] = "bot" \/ ~allowed \/ e[1] \in seen
          THEN UNCHANGED <<seen, handlers>>
          ELSE seen' = seen \cup {e[1]} /\ handlers' = handlers \cup {e[1]}
  /\ UNCHANGED <<posts, chat, phase, allowed, shutting, stored, fetch, cursor, slack_mishaps>>

\* The names are known: the message is stored (INSERT OR REPLACE) as of now.
HandlerIngests ==
  /\ \E n \in handlers : handlers' = handlers \ {n} /\ stored' = stored \cup {n}
  /\ UNCHANGED <<posts, socket, chat, phase, allowed, shutting, seen, fetch, cursor, slack_mishaps>>

-----------------------------------------------------------------------------
\* reconcile_all_channels, for this chat: from the cursor on.

FetchInboundSince ==
  /\ fetch.pc = "rest" /\ phase # "booting" /\ allowed
  /\ fetch' = [NoFetch EXCEPT !.pc = "page", !.oldest = cursor]
  /\ UNCHANGED <<posts, socket_vars, chat, stored, cursor, slack_mishaps>>

Later(t) == [i \in 1..(Len(posts) - t) |-> t + i]
UserPosts(page) ==
  LET users == {n \in DOMAIN posts : posts[n] = "user"}
      kept[n \in 0..Len(page)] ==
        IF n = 0 THEN <<>>
        ELSE IF page[n] \in users THEN Append(kept[n - 1], page[n]) ELSE kept[n - 1]
  IN  kept[Len(page)]
Found(page, mark) == [fetch EXCEPT !.pc = "check", !.found = UserPosts(page), !.mark = mark]

\* A page that holds messages of bots only is passed over, for MaxPages pages.
FetchPage ==
  /\ fetch.pc = "page"
  /\ LET later == Later(fetch.oldest)
         page  == SubSeq(later, 1, IF Len(later) < PageLimit THEN Len(later) ELSE PageLimit)
         mark  == IF page = <<>> THEN fetch.mark ELSE Last(page)
     IN  fetch' = IF UserPosts(page) # <<>> \/ page = later \/ fetch.page + 1 = MaxPages THEN Found(page, mark)
                  ELSE [fetch EXCEPT !.oldest = mark, !.mark = mark, !.page = @ + 1]
  /\ UNCHANGED <<posts, socket_vars, chat, stored, cursor, slack_mishaps>>

\* A slip checked against NothingSkipped: a failed page counts as seen.
FailedPageIsSeen ==
  /\ fetch.pc = "page" /\ Mishap
  /\ fetch' = Found(<<>>, Max({fetch.mark} \cup DOMAIN posts))
  /\ UNCHANGED <<posts, socket_vars, chat, stored, cursor>>

\* The API fails: what was passed over stays passed over.
FetchFails ==
  /\ fetch.pc = "page" /\ Mishap /\ fetch' = Found(<<>>, fetch.mark)
  /\ UNCHANGED <<posts, socket_vars, chat, stored, cursor>>

\* message_exists, and the await after it.
CheckMessage ==
  /\ fetch.pc = "check" /\ fetch.found # <<>>
  /\ fetch' = IF Head(fetch.found) \notin stored THEN [fetch EXCEPT !.pc = "store"]
              ELSE [fetch EXCEPT !.found = Tail(@)]
  /\ UNCHANGED <<posts, socket_vars, chat, stored, cursor, slack_mishaps>>

StoreMessage ==
  /\ fetch.pc = "store"
  /\ stored' = stored \cup {Head(fetch.found)}
  /\ fetch' = [fetch EXCEPT !.pc = "check", !.found = Tail(@)]
  /\ UNCHANGED <<posts, socket_vars, chat, cursor, slack_mishaps>>

\* The cursor moves when all of it is stored, past messages of bots too.
AdvanceCursor ==
  /\ fetch.pc = "check" /\ fetch.found = <<>>
  /\ cursor' = Max({cursor, fetch.mark}) /\ fetch' = NoFetch
  /\ UNCHANGED <<posts, socket_vars, chat, stored, slack_mishaps>>

-----------------------------------------------------------------------------
Reconcile == FetchPage \/ CheckMessage \/ StoreMessage \/ AdvanceCursor
ComeBack == Connect \/ HandlerDone \/ WakeUp \/ (shutting /\ (Disconnect \/ Restart))

SlackNext ==
  \/ CreateChat \/ \E kind \in PostKinds : Post(kind)
  \/ ConnectFails \/ HandlerDies \/ PrepareShutdown \/ Restart \/ ComeBack
  \/ TakeEvent \/ HandlerIngests
  \/ FetchInboundSince \/ FetchFails \/ Reconcile

\* Tasks of the event loop go on, the polling loop comes to the reconciler again
\* and again, and a process that has gone is started again.
SlackFairness ==
  /\ WF_slack_vars(ComeBack) /\ WF_slack_vars(HandlerIngests)
  /\ WF_slack_vars(FetchInboundSince) /\ WF_slack_vars(Reconcile)

SlackSpec == SlackInit /\ [][SlackNext]_slack_vars /\ SlackFairness

-----------------------------------------------------------------------------
\* The cursor of the history never passes a user's message that is not stored,
\* whatever fails between the pages and wherever the process dies.
NothingSkipped ==
  \A n \in DOMAIN posts : posts[n] = "user" /\ n <= cursor => n \in stored

\* A message of a chat the connection knows is stored in the end, however the
\* socket dropped it.
Unrecorded(n) == n \in DOMAIN posts \ stored /\ posts[n] = "user" /\ allowed
MessagesArrive == \A n \in Numbered : Unrecorded(n) ~> n \in stored

\* A connection that was lost is made again.
ConnectionComesBack == phase # "up" ~> phase = "up"
=============================================================================

----------------------------- MODULE SideProofs -----------------------------
(***************************************************************************)
(* Proofs about what serves an agent and the chats: the cards and the      *)
(* posts of Slack, the agent's own program, the tool servers, the tools    *)
(* that drive a browser, WhatsApp, and the agent's output; and, at the end,*)
(* about the run that has them side by side with the agent's requests,     *)
(* which IpcRequestsProofs is about.  Every component has a section, which *)
(* states its inductive invariant, shows what the invariant says, and then *)
(* has a lemma for each action or for a few that do alike.                 *)
(***************************************************************************)
EXTENDS MCAgentSide, IpcRequestsProofs, Recursion

-----------------------------------------------------------------------------
\* SlackCards: what a card shows.

AllPresses == UNION {Presses[c] : c \in Cards}

\* The types, as functions of the cards.
CardsTyped ==
  /\ undecided \in [Cards -> BOOLEAN] /\ card_mishaps \in 0..MaxCardMishaps
  /\ pressed \in [Cards -> AllPresses \cup {"none"}]
  /\ shown \in [Cards -> AllPresses \cup {"absent", "open"}]
  /\ tasks \in [Cards -> SUBSET AllPresses]
  /\ redraws \in [Cards -> SUBSET AllPresses]

\* An update whose task has had its turn shows a press that was decided.
CInv ==
  /\ CardsTyped /\ CardsTypeOK /\ ShownIsTaken
  /\ \A c \in Cards : redraws[c] \ tasks[c] # {} => pressed[c] # "none" \/ ~undecided[c]

LEMMA PressesFacts ==
  \A c \in Cards : /\ Presses[c] \cap {"none", "open", "absent"} = {}
                   /\ Presses[c] \subseteq AllPresses
BY CardsAssumption DEF Presses, AllPresses

LEMMA ShowCInv == ASSUME CInv, NEW c \in Cards, Show(c) PROVE CInv'
<1>1. UNCHANGED <<undecided, pressed, tasks, redraws, card_mishaps>> /\ shown' = [shown EXCEPT ![c] = "open"]
  BY DEF Show
<1>2. \A d \in Cards : shown'[d] = shown[d] \/ shown'[d] = "open"
  BY <1>1 DEF CInv, CardsTyped
<1>3. CardsTyped'
  BY <1>1 DEF CInv, CardsTyped
<1>4. CardsTypeOK'
  BY <1>1, <1>2 DEF CInv, CardsTypeOK
<1>5. ShownIsTaken'
  BY <1>1, <1>2, PressesFacts DEF CInv, ShownIsTaken
<1> QED
  BY <1>1, <1>3, <1>4, <1>5 DEF CInv

LEMMA PressCInv == ASSUME CInv, NEW c \in Cards, Press(c) PROVE CInv'
<1>1. PICK p \in Presses[c] \ (tasks[c] \cup redraws[c]) :
        tasks' = [tasks EXCEPT ![c] = @ \cup {p}] /\ redraws' = [redraws EXCEPT ![c] = @ \cup {p}]
  BY DEF Press
<1>2. UNCHANGED <<undecided, pressed, shown, card_mishaps>>
  BY DEF Press
<1>3. \A d \in Cards : redraws'[d] \ tasks'[d] = redraws[d] \ tasks[d]
  BY <1>1 DEF CInv, CardsTyped
<1>4. CardsTyped'
  BY <1>1, <1>2, PressesFacts DEF CInv, CardsTyped
<1>5. CardsTypeOK'
  BY <1>1, <1>2 DEF CInv, CardsTyped, CardsTypeOK
<1> QED
  BY <1>2, <1>3, <1>4, <1>5 DEF CInv, ShownIsTaken

LEMMA DecideCInv == ASSUME CInv, NEW c \in Cards, Decide(c) PROVE CInv'
<1>1. PICK p \in tasks[c] :
        /\ tasks' = [tasks EXCEPT ![c] = @ \ {p}]
        /\ pressed' = IF undecided[c] THEN [pressed EXCEPT ![c] = p] ELSE pressed
  BY DEF Decide
<1>2. UNCHANGED <<shown, redraws, card_mishaps>> /\ undecided' = [undecided EXCEPT ![c] = @ /\ c = "approval"]
  BY DEF Decide
<1>3. p \in Presses[c] /\ p # "none" /\ p \in AllPresses
  BY PressesFacts DEF CInv, CardsTypeOK
<1>4. \A d \in Cards \ {c} : pressed'[d] = pressed[d] /\ undecided'[d] = undecided[d] /\ tasks'[d] = tasks[d]
  BY <1>1, <1>2 DEF CInv, CardsTyped
<1>5. (pressed'[c] # "none" \/ ~undecided'[c]) /\ tasks'[c] = tasks[c] \ {p} /\ undecided'[c] \in BOOLEAN
      /\ pressed'[c] \in Presses[c] \cup {"none"}
  BY <1>1, <1>2, <1>3 DEF CInv, CardsTyped, CardsTypeOK
<1>6. CardsTyped'
  BY <1>1, <1>2, <1>3 DEF CInv, CardsTyped
<1>7. CardsTypeOK'
  <2>1. \A d \in Cards : /\ pressed'[d] \in Presses[d] \cup {"none"}
                         /\ shown'[d] \in Presses[d] \cup {"absent", "open"} /\ tasks'[d] \cup redraws'[d] \subseteq Presses[d]
    BY <1>2, <1>4, <1>5 DEF CInv, CardsTypeOK
  <2> QED
    BY <1>6, <2>1 DEF CardsTypeOK, CardsTyped
<1>8. \A d \in Cards : redraws'[d] \ tasks'[d] # {} => pressed'[d] # "none" \/ ~undecided'[d]
  BY <1>2, <1>4, <1>5 DEF CInv
<1>9. ShownIsTaken'
  BY <1>2, <1>4, <1>5 DEF CInv, ShownIsTaken
<1> QED
  BY <1>6, <1>7, <1>8, <1>9 DEF CInv

LEMMA RedrawCInv == ASSUME CInv, NEW c \in Cards, Redraw(c) PROVE CInv'
<1>1. PICK p \in redraws[c] \ tasks[c] :
        /\ redraws' = [redraws EXCEPT ![c] = @ \ {p}]
        /\ \/ shown' = [shown EXCEPT ![c] = p] /\ UNCHANGED card_mishaps
           \/ CardMishap /\ UNCHANGED shown
  BY DEF Redraw
<1>2. UNCHANGED <<undecided, pressed, tasks>> /\ (pressed[c] # "none" \/ ~undecided[c]) /\ p \in Presses[c]
      /\ p \in AllPresses
  BY <1>1, PressesFacts DEF Redraw, CInv, CardsTypeOK
<1>3. CardsTyped'
  BY <1>1, <1>2, CardsAssumption DEF CInv, CardsTyped, CardMishap
<1>4. \A d \in Cards : redraws'[d] \subseteq redraws[d] /\ (shown'[d] = shown[d] \/ (d = c /\ shown'[d] = p))
  BY <1>1, <1>2 DEF CInv, CardsTyped
<1> QED
  BY <1>2, <1>3, <1>4 DEF CInv, CardsTypeOK, CardsTyped, ShownIsTaken

LEMMA LapseCInv == ASSUME CInv, NEW c \in Cards, Lapse(c) PROVE CInv'
BY CardsAssumption DEF CInv, CardsTyped, CardsTypeOK, ShownIsTaken, Lapse, CardMishap

LEMMA ExecuteCInv == ASSUME CInv, Execute PROVE CInv'
<1>1. PICK c \in Cards : undecided' = [undecided EXCEPT ![c] = FALSE]
  BY DEF Execute
<1> QED
  BY <1>1 DEF CInv, CardsTyped, CardsTypeOK, ShownIsTaken, Execute

LEMMA CardsCrashCInv == ASSUME CInv, CardsCrash PROVE CInv'
BY CardsAssumption DEF CInv, CardsTyped, CardsTypeOK, ShownIsTaken, CardsCrash, CardMishap

LEMMA CardsStep == ASSUME CInv, [CardsNext]_card_vars PROVE CInv'
<1>1. CASE UNCHANGED card_vars
  BY <1>1 DEF card_vars, CInv, CardsTyped, CardsTypeOK, ShownIsTaken
<1>2. CASE CardsNext
  BY <1>2, ShowCInv, PressCInv, DecideCInv, RedrawCInv, LapseCInv, ExecuteCInv, CardsCrashCInv DEF CardsNext
<1> QED
  BY <1>1, <1>2

LEMMA CardsStart == CardsInit => CInv
<1> SUFFICES ASSUME CardsInit PROVE CInv
  OBVIOUS
<1>1. \A c \in Cards : pressed[c] = "none" /\ shown[c] = "absent" /\ tasks[c] = {} /\ redraws[c] = {}
  BY DEF CardsInit
<1>2. CardsTyped /\ card_mishaps \in 0..MaxCardMishaps
  BY CardsAssumption DEF CardsInit, CardsTyped
<1>3. CardsTypeOK
  BY <1>1, <1>2 DEF CardsTyped, CardsTypeOK
<1>4. ShownIsTaken
  BY <1>1, PressesFacts DEF ShownIsTaken
<1> QED
  BY <1>1, <1>2, <1>3, <1>4 DEF CInv

\* Whatever is pressed, decided, redrawn, executed and lost, the state of the cards
\* has its types, and an update whose task has had its turn shows a press that was
\* decided (channels/slack, ipc/handlers_approval.py).
THEOREM CardsInvariant == CardsSpec => []CInv
BY CardsStart, CardsStep, PTL DEF CardsSpec

\* A message that shows a decision has had one, or its time was over: for any
\* number of cards and crashes (channels/slack, ipc/handlers_approval.py).
THEOREM CardsShowWhatWasTaken == CardsSpec => []ShownIsTaken
<1>1. CInv => ShownIsTaken
  BY DEF CInv
<1> QED
  BY <1>1, CardsInvariant, PTL

-----------------------------------------------------------------------------
\* SlackChannel: the reconciler and the posts.

\* Users' posts up to t have a row or are found and about to have one.
Covered(ps, rows, t, found) ==
  t \in 0..Len(ps) /\ \A n \in DOMAIN ps : ps[n] = "user" /\ n <= t => n \in rows \/ n \in ToSet(found)

Fetches == [pc : {"rest", "page", "check", "store"}, oldest : Nat, mark : Nat, page : Nat, found : Seq(Numbered)]

FetchKept(ps, rows, f) ==
  /\ f.pc = "page" => f.mark <= f.oldest /\ Covered(ps, rows, f.oldest, <<>>)
  /\ f.pc \in {"check", "store"} => Covered(ps, rows, f.mark, f.found) /\ ToSet(f.found) \subseteq DOMAIN ps
  /\ f.pc = "store" => f.found # <<>>

\* The variables the inbound half of the reconciler does not write.
LiveTyped ==
  /\ posts \in Seq(PostKinds) /\ Len(posts) <= MaxPosts
  /\ socket \subseteq (DOMAIN posts) \X {1, 2} /\ seen \cup handlers \subseteq DOMAIN posts
  /\ phase \in Phases /\ allowed \in BOOLEAN /\ shutting \in BOOLEAN
  /\ chat \in {"there", "allow_create", "absent"}
  /\ slack_mishaps \in 0..MaxSlackMishaps

SlackInv ==
  /\ LiveTyped /\ stored \subseteq DOMAIN posts /\ fetch \in Fetches
  /\ Covered(posts, stored, cursor, <<>>) /\ FetchKept(posts, stored, fetch)

LEMMA SlackTypes == SlackInv => SlackTypeOK
<1> SUFFICES ASSUME SlackInv PROVE SlackTypeOK
  OBVIOUS
<1>1. DOMAIN posts \subseteq Numbered
  BY SlackBounds DEF SlackInv, LiveTyped, Numbered
<1>2. socket \subseteq Numbered \X {1, 2}
  BY <1>1 DEF SlackInv, LiveTyped
<1>3. cursor \in 0..Len(posts)
  BY DEF SlackInv, Covered
<1>4. fetch.pc \in {"rest", "page", "check", "store"} /\ fetch.found \in Seq(Numbered)
  BY DEF SlackInv, Fetches
<1> QED
  BY <1>2, <1>3, <1>4 DEF SlackInv, LiveTyped, SlackTypeOK

LEMMA FetchTypes ==
  ASSUME NEW f \in Fetches
  PROVE  f.oldest \in Nat /\ f.mark \in Nat /\ f.page \in Nat /\ f.found \in Seq(Numbered)
BY DEF Fetches

LEMMA NoFetchTyped == NoFetch \in Fetches /\ NoFetch.pc = "rest" /\ NoFetch.mark = 0
BY DEF NoFetch, Fetches

\* What is covered stays so when a post is added and rows are.
Extends(ps, new) ==
  Len(ps) <= Len(new) /\ \A n \in 1..Len(ps) : new[n] = ps[n]

LEMMA PostsExtend ==
  ASSUME NEW ps \in Seq(PostKinds)
  PROVE  Extends(ps, ps) /\ \A k \in PostKinds : Append(ps, k) \in Seq(PostKinds) /\ Extends(ps, Append(ps, k))
<1>1. ASSUME NEW k \in PostKinds
      PROVE  /\ Append(ps, k) \in Seq(PostKinds) /\ Len(Append(ps, k)) = Len(ps) + 1
             /\ \A n \in 1..Len(ps) : Append(ps, k)[n] = ps[n]
  OBVIOUS
<1>2. Len(ps) \in Nat
  OBVIOUS
<1> QED
  BY <1>1, <1>2 DEF Extends

LEMMA CoveredStays ==
  ASSUME NEW ps \in Seq(PostKinds), NEW new \in Seq(PostKinds), Extends(ps, new),
         NEW rows, NEW more, rows \subseteq more
  PROVE  /\ \A t, found : Covered(ps, rows, t, found) => Covered(new, more, t, found)
         /\ \A f : FetchKept(ps, rows, f) => FetchKept(new, more, f)
<1>1. /\ Len(ps) <= Len(new) /\ Len(ps) \in Nat /\ Len(new) \in Nat
      /\ DOMAIN ps = 1..Len(ps) /\ DOMAIN new = 1..Len(new)
      /\ \A n \in DOMAIN ps : new[n] = ps[n]
  BY DEF Extends
<1>2. ASSUME NEW t, NEW found, Covered(ps, rows, t, found) PROVE Covered(new, more, t, found)
  <2>1. t \in 0..Len(new)
    BY <1>1, <1>2 DEF Covered
  <2>2. ASSUME NEW n \in DOMAIN new, new[n] = "user", n <= t PROVE n \in more \/ n \in ToSet(found)
    <3>1. n \in DOMAIN ps /\ ps[n] = "user"
      BY <1>1, <1>2, <2>2 DEF Covered
    <3> QED
      BY <1>2, <2>2, <3>1 DEF Covered
  <2> QED
    BY <2>1, <2>2 DEF Covered
<1>3. DOMAIN ps \subseteq DOMAIN new
  BY <1>1
<1> QED
  BY <1>2, <1>3 DEF FetchKept

LEMMA MishapCounted == ASSUME LiveTyped, Mishap PROVE slack_mishaps' \in 0..MaxSlackMishaps
BY SlackBounds DEF LiveTyped, Mishap

\* The live half keeps rows and the reconciler as they are, or restarts it.
LEMMA LiveKeeps ==
  ASSUME SlackInv, LiveTyped', Extends(posts, posts'),
         stored \subseteq stored', stored' \subseteq DOMAIN posts', cursor' = cursor, fetch' = fetch \/ fetch' = NoFetch
  PROVE  SlackInv'
<1>1. posts \in Seq(PostKinds) /\ posts' \in Seq(PostKinds)
  BY DEF SlackInv, LiveTyped
<1>2. Covered(posts', stored', cursor', <<>>) /\ FetchKept(posts', stored', fetch)
  BY <1>1, CoveredStays DEF SlackInv
<1>3. NoFetch \in Fetches /\ FetchKept(posts', stored', NoFetch)
  BY NoFetchTyped DEF FetchKept
<1>4. fetch' \in Fetches /\ FetchKept(posts', stored', fetch')
  BY <1>2, <1>3 DEF SlackInv
<1> QED
  BY <1>2, <1>4 DEF SlackInv

LEMMA ConnectionKeeps ==
  ASSUME SlackInv, CreateChat \/ Connect \/ ConnectFails \/ HandlerDies \/ HandlerDone \/ WakeUp \/ PrepareShutdown
                   \/ Disconnect \/ Restart
  PROVE  SlackInv'
<1>1. UNCHANGED <<posts, stored, cursor>> /\ (fetch' = fetch \/ fetch' = NoFetch)
  BY DEF CreateChat, Connect, ConnectFails, HandlerDies, HandlerDone, WakeUp, PrepareShutdown, Disconnect, Restart
<1>2. slack_mishaps' \in 0..MaxSlackMishaps
  BY MishapCounted
     DEF SlackInv, LiveTyped, CreateChat, Connect, ConnectFails, HandlerDies, HandlerDone, WakeUp, PrepareShutdown, Disconnect, Restart
<1>3. socket' \subseteq socket /\ seen' \subseteq seen /\ handlers' \subseteq handlers
  BY DEF CreateChat, Connect, ConnectFails, HandlerDies, HandlerDone, WakeUp, PrepareShutdown, Disconnect, Restart, socket_vars
<1>4. /\ phase' \in Phases /\ allowed' \in BOOLEAN /\ shutting' \in BOOLEAN
      /\ chat' \in {"there", "allow_create", "absent"}
  BY DEF SlackInv, LiveTyped, Phases, SyncAllowed, CreateChat, Connect, ConnectFails, HandlerDies, HandlerDone, WakeUp,
         PrepareShutdown, Disconnect, Restart, socket_vars
<1>5. LiveTyped'
  BY <1>1, <1>2, <1>3, <1>4 DEF SlackInv, LiveTyped
<1> QED
  BY <1>1, <1>5, LiveKeeps, PostsExtend DEF SlackInv, LiveTyped

LEMMA PostKeeps == ASSUME SlackInv, NEW what \in PostKinds, Post(what) PROVE SlackInv'
<1>1. posts \in Seq(PostKinds) /\ posts' = Append(posts, what) /\ Len(posts) < MaxPosts /\ Len(posts) \in Nat
  BY DEF SlackInv, LiveTyped, Post
<1>2. posts' \in Seq(PostKinds) /\ Len(posts') <= MaxPosts /\ DOMAIN posts \subseteq DOMAIN posts' /\ Len(posts) + 1 \in DOMAIN posts'
  BY <1>1, SlackBounds
<1>3. socket' \subseteq (DOMAIN posts') \X {1, 2}
  <2>1. socket \subseteq (DOMAIN posts') \X {1, 2}
    BY <1>2 DEF SlackInv, LiveTyped
  <2>2. <<Len(posts) + 1, 1>> \in (DOMAIN posts') \X {1, 2} /\ <<Len(posts) + 1, 2>> \in (DOMAIN posts') \X {1, 2}
    BY <1>2
  <2>3. \/ socket' = socket \/ socket' = socket \cup {<<Len(posts) + 1, 1>>}
        \/ socket' = socket \cup {<<Len(posts) + 1, 1>>, <<Len(posts) + 1, 2>>}
    BY DEF Post
  <2> HIDE <1>2
  <2> QED
    BY <2>1, <2>2, <2>3
<1>4. slack_mishaps' \in 0..MaxSlackMishaps
  BY MishapCounted DEF Post, SlackInv, LiveTyped
<1>5. LiveTyped'
  BY <1>2, <1>3, <1>4 DEF Post, SlackInv, LiveTyped
<1>6. stored' \subseteq DOMAIN posts'
  BY <1>2 DEF Post, SlackInv, LiveTyped
<1> QED
  BY <1>1, <1>5, <1>6, LiveKeeps, PostsExtend DEF Post

LEMMA TakeEventKeeps == ASSUME SlackInv, TakeEvent PROVE SlackInv'
<1>1. PICK e \in socket : /\ socket' = socket \ {e}
                          /\ IF posts[e[1]] = "bot" \/ ~allowed \/ e[1] \in seen
                             THEN UNCHANGED <<seen, handlers>>
                             ELSE seen' = seen \cup {e[1]} /\ handlers' = handlers \cup {e[1]}
  BY DEF TakeEvent
<1>2. e[1] \in DOMAIN posts
  BY DEF SlackInv, LiveTyped
<1>3. LiveTyped'
  BY <1>1, <1>2 DEF TakeEvent, SlackInv, LiveTyped
<1> QED
  BY <1>3, LiveKeeps, PostsExtend DEF TakeEvent, SlackInv, LiveTyped

LEMMA HandlerIngestsKeeps == ASSUME SlackInv, HandlerIngests PROVE SlackInv'
<1>1. LiveTyped' /\ stored \subseteq stored' /\ stored' \subseteq DOMAIN posts'
  BY DEF HandlerIngests, SlackInv, LiveTyped
<1>2. posts' = posts /\ Extends(posts, posts) /\ cursor' = cursor /\ fetch' = fetch
  BY PostsExtend DEF HandlerIngests, SlackInv, LiveTyped
<1> QED
  BY <1>1, <1>2, LiveKeeps

\* The reconciler leaves the live half alone.
LEMMA ReconcilerKeeps ==
  ASSUME SlackInv, UNCHANGED <<posts, socket_vars, chat>>, slack_mishaps' \in 0..MaxSlackMishaps,
         stored \subseteq stored', stored' \subseteq DOMAIN posts,
         fetch' \in Fetches, Covered(posts, stored', cursor', <<>>), FetchKept(posts, stored', fetch')
  PROVE  SlackInv'
<1>1. LiveTyped'
  BY DEF SlackInv, LiveTyped, socket_vars
<1>2. posts' = posts
  OBVIOUS
<1>3. Covered(posts', stored', cursor', <<>>) /\ FetchKept(posts', stored', fetch') /\ stored' \subseteq DOMAIN posts'
  BY <1>2
<1> QED
  BY <1>1, <1>3 DEF SlackInv

LEMMA FetchInboundSinceKeeps == ASSUME SlackInv, FetchInboundSince PROVE SlackInv'
<1>1. cursor \in Nat /\ Covered(posts, stored, cursor, <<>>)
  BY DEF SlackInv, Covered
<1>2. fetch' \in Fetches /\ fetch'.pc = "page" /\ fetch'.oldest = cursor /\ fetch'.mark = 0
  <2>1. fetch' = [NoFetch EXCEPT !.pc = "page", !.oldest = cursor]
    BY DEF FetchInboundSince
  <2> HIDE DEF NoFetch
  <2> QED
    BY <1>1, <2>1, NoFetchTyped DEF Fetches
<1>3. FetchKept(posts, stored, fetch')
  BY <1>1, <1>2 DEF FetchKept
<1> QED
  BY <1>1, <1>2, <1>3, ReconcilerKeeps DEF FetchInboundSince, SlackInv, LiveTyped

\* A page is a run of posts after t, of which the users' are kept.
LEMMA PageOf ==
  ASSUME posts \in Seq(PostKinds), Len(posts) <= MaxPosts, NEW t \in 0..Len(posts), NEW k \in Nat, k <= Len(posts) - t
  PROVE  /\ Len(Later(t)) = Len(posts) - t
         /\ SubSeq(Later(t), 1, k) \in Seq(Numbered) /\ Len(SubSeq(Later(t), 1, k)) = k
         /\ \A i \in 1..k : SubSeq(Later(t), 1, k)[i] = t + i
<1>1. Later(t) = [i \in 1..(Len(posts) - t) |-> t + i] /\ Len(posts) - t \in Nat
  BY DEF Later
<1>2. Later(t) \in Seq(Numbered) /\ Len(Later(t)) = Len(posts) - t
  <2>1. \A i \in 1..(Len(posts) - t) : t + i \in Numbered
    BY SlackBounds DEF Numbered
  <2> QED
    BY <1>1, <2>1
<1>3. k <= Len(Later(t)) /\ \A i \in 1..k : Later(t)[i] = t + i
  BY <1>1, <1>2
<1> QED
  BY <1>2, <1>3

LEMMA UsersOf ==
  ASSUME posts \in Seq(PostKinds), NEW t \in 0..Len(posts), NEW k \in Nat, k <= Len(posts) - t,
         NEW page \in Seq(Numbered), Len(page) = k, \A i \in 1..k : page[i] = t + i
  PROVE  /\ k > 0 => page # <<>> /\ Last(page) = t + k
         /\ k = 0 => page = <<>>
         /\ UserPosts(page) \in Seq(Numbered)
         /\ ToSet(UserPosts(page)) = {n \in (t + 1)..(t + k) : posts[n] = "user"}
<1>4. ToSet(page) = (t + 1)..(t + k)
  <2>1. \A n \in (t + 1)..(t + k) : n - t \in 1..k /\ page[n - t] = n
    OBVIOUS
  <2>2. DOMAIN page = 1..k
    OBVIOUS
  <2>3. \A i \in 1..k : page[i] \in (t + 1)..(t + k)
    OBVIOUS
  <2> QED
    BY <2>1, <2>2, <2>3 DEF ToSet
<1>5. (k > 0 => page # <<>> /\ Last(page) = t + k) /\ (k = 0 => page = <<>>)
  BY DEF Last
<1>7. UserPosts(page) = Kept(page, {n \in DOMAIN posts : posts[n] = "user"})
  BY DEF UserPosts, Kept
<1>8. UserPosts(page) \in Seq(Numbered)
      /\ ToSet(UserPosts(page)) = ToSet(page) \cap {n \in DOMAIN posts : posts[n] = "user"}
  <2> DEFINE users == {n \in DOMAIN posts : posts[n] = "user"}
  <2>1. UserPosts(page) = Kept(page, users)
    BY <1>7
  <2> HIDE DEF users
  <2>2. Kept(page, users) \in Seq(Numbered) /\ ToSet(Kept(page, users)) = ToSet(page) \cap users
    BY KeptElements
  <2>3. UserPosts(page) \in Seq(Numbered) /\ ToSet(UserPosts(page)) = ToSet(page) \cap users
    BY <2>1, <2>2
  <2> QED
    BY <2>3 DEF users
<1>9. (t + 1)..(t + k) \subseteq DOMAIN posts
  OBVIOUS
<1> QED
  BY <1>4, <1>5, <1>8, <1>9

LEMMA NoUsers == UserPosts(<<>>) = <<>>
<1> DEFINE users == {n \in DOMAIN posts : posts[n] = "user"}
           none == <<>>
<1>1. none \in Seq(Numbered) /\ UserPosts(none) = Kept(none, users)
  BY DEF UserPosts, Kept
<1> HIDE DEF users, none
<1>2. UserPosts(none) \in Seq(Numbered) /\ ToSet(UserPosts(none)) = ToSet(none) \cap users
  BY <1>1, KeptElements
<1>3. ToSet(none) = {}
  BY DEF ToSet, none
<1>4. \A s \in Seq(Numbered) : ToSet(s) = {} => s = <<>>
  BY DEF ToSet
<1> QED
  BY <1>2, <1>3, <1>4 DEF none

LEMMA FetchGoesOn ==
  ASSUME NEW f \in Fetches, NEW g, NEW mark \in Nat, g = [f EXCEPT !.oldest = mark, !.mark = mark, !.page = @ + 1]
  PROVE  g \in Fetches /\ g.pc = f.pc /\ g.mark = mark /\ g.oldest = mark
<1>1. f.page + 1 \in Nat
  BY DEF Fetches
<1>2. \A p \in Nat, o \in Nat : [f EXCEPT !.oldest = o, !.mark = o, !.page = p] \in Fetches
  BY DEF Fetches
<1> QED
  BY <1>1, <1>2 DEF Fetches

LEMMA FetchPageKeeps == ASSUME SlackInv, FetchPage PROVE SlackInv'
<1>1. /\ fetch \in Fetches /\ fetch.pc = "page" /\ posts \in Seq(PostKinds) /\ Len(posts) <= MaxPosts
      /\ fetch.mark <= fetch.oldest /\ Covered(posts, stored, fetch.oldest, <<>>) /\ fetch.oldest \in 0..Len(posts)
      /\ fetch.mark \in Nat
  BY DEF SlackInv, LiveTyped, FetchKept, FetchPage, Covered, Fetches
<1>2. PICK t \in 0..Len(posts) : t = fetch.oldest
  BY <1>1
<1> DEFINE later == Later(t)
           k == IF Len(later) < PageLimit THEN Len(later) ELSE PageLimit
           page == SubSeq(later, 1, k)
           mark == IF page = <<>> THEN fetch.mark ELSE Last(page)
<1>3. k \in Nat /\ k <= Len(posts) - t /\ (k = 0 <=> Len(posts) = t) /\ Len(later) = Len(posts) - t
  <2>1. Len(later) = Len(posts) - t
    <3>1. 0 \in Nat /\ 0 <= Len(posts) - t
      BY <1>1
    <3> QED
      BY <1>1, <3>1, PageOf
  <2>2. PageLimit \in Nat \ {0} /\ Len(posts) - t \in Nat
    BY SlackBounds, <1>1
  <2> HIDE DEF later
  <2> QED
    BY <2>1, <2>2
<1> HIDE DEF k
<1>11. page \in Seq(Numbered) /\ Len(page) = k /\ \A i \in 1..k : page[i] = t + i
  BY <1>1, <1>3, PageOf
<1>12. page = later => k = Len(posts) - t
  BY <1>3, <1>11
<1> HIDE DEF page
<1>4. /\ k > 0 => page # <<>> /\ Last(page) = t + k
      /\ k = 0 => page = <<>>
      /\ page = later => k = Len(posts) - t
      /\ UserPosts(page) \in Seq(Numbered)
      /\ ToSet(UserPosts(page)) = {n \in (t + 1)..(t + k) : posts[n] = "user"}
  BY <1>1, <1>3, <1>11, <1>12, UsersOf
<1>5. fetch' = IF UserPosts(page) # <<>> \/ page = later \/ fetch.page + 1 = MaxPages THEN Found(page, mark)
               ELSE [fetch EXCEPT !.oldest = mark, !.mark = mark, !.page = @ + 1]
  BY <1>2 DEF FetchPage, page, k
<1>6. mark \in 0..Len(posts) /\ mark \in Nat /\ (mark <= t \/ mark = t + k)
  BY <1>1, <1>2, <1>3, <1>4
<1>7. Covered(posts, stored, mark, UserPosts(page))
  <2> SUFFICES ASSUME NEW n \in DOMAIN posts, posts[n] = "user", n <= mark
               PROVE  n \in stored \/ n \in ToSet(UserPosts(page))
    BY <1>6 DEF Covered
  <2>1. CASE n <= t
    BY <1>1, <1>2, <2>1 DEF Covered, ToSet
  <2>2. CASE n > t
    <3>1. n \in (t + 1)..(t + k)
      BY <1>1, <1>3, <1>6, <2>2
    <3> QED
      BY <1>4, <3>1
  <2> QED
    BY <1>1, <2>1, <2>2
<1>8. fetch' \in Fetches /\ FetchKept(posts, stored, fetch')
  <2>1. CASE fetch' = Found(page, mark)
    <3>1. fetch' \in Fetches /\ fetch'.pc = "check" /\ fetch'.found = UserPosts(page) /\ fetch'.mark = mark
      <4> DEFINE found == UserPosts(page)
      <4>1. fetch' = [fetch EXCEPT !.pc = "check", !.found = found, !.mark = mark]
        BY <2>1 DEF Found
      <4>2. found \in Seq(Numbered) /\ mark \in Nat
        BY <1>4, <1>6
      <4> HIDE DEF mark, found
      <4>3. fetch' \in Fetches /\ fetch'.pc = "check" /\ fetch'.found = found /\ fetch'.mark = mark
        BY <1>1, <4>1, <4>2 DEF Fetches
      <4> QED
        BY <4>3 DEF found
    <3>2. ToSet(UserPosts(page)) \subseteq DOMAIN posts
      BY <1>1, <1>3, <1>4
    <3> QED
      BY <1>7, <3>1, <3>2 DEF FetchKept
  <2>2. CASE UserPosts(page) = <<>> /\ fetch' = [fetch EXCEPT !.oldest = mark, !.mark = mark, !.page = @ + 1]
    <3>1. fetch' \in Fetches /\ fetch'.pc = "page" /\ fetch'.oldest = mark /\ fetch'.mark = mark
      <4> HIDE DEF mark
      <4> QED
        BY <1>1, <1>6, <2>2, FetchGoesOn
    <3> QED
      BY <1>6, <1>7, <2>2, <3>1 DEF FetchKept
  <2> QED
    BY <1>5, <2>1, <2>2
<1> QED
  BY <1>8, ReconcilerKeeps DEF FetchPage, SlackInv, LiveTyped

LEMMA FetchFailsKeeps == ASSUME SlackInv, FetchFails PROVE SlackInv'
<1>2. UserPosts(<<>>) = <<>>
  BY NoUsers
<1>3. /\ fetch \in Fetches /\ fetch.pc = "page" /\ fetch.mark <= fetch.oldest /\ Covered(posts, stored, fetch.oldest, <<>>)
      /\ fetch.mark \in Nat /\ fetch.oldest \in 0..Len(posts)
  BY DEF SlackInv, FetchKept, FetchFails, Covered, Fetches
<1>4. posts \in Seq(PostKinds)
  BY DEF SlackInv, LiveTyped
<1>5. fetch' \in Fetches /\ fetch'.pc = "check" /\ fetch'.mark = fetch.mark /\ fetch'.found = <<>>
  <2> DEFINE none == <<>>
             mark == fetch.mark
  <2>1. fetch' = [fetch EXCEPT !.pc = "check", !.found = none, !.mark = mark]
    BY <1>2 DEF FetchFails, Found
  <2>2. none \in Seq(Numbered) /\ mark \in Nat
    BY <1>3
  <2> HIDE DEF none, mark
  <2>3. fetch' \in Fetches /\ fetch'.pc = "check" /\ fetch'.mark = mark /\ fetch'.found = none
    BY <1>3, <2>1, <2>2 DEF Fetches
  <2> QED
    BY <2>3 DEF none, mark
<1>6. Covered(posts, stored, fetch.mark, <<>>)
  <2>1. fetch.mark \in 0..Len(posts) /\ \A n \in DOMAIN posts : n <= fetch.mark => n <= fetch.oldest
    BY <1>3, <1>4
  <2> QED
    BY <1>3, <2>1 DEF Covered
<1>7. FetchKept(posts, stored, fetch')
  BY <1>5, <1>6 DEF FetchKept, ToSet
<1>8. slack_mishaps' \in 0..MaxSlackMishaps
  BY MishapCounted DEF FetchFails, SlackInv
<1> QED
  BY <1>5, <1>7, <1>8, ReconcilerKeeps DEF FetchFails, SlackInv

LEMMA MaxOfTwo == ASSUME NEW a \in Nat, NEW b \in Nat PROVE Max({a, b}) \in {a, b}
<1>1. \E x \in {a, b} : \A y \in {a, b} : x >= y
  OBVIOUS
<1> QED
  BY <1>1 DEF Max

LEMMA CheckMessageKeeps == ASSUME SlackInv, CheckMessage PROVE SlackInv'
<1>1. fetch \in Fetches /\ fetch.pc = "check" /\ fetch.found \in Seq(Numbered) /\ fetch.found # <<>>
      /\ Covered(posts, stored, fetch.mark, fetch.found) /\ ToSet(fetch.found) \subseteq DOMAIN posts
  BY DEF SlackInv, FetchKept, CheckMessage, Fetches
<1>2. \A x \in ToSet(fetch.found) : x = Head(fetch.found) \/ x \in ToSet(Tail(fetch.found))
  BY <1>1, HeadAndTail
<1>3. /\ fetch' \in Fetches
      /\ Head(fetch.found) \notin stored => fetch' = [fetch EXCEPT !.pc = "store"]
      /\ Head(fetch.found) \in stored => fetch' = [fetch EXCEPT !.found = Tail(fetch.found)]
  <2>1. Tail(fetch.found) \in Seq(Numbered)
    BY <1>1, HeadAndTail
  <2> QED
    BY <1>1, <2>1 DEF CheckMessage, Fetches
<1>4. FetchKept(posts, stored, fetch')
  <2>1. CASE Head(fetch.found) \notin stored
    <3>1. fetch'.pc = "store" /\ fetch'.mark = fetch.mark /\ fetch'.found = fetch.found
      BY <1>1, <1>3, <2>1 DEF Fetches
    <3> QED
      BY <1>1, <3>1 DEF FetchKept
  <2>2. CASE Head(fetch.found) \in stored
    <3>1. fetch'.pc = "check" /\ fetch'.mark = fetch.mark /\ fetch'.found = Tail(fetch.found)
      BY <1>1, <1>3, <2>2 DEF Fetches
    <3>2. ToSet(Tail(fetch.found)) \subseteq ToSet(fetch.found)
      BY <1>1, HeadAndTail
    <3> QED
      BY <1>1, <1>2, <2>2, <3>1, <3>2 DEF FetchKept, Covered
  <2> QED
    BY <2>1, <2>2
<1> QED
  BY <1>3, <1>4, ReconcilerKeeps DEF CheckMessage, SlackInv, LiveTyped

LEMMA StoreMessageKeeps == ASSUME SlackInv, StoreMessage PROVE SlackInv'
<1>1. /\ fetch \in Fetches /\ fetch.pc = "store" /\ fetch.found \in Seq(Numbered) /\ fetch.found # <<>>
      /\ Covered(posts, stored, fetch.mark, fetch.found) /\ ToSet(fetch.found) \subseteq DOMAIN posts
  BY DEF SlackInv, FetchKept, StoreMessage, Fetches
<1>2. stored' = stored \cup {Head(fetch.found)} /\ fetch' = [fetch EXCEPT !.pc = "check", !.found = Tail(@)]
  BY DEF StoreMessage
<1>3. fetch' \in Fetches /\ fetch'.pc = "check" /\ fetch'.mark = fetch.mark /\ fetch'.found = Tail(fetch.found)
  <2> DEFINE rest == Tail(fetch.found)
  <2>1. rest \in Seq(Numbered)
    BY <1>1, HeadAndTail
  <2>2. fetch' = [fetch EXCEPT !.pc = "check", !.found = rest]
    BY <1>2
  <2> HIDE DEF rest
  <2>3. fetch' \in Fetches /\ fetch'.pc = "check" /\ fetch'.mark = fetch.mark /\ fetch'.found = rest
    BY <1>1, <2>1, <2>2 DEF Fetches
  <2> QED
    BY <2>3 DEF rest
<1>4. Head(fetch.found) \in DOMAIN posts
  BY <1>1, HeadAndTail
<1>5. FetchKept(posts, stored', fetch')
  BY <1>1, <1>2, <1>3, HeadAndTail DEF FetchKept, Covered
<1>6. Covered(posts, stored', cursor, <<>>)
  BY <1>2 DEF SlackInv, Covered
<1> QED
  BY <1>2, <1>3, <1>4, <1>5, <1>6, ReconcilerKeeps DEF StoreMessage, SlackInv, LiveTyped

LEMMA AdvanceCursorKeeps == ASSUME SlackInv, AdvanceCursor PROVE SlackInv'
<1>1. /\ fetch \in Fetches /\ fetch.pc = "check" /\ fetch.found = <<>>
      /\ Covered(posts, stored, fetch.mark, <<>>) /\ Covered(posts, stored, cursor, <<>>)
  BY DEF SlackInv, FetchKept, AdvanceCursor
<1>2. fetch.mark \in Nat /\ cursor \in Nat
  BY <1>1 DEF Covered, Fetches
<1>3. Max({cursor, fetch.mark}) \in {cursor, fetch.mark}
  BY <1>2, MaxOfTwo
<1>4. Covered(posts, stored, cursor', <<>>)
  BY <1>1, <1>3 DEF AdvanceCursor
<1> QED
  BY <1>4, NoFetchTyped, ReconcilerKeeps DEF AdvanceCursor, FetchKept, SlackInv, LiveTyped

LEMMA SlackSteps == ASSUME SlackInv, [SlackNext]_slack_vars PROVE SlackInv'
<1>1. CASE UNCHANGED slack_vars
  <2>1. LiveTyped' /\ UNCHANGED <<posts, stored, cursor, fetch>>
    BY <1>1 DEF slack_vars, SlackInv, LiveTyped
  <2> QED
    BY <2>1 DEF SlackInv
<1>2. CASE SlackNext
  BY <1>2, ConnectionKeeps, PostKeeps, TakeEventKeeps, HandlerIngestsKeeps, FetchInboundSinceKeeps, FetchPageKeeps,
     FetchFailsKeeps, CheckMessageKeeps, StoreMessageKeeps, AdvanceCursorKeeps DEF SlackNext, ComeBack, Reconcile
<1> QED
  BY <1>1, <1>2

LEMMA SlackStarts == SlackInit => SlackInv
<1> SUFFICES ASSUME SlackInit PROVE SlackInv
  OBVIOUS
<1>1. LiveTyped
  <2>1. posts \in Seq(PostKinds) /\ Len(posts) <= MaxPosts /\ slack_mishaps \in 0..MaxSlackMishaps
    BY SlackBounds DEF SlackInit
  <2> QED
    BY <2>1 DEF SlackInit, LiveTyped, Phases
<1>2. Covered(posts, stored, cursor, <<>>)
  BY DEF SlackInit, Covered
<1> QED
  BY <1>1, <1>2, NoFetchTyped DEF SlackInit, SlackInv, FetchKept

\* The posts of users up to the cursor are stored, and those up to the mark of a
\* fetch under way are stored or found, whatever the socket, the pages and the
\* process do (channels/slack/_channel.py, reconciler.py).
THEOREM SlackInvariant == SlackSpec => []SlackInv
BY SlackStarts, SlackSteps, PTL DEF SlackSpec

LEMMA SlackSkipsNothing == SlackInv => NothingSkipped
BY DEF SlackInv, Covered, NothingSkipped, ToSet

\* The cursor of the history never passes a user's message that is not stored
\* (channels/slack/_channel.py, reconciler.py).
THEOREM NoPostIsSkipped == SlackSpec => []NothingSkipped
BY SlackSkipsNothing, SlackInvariant, PTL

-----------------------------------------------------------------------------
\* AgentLoop: the messages of the container's program.

Programs == [pc : {"off", "boot", "start", "asks", "answers", "result", "check", "drain", "sleep"},
             prompt : Seq(Messages), attempt : {1, 2}]
Sessions == [core : Seq(Messages), query : Seq(Messages)]
LoopPast == [messages : 0..MaxMessages, mishaps : 0..MaxMishaps]

LoopTyped ==
  /\ core \in Cores /\ inbox \in Seq(Messages) /\ saved \in Seq(Messages) /\ asked \in Seq(Messages)
  /\ sentinel \in BOOLEAN /\ registered \in BOOLEAN /\ wake \in BOOLEAN
  /\ initial \in 0..MaxMessages /\ loop \in Programs /\ session \in Sessions /\ loop_past \in LoopPast

\* A message is in one place: asked, in the prompt of a start, in initial.json or
\* in the directory; the n messages of the chat are all there are.
InOrder(as, in, pr, ini, n) ==
  /\ Distinct(as) /\ Distinct(in) /\ Distinct(pr)
  /\ ToSet(as) \cap ToSet(in) = {} /\ ToSet(pr) \cap ToSet(as) = {} /\ ToSet(pr) \cap ToSet(in) = {}
  /\ ini \notin ToSet(as) \cup ToSet(in) \cup ToSet(pr)
  /\ ToSet(as) \cup ToSet(in) \cup ToSet(pr) \subseteq 1..n /\ ini \in 0..n

NotAsked == IF loop.pc = "start" THEN loop.prompt ELSE <<>>

LInv ==
  /\ LoopTyped /\ SessionIsSaved
  /\ InOrder(asked, inbox, NotAsked, initial, loop_past.messages)

LEMMA LoopTypes == LInv => LoopTypeOK
BY DEF LInv, LoopTyped, LoopTypeOK, Programs, Sessions, LoopPast

LEMMA LoopInvSound == LInv => LoopSound
BY DEF LInv, InOrder, Distinct, LoopSound, AskedOnce

LEMMA OneMessage ==
  ASSUME NEW x \in Messages
  PROVE  <<x>> \in Seq(Messages) /\ ToSet(<<x>>) = {x} /\ Distinct(<<x>>)
BY DEF ToSet, Distinct

LEMMA NoMessage == <<>> \in Seq(Messages) /\ ToSet(<<>>) = {} /\ Distinct(<<>>)
BY DEF ToSet, Distinct

\* What the steps do to the messages.
LEMMA Arrivals ==
  ASSUME NEW as \in Seq(Messages), NEW in \in Seq(Messages), NEW pr \in Seq(Messages), NEW ini \in Nat, NEW n \in Nat,
         n < MaxMessages, InOrder(as, in, pr, ini, n)
  PROVE  /\ InOrder(as, Append(in, n + 1), pr, ini, n + 1)
         /\ InOrder(as, in, pr, n + 1, n + 1)
<1>1. n + 1 \in Messages
  BY LoopAssumption DEF Messages
<1>2. /\ Distinct(as) /\ Distinct(in) /\ Distinct(pr)
      /\ ToSet(as) \cap ToSet(in) = {} /\ ToSet(pr) \cap ToSet(as) = {} /\ ToSet(pr) \cap ToSet(in) = {}
      /\ ini \notin ToSet(as) \cup ToSet(in) \cup ToSet(pr)
      /\ ToSet(as) \subseteq 1..n /\ ToSet(in) \subseteq 1..n /\ ToSet(pr) \subseteq 1..n /\ ini \in 0..n
  BY DEF InOrder
<1>3. n + 1 \notin 1..n /\ n + 1 \notin 0..n /\ 1..n \subseteq 1..(n + 1) /\ n + 1 \in 1..(n + 1) /\ n + 1 \in 0..(n + 1)
      /\ 0..n \subseteq 0..(n + 1)
  OBVIOUS
<1>4. n + 1 \notin ToSet(as) \cup ToSet(in) \cup ToSet(pr) /\ n + 1 # ini
  BY <1>2, <1>3
<1>5. Append(in, n + 1) \in Seq(Messages) /\ ToSet(Append(in, n + 1)) = ToSet(in) \cup {n + 1}
  BY <1>1, ToSetFacts
<1>6. Distinct(Append(in, n + 1))
  <2> DEFINE one == <<n + 1>>
  <2>1. Append(in, n + 1) = in \o one
    BY <1>1
  <2>2. one \in Seq(Messages) /\ ToSet(one) = {n + 1} /\ Distinct(one)
    BY <1>1, OneMessage
  <2> HIDE DEF one
  <2>3. ToSet(in) \cap ToSet(one) = {}
    BY <1>4, <2>2
  <2>4. Distinct(in \o one)
    BY <1>2, <2>2, <2>3, DistinctTogether
  <2> QED
    BY <2>1, <2>4
<1> DEFINE more == Append(in, n + 1)
           m == n + 1
<1>7. m \notin ToSet(as) \cup ToSet(in) \cup ToSet(pr) /\ m # ini /\ ToSet(more) = ToSet(in) \cup {m} /\ Distinct(more)
  BY <1>4, <1>5, <1>6
<1>8. 1..n \subseteq 1..m /\ m \in 1..m /\ m \in 0..m /\ 0..n \subseteq 0..m
  BY <1>3
<1> HIDE DEF more, m
<1>9. InOrder(as, more, pr, ini, m)
  <2>1. ToSet(as) \cup ToSet(more) \cup ToSet(pr) \subseteq 1..m /\ ini \in 0..m
    BY <1>2, <1>7, <1>8
  <2>2. ini \notin ToSet(as) \cup ToSet(more) \cup ToSet(pr)
    BY <1>2, <1>7
  <2>3. ToSet(as) \cap ToSet(more) = {} /\ ToSet(pr) \cap ToSet(more) = {}
    BY <1>2, <1>7
  <2> QED
    BY <1>2, <1>7, <2>1, <2>2, <2>3 DEF InOrder
<1>10. InOrder(as, in, pr, m, m)
  BY <1>2, <1>7, <1>8 DEF InOrder
<1> QED
  BY <1>9, <1>10 DEF more, m

LEMMA Moves ==
  ASSUME NEW as \in Seq(Messages), NEW in \in Seq(Messages), NEW pr \in Seq(Messages), NEW ini \in Nat, NEW n \in Nat,
         n <= MaxMessages, InOrder(as, in, pr, ini, n)
  PROVE  /\ InOrder(as, <<>>, pr, ini, n) /\ InOrder(as, in, <<>>, ini, n)
         /\ ini # 0 => InOrder(as, <<>>, <<ini>> \o in, 0, n)
         /\ InOrder(as \o pr, in, <<>>, ini, n)
         /\ InOrder(as \o in, <<>>, <<>>, ini, n)
<1>1. /\ Distinct(as) /\ Distinct(in) /\ Distinct(pr)
      /\ ToSet(as) \cap ToSet(in) = {} /\ ToSet(pr) \cap ToSet(as) = {} /\ ToSet(pr) \cap ToSet(in) = {}
      /\ ini \notin ToSet(as) \cup ToSet(in) \cup ToSet(pr)
      /\ ToSet(as) \subseteq 1..n /\ ToSet(in) \subseteq 1..n /\ ToSet(pr) \subseteq 1..n /\ ini \in 0..n
  BY DEF InOrder
<1> DEFINE none == <<>>
<1>2. ToSet(none) = {} /\ Distinct(none)
  BY NoMessage
<1> HIDE DEF none
<1>3. InOrder(as, none, pr, ini, n) /\ InOrder(as, in, none, ini, n)
  BY <1>1, <1>2 DEF InOrder
<1>10. \A s \in Seq(Messages), t \in Seq(Messages) : ToSet(s \o t) = ToSet(s) \cup ToSet(t)
  <2> TAKE s \in Seq(Messages)
  <2> HIDE DEF Messages
  <2> QED
    BY ToSetFacts
<1> DEFINE ap == as \o pr
           ai == as \o in
<1>4. ToSet(ap) = ToSet(as) \cup ToSet(pr) /\ ToSet(ai) = ToSet(as) \cup ToSet(in)
  BY <1>10
<1>5. Distinct(ap)
  BY <1>1, DistinctTogether
<1>6. Distinct(ai)
  BY <1>1, DistinctTogether
<1> HIDE DEF ap, ai
<1>7. InOrder(ap, in, none, ini, n)
  BY <1>1, <1>2, <1>4, <1>5 DEF InOrder
<1>8. InOrder(ai, none, none, ini, n)
  BY <1>1, <1>2, <1>4, <1>6 DEF InOrder
<1>9. ASSUME ini # 0 PROVE InOrder(as, none, <<ini>> \o in, 0, n)
  <2>1. ini \in Messages /\ ini \in 1..n /\ 0 \notin 1..n /\ 0 \in 0..n
    BY <1>1, <1>9, LoopAssumption DEF Messages
  <2> DEFINE one == <<ini>>
  <2>2. one \in Seq(Messages) /\ ToSet(one) = {ini} /\ Distinct(one)
    BY <2>1, OneMessage
  <2> HIDE DEF one
  <2>3. ToSet(one) \cap ToSet(in) = {}
    BY <1>1, <2>2
  <2>4. Distinct(one \o in)
    BY <1>1, <2>2, <2>3, DistinctTogether
  <2>5. ToSet(one \o in) = {ini} \cup ToSet(in)
    BY <2>2, ToSetFacts
  <2> DEFINE both == one \o in
  <2>6. Distinct(both) /\ ToSet(both) = {ini} \cup ToSet(in)
    BY <2>4, <2>5
  <2> HIDE DEF both
  <2>7. InOrder(as, none, both, 0, n)
    BY <1>1, <1>2, <2>1, <2>6 DEF InOrder
  <2> QED
    BY <2>7 DEF both, one
<1> QED
  BY <1>3, <1>7, <1>8, <1>9 DEF none, ap, ai

LEMMA LoopFields ==
  ASSUME LInv
  PROVE  /\ loop.pc \in {"off", "boot", "start", "asks", "answers", "result", "check", "drain", "sleep"}
         /\ loop.prompt \in Seq(Messages) /\ NotAsked \in Seq(Messages) /\ loop.attempt \in {1, 2}
         /\ session.core \in Seq(Messages) /\ session.query \in Seq(Messages)
         /\ loop_past.messages \in 0..MaxMessages /\ loop_past.messages \in Nat /\ loop_past.mishaps \in 0..MaxMishaps
         /\ initial \in Nat /\ loop_past.messages <= MaxMessages
BY LoopAssumption DEF LInv, LoopTyped, Programs, Sessions, LoopPast, NotAsked

LEMMA Counts ==
  ASSUME LInv
  PROVE  /\ Counted => /\ loop_past' \in LoopPast /\ loop_past'.messages = loop_past.messages + 1
                       /\ loop_past.messages < MaxMessages /\ NewMessage \in Messages
         /\ LoopMishap => loop_past' \in LoopPast /\ loop_past'.messages = loop_past.messages
<1>1. loop_past \in LoopPast /\ MaxMessages \in Nat /\ MaxMishaps \in Nat
  BY LoopAssumption DEF LInv, LoopTyped
<1>2. loop_past.messages \in 0..MaxMessages /\ loop_past.mishaps \in 0..MaxMishaps
  BY <1>1 DEF LoopPast
<1>3. ASSUME Counted
      PROVE  /\ loop_past' \in LoopPast /\ loop_past'.messages = loop_past.messages + 1
             /\ loop_past.messages < MaxMessages /\ NewMessage \in Messages
  <2> DEFINE m == loop_past.messages + 1
  <2>1. m \in 0..MaxMessages /\ m \in Messages /\ loop_past.messages < MaxMessages /\ NewMessage = m
    BY <1>1, <1>2, <1>3 DEF Counted, NewMessage, Messages
  <2>2. loop_past' = [loop_past EXCEPT !.messages = m]
    BY <1>3 DEF Counted
  <2> HIDE DEF m
  <2>3. loop_past' \in LoopPast /\ loop_past'.messages = m
    BY <1>1, <2>1, <2>2 DEF LoopPast
  <2> QED
    BY <2>1, <2>3 DEF m
<1>4. ASSUME LoopMishap
      PROVE  loop_past' \in LoopPast /\ loop_past'.messages = loop_past.messages
  <2> DEFINE m == loop_past.mishaps + 1
  <2>1. m \in 0..MaxMishaps
    BY <1>1, <1>2, <1>4 DEF LoopMishap
  <2>2. loop_past' = [loop_past EXCEPT !.mishaps = m]
    BY <1>4 DEF LoopMishap
  <2> HIDE DEF m
  <2> QED
    BY <1>1, <2>1, <2>2 DEF LoopPast
<1> QED
  BY <1>3, <1>4

LEMMA OffTyped == Off \in Programs /\ Off.pc = "off" /\ Off.prompt = <<>>
BY DEF Off, Programs

LEMMA ContainerStartsLInv == ASSUME LInv, ContainerStarts PROVE LInv'
<1>1. /\ loop.pc = "off" /\ Counted /\ initial' = NewMessage /\ loop' = [Off EXCEPT !.pc = "boot"]
      /\ UNCHANGED <<core, inbox, sentinel, registered, session, wake, saved, asked>>
  BY DEF ContainerStarts
<1>2. loop' \in Programs /\ loop'.pc = "boot"
  BY <1>1, OffTyped DEF Programs
<1>3. LoopTyped'
  BY <1>1, <1>2, Counts, LoopFields DEF LInv, LoopTyped, Messages
<1>4. NotAsked = <<>> /\ NotAsked' = <<>> /\ SessionIsSaved'
  BY <1>1, <1>2 DEF NotAsked, SessionIsSaved, Waiting
<1>5. InOrder(asked, inbox, NotAsked, NewMessage, loop_past.messages + 1)
  BY <1>1, LoopFields, Counts, Arrivals DEF LInv, LoopTyped, NewMessage
<1> QED
  BY <1>1, <1>3, <1>4, <1>5, Counts DEF LInv

\* The messages stay where they are, or are lost from the directory or the prompt.
LEMMA Stays ==
  ASSUME LInv, LoopTyped', SessionIsSaved', asked' = asked, initial' = initial,
         loop_past'.messages = loop_past.messages, inbox' = inbox \/ inbox' = <<>>,
         NotAsked' = NotAsked \/ NotAsked' = <<>>
  PROVE  LInv'
<1> DEFINE n == loop_past.messages
           pr == NotAsked
<1>1. /\ asked \in Seq(Messages) /\ inbox \in Seq(Messages) /\ pr \in Seq(Messages) /\ initial \in Nat
      /\ n \in Nat /\ n <= MaxMessages /\ InOrder(asked, inbox, pr, initial, n)
  BY LoopFields DEF LInv, LoopTyped
<1> HIDE DEF n, pr
<1>2. InOrder(asked, <<>>, pr, initial, n) /\ InOrder(asked, inbox, <<>>, initial, n)
  BY <1>1, Moves
<1>3. InOrder(asked, <<>>, <<>>, initial, n)
  BY <1>2, NoMessage DEF InOrder
<1> QED
  BY <1>1, <1>2, <1>3 DEF LInv, n, pr

LEMMA HostLInv == ASSUME LInv, CreateSession \/ WriteCloseSentinel \/ Killed PROVE LInv'
<1>1. loop' = loop \/ loop' = Off
  BY DEF CreateSession, WriteCloseSentinel, Killed, Exits
<1>2. LoopTyped'
  BY <1>1, Counts, OffTyped, NoMessage
     DEF LInv, LoopTyped, CreateSession, WriteCloseSentinel, Killed, Exits, Waiting
<1>3. SessionIsSaved' /\ (NotAsked' = NotAsked \/ NotAsked' = <<>>)
  BY <1>1, OffTyped DEF LInv, SessionIsSaved, Waiting, NotAsked, CreateSession, WriteCloseSentinel, Killed
<1> QED
  BY <1>2, <1>3, Stays, Counts DEF CreateSession, WriteCloseSentinel, Killed

LEMMA WriteIpcMessageLInv == ASSUME LInv, WriteIpcMessage PROVE LInv'
<1>1. /\ Counted /\ inbox' = Append(inbox, NewMessage) /\ wake' = Waiting
      /\ UNCHANGED <<core, sentinel, initial, registered, loop, session, saved, asked>>
  BY DEF WriteIpcMessage
<1>2. inbox' \in Seq(Messages)
  BY <1>1, Counts DEF LInv, LoopTyped
<1>3. LoopTyped'
  BY <1>1, <1>2, Counts DEF LInv, LoopTyped, Waiting
<1>4. NotAsked' = NotAsked /\ SessionIsSaved'
  BY <1>1 DEF NotAsked, SessionIsSaved, Waiting, LInv
<1>5. InOrder(asked, Append(inbox, NewMessage), NotAsked, initial, loop_past.messages + 1)
  BY <1>1, LoopFields, Counts, Arrivals DEF LInv, LoopTyped, NewMessage
<1> QED
  BY <1>1, <1>3, <1>4, <1>5, Counts DEF LInv

LEMMA ReadsInputLInv == ASSUME LInv, ReadsInput PROVE LInv'
<1>1. /\ loop.pc = "boot" /\ initial # 0 /\ initial' = 0 /\ inbox' = <<>> /\ sentinel' = FALSE
      /\ loop' = [loop EXCEPT !.pc = "start", !.prompt = <<initial>> \o inbox]
      /\ session' = [core |-> saved, query |-> <<>>]
      /\ UNCHANGED <<core, registered, wake, saved, asked, loop_past>>
  BY DEF ReadsInput
<1> DEFINE prompt == <<initial>> \o inbox
<1>2. prompt \in Seq(Messages)
  <2>1. initial \in Messages
    BY <1>1, LoopFields, LoopAssumption DEF LInv, LoopTyped, Messages
  <2> QED
    BY <2>1 DEF LInv, LoopTyped
<1>3. NotAsked = <<>>
  BY <1>1 DEF NotAsked
<1>4. InOrder(asked, <<>>, prompt, 0, loop_past.messages)
  <2> DEFINE pr == NotAsked
             n == loop_past.messages
  <2>1. /\ asked \in Seq(Messages) /\ inbox \in Seq(Messages) /\ pr \in Seq(Messages) /\ initial \in Nat
        /\ n \in Nat /\ n <= MaxMessages /\ InOrder(asked, inbox, pr, initial, n) /\ pr = <<>>
    BY <1>3, LoopFields DEF LInv, LoopTyped
  <2> HIDE DEF pr, n
  <2>2. InOrder(asked, <<>>, <<initial>> \o inbox, 0, n)
    BY <1>1, <2>1, Moves
  <2> QED
    BY <2>2 DEF n
<1> HIDE DEF prompt
<1>5. loop' = [loop EXCEPT !.pc = "start", !.prompt = prompt]
  BY <1>1 DEF prompt
<1>6. loop' \in Programs /\ loop'.pc = "start" /\ loop'.prompt = prompt
  BY <1>2, <1>5 DEF LInv, LoopTyped, Programs
<1>7. session' \in Sessions
  <2> DEFINE none == <<>>
  <2>1. none \in Seq(Messages) /\ session' = [core |-> saved, query |-> none] /\ saved \in Seq(Messages)
    BY <1>1 DEF LInv, LoopTyped
  <2> HIDE DEF none
  <2> QED
    BY <2>1 DEF Sessions
<1>8. LoopTyped'
  <2>1. 0 \in 0..MaxMessages
    BY LoopAssumption
  <2>2. inbox' \in Seq(Messages)
    BY <1>1, NoMessage
  <2> QED
    BY <1>1, <1>6, <1>7, <2>1, <2>2 DEF LInv, LoopTyped
<1>9. NotAsked' = prompt /\ SessionIsSaved'
  BY <1>6 DEF NotAsked, SessionIsSaved, Waiting
<1> QED
  BY <1>1, <1>4, <1>8, <1>9 DEF LInv

LEMMA CoreStartsLInv == ASSUME LInv, CoreStarts PROVE LInv'
<1>1. /\ loop.pc = "start" /\ loop' = [loop EXCEPT !.pc = "asks"] /\ asked' = asked \o loop.prompt
      /\ UNCHANGED <<core, inbox, sentinel, initial, registered, session, wake, saved, loop_past>>
  BY DEF CoreStarts
<1>2. loop' \in Programs /\ loop'.pc = "asks" /\ NotAsked = loop.prompt /\ NotAsked' = <<>>
  BY <1>1 DEF LInv, LoopTyped, Programs, NotAsked
<1>3. asked' \in Seq(Messages)
  BY <1>1, LoopFields DEF LInv, LoopTyped
<1>4. LoopTyped'
  BY <1>1, <1>2, <1>3 DEF LInv, LoopTyped
<1>5. InOrder(asked \o NotAsked, inbox, <<>>, initial, loop_past.messages)
  BY LoopFields, Moves DEF LInv, LoopTyped
<1> QED
  BY <1>1, <1>2, <1>4, <1>5 DEF LInv, SessionIsSaved, Waiting

LEMMA SmallLInv ==
  ASSUME LInv, CoreFailsToStart \/ FallsBack \/ QueryFails \/ CloseSeen \/ ShouldClose \/ Wakes
  PROVE  LInv'
<1>1. \/ loop' = Off \/ loop' = [loop EXCEPT !.pc = "drain"] \/ loop' = [loop EXCEPT !.pc = "check"]
      \/ loop' = [loop EXCEPT !.attempt = 2]
  BY DEF CoreFailsToStart, FallsBack, QueryFails, CloseSeen, ShouldClose, Wakes, Exits
<1>2. loop' \in Programs /\ (loop'.pc = "off" \/ loop'.pc = "drain" \/ loop'.pc = "check" \/ loop'.pc = loop.pc)
      /\ loop'.prompt \in {loop.prompt, <<>>}
  <2>1. CASE loop' = Off
    BY <2>1, OffTyped
  <2>2. CASE loop' = [loop EXCEPT !.pc = "drain"]
    BY <2>2 DEF LInv, LoopTyped, Programs
  <2>3. CASE loop' = [loop EXCEPT !.pc = "check"]
    BY <2>3 DEF LInv, LoopTyped, Programs
  <2>4. CASE loop' = [loop EXCEPT !.attempt = 2]
    BY <2>4 DEF LInv, LoopTyped, Programs
  <2> QED
    BY <1>1, <2>1, <2>2, <2>3, <2>4
<1>3. LoopTyped'
  BY <1>2, Counts, LoopFields
     DEF LInv, LoopTyped, CoreFailsToStart, FallsBack, QueryFails, CloseSeen, ShouldClose, Wakes, Exits
<1>4. NotAsked' = NotAsked \/ NotAsked' = <<>>
  BY <1>2 DEF NotAsked
<1>5. SessionIsSaved'
  BY <1>1, <1>2, OffTyped
     DEF LInv, LoopTyped, Programs, SessionIsSaved, Waiting, CoreFailsToStart, FallsBack, QueryFails, CloseSeen, ShouldClose, Wakes, Exits
<1> QED
  BY <1>3, <1>4, <1>5, Stays, Counts DEF CoreFailsToStart, FallsBack, QueryFails, CloseSeen, ShouldClose, Wakes

LEMMA QueryLInv == ASSUME LInv, QueryStarts \/ Result \/ QueryEnds PROVE LInv'
<1>1. \/ loop' = [loop EXCEPT !.pc = "answers"] \/ loop' = [loop EXCEPT !.pc = "result"]
      \/ loop' = [loop EXCEPT !.pc = "check", !.attempt = 1]
  BY DEF QueryStarts, Result, QueryEnds
<1>2. loop' \in Programs /\ loop'.pc \in {"answers", "result", "check"} /\ loop.pc # "start"
  BY <1>1 DEF LInv, LoopTyped, Programs, QueryStarts, Result, QueryEnds
<1>3. session.core \o loop.prompt \in Seq(Messages) /\ SystemEvent \in Seq(Messages) /\ NewSessionId \in Seq(Messages)
  BY LoopFields, NoMessage DEF SystemEvent, NewSessionId
<1>4. session' \in Sessions /\ (session' = session \/ QueryStarts \/ session'.core = session.core \o loop.prompt)
  <2>1. CASE QueryStarts
    BY <1>3, <2>1 DEF QueryStarts, LInv, LoopTyped, Sessions
  <2>2. CASE Result
    BY <2>2 DEF Result, LInv, LoopTyped
  <2>3. CASE QueryEnds
    BY <1>3, <2>3, NoMessage DEF QueryEnds, Sessions
  <2> QED
    BY <2>1, <2>2, <2>3
<1>5. saved' \in Seq(Messages) /\ SessionIsSaved'
  <2>1. CASE QueryStarts \/ Result
    <3>1. loop'.pc # "check"
      BY <2>1 DEF QueryStarts, Result, LInv, LoopTyped, Programs
    <3> QED
      BY <1>2, <1>3, <2>1, <3>1 DEF QueryStarts, Result, LInv, LoopTyped, SessionIsSaved, Waiting
  <2>2. CASE QueryEnds
    <3>1. saved' = session'.core /\ session'.core = session.core \o loop.prompt
      BY <2>2 DEF QueryEnds
    <3> QED
      BY <1>3, <3>1 DEF SessionIsSaved
  <2> QED
    BY <2>1, <2>2
<1>6. LoopTyped' /\ loop_past' = loop_past
  BY <1>2, <1>4, <1>5 DEF LInv, LoopTyped, QueryStarts, Result, QueryEnds
<1>7. NotAsked' = <<>> /\ asked' = asked /\ initial' = initial /\ inbox' = inbox
  BY <1>2 DEF NotAsked, QueryStarts, Result, QueryEnds
<1> QED
  BY <1>5, <1>6, <1>7, Stays

LEMMA DrainIpcInputLInv == ASSUME LInv, DrainIpcInput PROVE LInv'
<1>1. /\ loop.pc = "drain" /\ inbox' = <<>>
      /\ loop' = (IF inbox = <<>> THEN [loop EXCEPT !.pc = "sleep"] ELSE [loop EXCEPT !.pc = "asks", !.prompt = inbox])
      /\ asked' = asked \o inbox /\ wake' = (wake /\ inbox = <<>>)
      /\ UNCHANGED <<core, sentinel, initial, registered, session, saved, loop_past>>
  BY DEF DrainIpcInput
<1>2. loop' \in Programs /\ loop'.pc \in {"sleep", "asks"}
  BY <1>1 DEF LInv, LoopTyped, Programs
<1>3. LoopTyped'
  BY <1>1, <1>2, NoMessage DEF LInv, LoopTyped
<1>4. NotAsked = <<>> /\ NotAsked' = <<>> /\ SessionIsSaved'
  BY <1>1, <1>2 DEF LInv, NotAsked, SessionIsSaved, Waiting
<1>5. InOrder(asked \o inbox, <<>>, <<>>, initial, loop_past.messages)
  <2> DEFINE pr == NotAsked
             n == loop_past.messages
  <2>1. /\ asked \in Seq(Messages) /\ inbox \in Seq(Messages) /\ pr \in Seq(Messages) /\ initial \in Nat
        /\ n \in Nat /\ n <= MaxMessages /\ InOrder(asked, inbox, pr, initial, n) /\ pr = <<>>
    BY <1>4, LoopFields DEF LInv, LoopTyped
  <2> HIDE DEF pr, n
  <2>2. InOrder(asked \o inbox, <<>>, <<>>, initial, n)
    BY <2>1, Moves
  <2> QED
    BY <2>2 DEF n
<1> QED
  BY <1>1, <1>3, <1>4, <1>5 DEF LInv

LEMMA LoopSteps == ASSUME LInv, [LoopNext]_loop_vars PROVE LInv'
<1>1. CASE UNCHANGED loop_vars
  BY <1>1 DEF loop_vars, LInv, LoopTyped, SessionIsSaved, Waiting, NotAsked
<1>2. CASE LoopNext
  BY <1>2, ContainerStartsLInv, HostLInv, WriteIpcMessageLInv, ReadsInputLInv, CoreStartsLInv, SmallLInv, QueryLInv,
     DrainIpcInputLInv DEF LoopNext, Program
<1> QED
  BY <1>1, <1>2

LEMMA LoopStarts == LoopInit => LInv
<1> SUFFICES ASSUME LoopInit PROVE LInv
  OBVIOUS
<1> DEFINE none == <<>>
<1>3. none \in Seq(Messages) /\ session = [core |-> none, query |-> none]
  BY DEF LoopInit
<1>4. 0 \in 0..MaxMessages /\ 0 \in 0..MaxMishaps
  BY LoopAssumption
<1>5. inbox \in Seq(Messages) /\ saved \in Seq(Messages) /\ asked \in Seq(Messages)
  BY <1>3 DEF LoopInit
<1> HIDE DEF none
<1>6. session \in Sessions /\ loop_past \in LoopPast
  BY <1>3, <1>4 DEF Sessions, LoopPast, LoopInit
<1>1. LoopTyped
  BY <1>4, <1>5, <1>6, OffTyped DEF LoopInit, LoopTyped
<1>2. NotAsked = <<>> /\ SessionIsSaved
  BY OffTyped DEF LoopInit, NotAsked, SessionIsSaved, Waiting
<1>7. InOrder(<<>>, <<>>, <<>>, 0, 0)
  BY NoMessage DEF InOrder
<1> QED
  BY <1>1, <1>2, <1>7 DEF LoopInit, LInv

\* Each message for the container is in one place, asked, in the prompt of a
\* start, in initial.json or in the directory, and none is there twice
\* (agent_runner/main.py).
THEOREM LoopInvariant == LoopSpec => []LInv
BY LoopStarts, LoopSteps, PTL DEF LoopSpec

\* No message is put to the agent twice, and a program that waits has told the
\* host its session, for any number of containers and messages
\* (agent_runner/main.py).
THEOREM LoopStaysSound == LoopSpec => []LoopSound
BY LoopInvSound, LoopInvariant, PTL

-----------------------------------------------------------------------------
\* McpServers: containers and scripts of the tool servers.

MInv == McpTypeOK /\ McpSound

LaunchRecords == [pc : Pcs, proc : 0..MaxProcesses]
DockerStates == {"absent", "starting", "failed", "healthy", "down", "stopped"}
Clears(pc) == pc \in {"wait", "stop", "rm"}

LEMMA GoesTyped ==
  ASSUME McpTypeOK, NEW w \in Workspaces, NEW pc \in Pcs, Goes(w, pc)
  PROVE  /\ launch' \in [Workspaces -> LaunchRecords] /\ launch'[w].pc = pc
         /\ \A v \in Workspaces \ {w} : launch'[v] = launch[v]
<1>1. launch \in [Workspaces -> LaunchRecords] /\ launch' = [launch EXCEPT ![w].pc = pc]
  BY DEF McpTypeOK, Goes, LaunchRecords
<1>2. launch[w] \in LaunchRecords
  BY <1>1
<1> DEFINE r == [launch[w] EXCEPT !.pc = pc]
<1>3. r \in LaunchRecords /\ r.pc = pc
  BY <1>2 DEF LaunchRecords
<1>4. launch' = [launch EXCEPT ![w] = r]
  BY <1>1
<1> HIDE DEF r
<1> QED
  BY <1>1, <1>3, <1>4

LEMMA LaunchTyped ==
  ASSUME McpTypeOK, NEW w \in Workspaces, NEW pc \in Pcs, NEW p \in 0..MaxProcesses,
         launch' = [launch EXCEPT ![w] = [pc |-> pc, proc |-> p]]
  PROVE  /\ launch' \in [Workspaces -> LaunchRecords] /\ launch'[w].pc = pc
         /\ \A v \in Workspaces \ {w} : launch'[v] = launch[v]
<1> DEFINE r == [pc |-> pc, proc |-> p]
<1>1. r \in LaunchRecords /\ r.pc = pc
  BY DEF LaunchRecords
<1>2. launch \in [Workspaces -> LaunchRecords] /\ launch' = [launch EXCEPT ![w] = r]
  BY DEF McpTypeOK, LaunchRecords
<1> HIDE DEF r
<1> QED
  BY <1>1, <1>2

LEMMA McpUnfolds ==
  McpTypeOK <=>
    /\ docker \in DockerStates
    /\ DOMAIN scripts \subseteq 1..MaxProcesses /\ \A n \in DOMAIN scripts : scripts[n] \in {"starting", "healthy"}
    /\ tracked \in 0..MaxProcesses /\ started \in 0..MaxProcesses
    /\ idle \subseteq {Docker, Script}
    /\ launch \in [Workspaces -> LaunchRecords]
    /\ checker \in {"sleep", "inspect", "stop", "rm"}
    /\ launches \in 0..MaxLaunches /\ exits \in 0..MaxExits /\ crashed \in BOOLEAN
BY DEF McpTypeOK, LaunchRecords, DockerStates

\* A step of the launch of w that leaves the scripts as they are.
LEMMA DockerStep ==
  ASSUME MInv, NEW w \in Workspaces, NEW pc \in Pcs, Goes(w, pc), docker' \in DockerStates,
         UNCHANGED <<scripts, tracked, started, checker, exits, crashed>>, idle' \subseteq idle, launches' \in 0..MaxLaunches,
         docker' \in {"starting", "failed"} => Clears(pc) \/ (docker' = docker /\ ~Clears(launch[w].pc))
  PROVE  MInv'
<1>1. /\ launch' \in [Workspaces -> LaunchRecords] /\ launch'[w].pc = pc
      /\ \A v \in Workspaces \ {w} : launch'[v] = launch[v]
  BY GoesTyped DEF MInv
<1>2. McpTypeOK'
  BY <1>1 DEF MInv, McpTypeOK, LaunchRecords, DockerStates
<1>3. ScriptsTracked'
  BY DEF MInv, McpSound, ScriptsTracked
<1>4. NoHalfStarted'
  <2> SUFFICES ASSUME docker' \in {"starting", "failed"}, ~crashed'
               PROVE  \E v \in Workspaces : Clears(launch'[v].pc)
    BY DEF NoHalfStarted, Clears
  <2>1. CASE Clears(pc)
    BY <1>1, <2>1
  <2>2. CASE docker' = docker /\ ~Clears(launch[w].pc)
    <3>1. \E v \in Workspaces : Clears(launch[v].pc)
      BY <2>2 DEF MInv, McpSound, NoHalfStarted, Clears
    <3> QED
      BY <1>1, <2>2, <3>1
  <2> QED
    BY <2>1, <2>2
<1> QED
  BY <1>2, <1>3, <1>4 DEF MInv, McpSound

LEMMA PcsAre ==
  /\ "none" \in Pcs /\ "inspect" \in Pcs /\ "prepare" \in Pcs /\ "remove" \in Pcs /\ "run" \in Pcs
  /\ "wait" \in Pcs /\ "stop" \in Pcs /\ "rm" \in Pcs /\ "script" \in Pcs /\ "script_wait" \in Pcs
  /\ "launched" \in Pcs /\ "blocked" \in Pcs
BY DEF Pcs

LEMMA DockerLaunchMInv ==
  ASSUME MInv, NEW w \in Workspaces,
         \/ EnsureWorkspaceRunning(w) \/ EnsureDockerRunning(w) \/ EnsureMcpImage(w) \/ RemoveStale(w)
         \/ RunDocker(w) \/ WaitHealthy(w) \/ StopFailed(w)
  PROVE  MInv'
<1> USE PcsAre
<1>0. docker \in DockerStates /\ launches \in 0..MaxLaunches
  BY DEF MInv, McpTypeOK, DockerStates
<1>1. CASE EnsureWorkspaceRunning(w)
  <2>1. launches' \in 0..MaxLaunches
    BY <1>1, McpBounds DEF MInv, McpTypeOK, EnsureWorkspaceRunning
  <2> QED
    BY <1>0, <1>1, <2>1, DockerStep DEF EnsureWorkspaceRunning, Clears
<1>2. CASE EnsureDockerRunning(w)
  <2>1. Goes(w, "script") \/ Goes(w, "prepare")
    BY <1>2 DEF EnsureDockerRunning, NextInstance
  <2> QED
    BY <1>0, <1>2, <2>1, DockerStep DEF EnsureDockerRunning, bounds, Clears
<1>3. CASE EnsureMcpImage(w)
  <2>1. Goes(w, "remove") \/ Goes(w, "blocked")
    BY <1>3 DEF EnsureMcpImage
  <2> QED
    BY <1>0, <1>3, <2>1, DockerStep DEF EnsureMcpImage, bounds, Clears
<1>4. CASE RemoveStale(w)
  <2>1. docker' = "absent" /\ docker' \in DockerStates
    BY <1>4 DEF RemoveStale, RemoveContainer, DockerStates
  <2> QED
    BY <1>0, <1>4, <2>1, DockerStep DEF RemoveStale, bounds
<1>5. CASE RunDocker(w)
  <2>1. CASE docker = "absent"
    BY <1>0, <1>5, <2>1, DockerStep DEF RunDocker, bounds, Clears, DockerStates
  <2>2. CASE docker # "absent"
    BY <1>0, <1>5, <2>2, DockerStep DEF RunDocker, bounds, Clears
  <2> QED
    BY <2>1, <2>2
<1>6. CASE WaitHealthy(w)
  <2>1. CASE docker = "healthy"
    BY <1>0, <1>6, <2>1, DockerStep DEF WaitHealthy, NextInstance, bounds, Clears
  <2>2. CASE docker # "healthy"
    BY <1>0, <1>6, <2>2, DockerStep DEF WaitHealthy, bounds, Clears
  <2> QED
    BY <2>1, <2>2
<1>7. CASE StopFailed(w)
  <2>1. docker' \in {"absent", "stopped"} /\ docker' \in DockerStates
    BY <1>7 DEF StopFailed, StopContainer, RemoveContainer, DockerStates
  <2>2. Goes(w, "rm") \/ Goes(w, "script")
    BY <1>7 DEF StopFailed, NextInstance
  <2> QED
    BY <1>0, <1>7, <2>1, <2>2, DockerStep DEF StopFailed, bounds, Clears
<1> QED
  BY <1>1, <1>2, <1>3, <1>4, <1>5, <1>6, <1>7

\* The launches and the docker container are where they were.
LEMMA DockerStays ==
  ASSUME MInv, docker' = docker, crashed' = crashed,
         \A w \in Workspaces : Clears(launch[w].pc) => launch'[w] = launch[w]
  PROVE  NoHalfStarted'
BY DEF MInv, McpSound, NoHalfStarted, Clears

LEMMA FewerScripts ==
  ASSUME MInv, NEW n
  PROVE  /\ DOMAIN Without(n) = DOMAIN scripts \ {n}
         /\ \A m \in DOMAIN Without(n) : Without(n)[m] \in {"starting", "healthy"}
         /\ DOMAIN Without(n) \subseteq 1..MaxProcesses
         /\ (~crashed => DOMAIN Without(tracked) = {})
BY DEF Without, MInv, McpTypeOK, McpSound, ScriptsTracked

LEMMA EnsureScriptRunningMInv == ASSUME MInv, NEW w \in Workspaces, EnsureScriptRunning(w) PROVE MInv'
<1>1. /\ launch[w].pc = "script" /\ idle' = idle \ {Script}
      /\ UNCHANGED <<docker, checker, launches, exits, crashed>>
  BY DEF EnsureScriptRunning, bounds
<1>2. CASE Alive(tracked) /\ Goes(w, "launched") /\ UNCHANGED <<scripts, tracked, started>>
  <2>1. /\ launch' \in [Workspaces -> LaunchRecords] /\ \A v \in Workspaces \ {w} : launch'[v] = launch[v]
    BY <1>2, GoesTyped, PcsAre DEF MInv
  <2>2. NoHalfStarted'
    BY <1>1, <2>1, DockerStays DEF Clears
  <2>3. McpTypeOK'
    BY <1>1, <1>2, <2>1 DEF MInv, McpTypeOK, LaunchRecords
  <2> QED
    BY <1>1, <1>2, <2>2, <2>3 DEF MInv, McpSound, ScriptsTracked
<1>3. CASE /\ ~Alive(tracked) /\ started < MaxProcesses
           /\ started' = started + 1 /\ tracked' = started'
           /\ scripts' = [n \in DOMAIN scripts \cup {started'} |-> IF Alive(n) THEN scripts[n] ELSE "starting"]
           /\ launch' = [launch EXCEPT ![w] = [pc |-> "script_wait", proc |-> started']]
  <2>1. started' \in 1..MaxProcesses /\ started' \in 0..MaxProcesses
    BY <1>3, McpBounds DEF MInv, McpTypeOK
  <2>2. launch' \in [Workspaces -> LaunchRecords] /\ \A v \in Workspaces \ {w} : launch'[v] = launch[v]
    <3> DEFINE p == started'
    <3>1. p \in 0..MaxProcesses /\ launch' = [launch EXCEPT ![w] = [pc |-> "script_wait", proc |-> p]] /\ "script_wait" \in Pcs
      BY <1>3, <2>1, PcsAre
    <3> HIDE DEF p
    <3> QED
      BY <3>1, LaunchTyped DEF MInv
  <2>3. NoHalfStarted'
    BY <1>1, <2>2, DockerStays DEF Clears
  <2>4. /\ DOMAIN scripts' = DOMAIN scripts \cup {started'}
        /\ \A n \in DOMAIN scripts' : scripts'[n] \in {"starting", "healthy"}
    BY <1>3 DEF Alive, MInv, McpTypeOK
  <2>5. McpTypeOK'
    BY <1>1, <1>3, <2>1, <2>2, <2>4 DEF MInv, McpTypeOK, LaunchRecords
  <2>6. ScriptsTracked'
    BY <1>1, <1>3, <2>4 DEF MInv, McpSound, ScriptsTracked, Alive
  <2> QED
    BY <2>3, <2>5, <2>6 DEF MInv, McpSound
<1> QED
  BY <1>2, <1>3 DEF EnsureScriptRunning

LEMMA ScriptWaitMInv == ASSUME MInv, NEW w \in Workspaces, ScriptWait(w) PROVE MInv'
<1>1. /\ launch[w].pc = "script_wait" /\ UNCHANGED <<docker, started, idle, checker, launches, exits, crashed>>
      /\ launch' = [launch EXCEPT ![w] = [pc |-> "launched", proc |-> 0]]
      /\ UNCHANGED <<scripts, tracked>> \/ (scripts' = Without(tracked) /\ tracked' = 0)
  BY DEF ScriptWait, bounds, TerminateProcess
<1>2. launch' \in [Workspaces -> LaunchRecords] /\ \A v \in Workspaces \ {w} : launch'[v] = launch[v]
  <2>1. 0 \in 0..MaxProcesses /\ "launched" \in Pcs
    BY McpBounds, PcsAre
  <2> QED
    BY <1>1, <2>1, LaunchTyped DEF MInv
<1>3. NoHalfStarted'
  BY <1>1, <1>2, DockerStays DEF Clears
<1>4. McpTypeOK' /\ ScriptsTracked'
  <2>1. CASE UNCHANGED <<scripts, tracked>>
    BY <1>1, <1>2, <2>1 DEF MInv, McpTypeOK, LaunchRecords, McpSound, ScriptsTracked
  <2>2. CASE scripts' = Without(tracked) /\ tracked' = 0
    <3>1. 0 \in 0..MaxProcesses
      BY McpBounds
    <3>2. McpTypeOK'
      BY <1>1, <1>2, <2>2, <3>1, FewerScripts DEF MInv, McpTypeOK, LaunchRecords
    <3> QED
      BY <1>1, <2>2, <3>2, FewerScripts DEF ScriptsTracked
  <2> QED
    BY <1>1, <2>1, <2>2
<1> QED
  BY <1>3, <1>4 DEF MInv, McpSound

LEMMA ServersMInv ==
  ASSUME MInv, ContainerChanges \/ (\E n \in DOMAIN scripts : ScriptChanges(n)) \/ (\E i \in {Docker, Script} : GoesIdle(i))
  PROVE  MInv'
<1>1. CASE ContainerChanges
  BY <1>1 DEF ContainerChanges, bounds, MInv, McpTypeOK, McpSound, ScriptsTracked, NoHalfStarted
<1>2. ASSUME NEW n \in DOMAIN scripts, ScriptChanges(n) PROVE MInv'
  <2>1. scripts' = [scripts EXCEPT ![n] = "healthy"] \/ scripts' = Without(n)
    BY <1>2 DEF ScriptChanges
  <2>2. /\ DOMAIN scripts' \subseteq DOMAIN scripts
        /\ \A m \in DOMAIN scripts' : scripts'[m] \in {"starting", "healthy"}
    <3>1. CASE scripts' = [scripts EXCEPT ![n] = "healthy"]
      BY <3>1 DEF MInv, McpTypeOK
    <3>2. CASE scripts' = Without(n)
      BY <3>2, FewerScripts
    <3> QED
      BY <2>1, <3>1, <3>2
  <2> QED
    BY <1>2, <2>2 DEF ScriptChanges, bounds, MInv, McpTypeOK, McpSound, ScriptsTracked, NoHalfStarted
<1>3. ASSUME NEW i \in {Docker, Script}, GoesIdle(i) PROVE MInv'
  BY <1>3 DEF GoesIdle, bounds, MInv, McpTypeOK, McpSound, ScriptsTracked, NoHalfStarted
<1> QED
  BY <1>1, <1>2, <1>3

LEMMA CheckerMInv == ASSUME MInv, StopIdle \/ StopIdleScript PROVE MInv'
<1>1. CASE StopIdle
  <2>1. /\ UNCHANGED <<scripts, tracked, started, idle, launch, launches, exits, crashed>>
        /\ checker' \in {"sleep", "inspect", "stop", "rm"}
        /\ docker' = docker \/ docker' \in {"absent", "stopped"}
    BY <1>1 DEF StopIdle, CheckerTurns, bounds, StopContainer, RemoveContainer
  <2> QED
    BY <2>1 DEF MInv, McpTypeOK, McpSound, ScriptsTracked, NoHalfStarted
<1>2. CASE StopIdleScript
  <2>1. /\ UNCHANGED <<docker, started, idle, launch, checker, launches, exits, crashed>>
        /\ scripts' = Without(tracked) /\ tracked' = 0 /\ 0 \in 0..MaxProcesses
    BY <1>2, McpBounds DEF StopIdleScript, TerminateProcess, bounds
  <2>2. McpTypeOK'
    BY <2>1, FewerScripts DEF MInv, McpTypeOK
  <2>3. ScriptsTracked'
    BY <2>1, FewerScripts DEF ScriptsTracked
  <2>4. NoHalfStarted'
    BY <2>1, DockerStays
  <2> QED
    BY <2>2, <2>3, <2>4 DEF MInv, McpSound
<1> QED
  BY <1>1, <1>2

LEMMA EndsMInv == ASSUME MInv, StopAll \/ HostCrashes PROVE MInv'
<1>1. /\ exits < MaxExits /\ exits' = exits + 1 /\ launch' = [w \in Workspaces |-> NoCall] /\ checker' = "sleep"
      /\ tracked' = 0 /\ idle' = {} /\ UNCHANGED <<started, launches>>
  BY DEF StopAll, HostCrashes, HostEnds
<1>2. NoCall \in LaunchRecords /\ exits' \in 0..MaxExits /\ 0 \in 0..MaxProcesses
  BY <1>1, McpBounds, PcsAre DEF NoCall, LaunchRecords, MInv, McpTypeOK
<1>3. launch' \in [Workspaces -> LaunchRecords]
  BY <1>1, <1>2
<1>4. CASE StopAll
  <2>1. docker' = "absent" /\ scripts' = Without(tracked) /\ crashed' = crashed
    BY <1>4 DEF StopAll
  <2>2. McpTypeOK'
    BY <1>1, <1>2, <1>3, <2>1, FewerScripts DEF MInv, McpTypeOK, LaunchRecords
  <2>3. ScriptsTracked' /\ NoHalfStarted'
    BY <1>1, <2>1, FewerScripts DEF ScriptsTracked, NoHalfStarted
  <2> QED
    BY <2>2, <2>3 DEF MInv, McpSound
<1>5. CASE HostCrashes
  <2>1. crashed' = TRUE /\ docker' = docker /\ scripts' = scripts
    BY <1>5 DEF HostCrashes
  <2> QED
    BY <1>1, <1>2, <1>3, <2>1 DEF MInv, McpTypeOK, LaunchRecords, McpSound, ScriptsTracked, NoHalfStarted
<1> QED
  BY <1>4, <1>5

LEMMA McpSteps == ASSUME MInv, [McpNext]_mcp_vars PROVE MInv'
<1>1. CASE UNCHANGED mcp_vars
  BY <1>1 DEF mcp_vars, MInv, McpTypeOK, McpSound, ScriptsTracked, NoHalfStarted
<1>2. CASE McpNext
  BY <1>2, DockerLaunchMInv, EnsureScriptRunningMInv, ScriptWaitMInv, ServersMInv, CheckerMInv, EndsMInv DEF McpNext, LaunchStep
<1> QED
  BY <1>1, <1>2

LEMMA McpStarts == McpInit => MInv
<1> SUFFICES ASSUME McpInit PROVE MInv
  OBVIOUS
<1>1. DOMAIN scripts = {}
  BY DEF McpInit
<1>2. NoCall \in LaunchRecords /\ 0 \in 0..MaxProcesses /\ 0 \in 0..MaxLaunches /\ 0 \in 0..MaxExits
  BY McpBounds, PcsAre DEF NoCall, LaunchRecords
<1>3. McpTypeOK
  BY <1>1, <1>2 DEF McpInit, McpTypeOK, LaunchRecords
<1> QED
  BY <1>1, <1>3 DEF McpInit, MInv, McpSound, ScriptsTracked, NoHalfStarted

\* The launches, the docker container and the script processes have their types,
\* and a process or a container that is not wanted has somebody to end it
\* (mcp/lifecycle.py).
THEOREM McpInvariant == McpSpec => []MInv
BY McpStarts, McpSteps, PTL DEF McpSpec

\* No script process is alive that the instance has lost sight of, and a container
\* that was never healthy has a launch that clears it away, for any set of
\* workspaces (mcp/lifecycle.py).
THEOREM McpStaysSound == McpSpec => []McpSound
<1>1. MInv => McpSound
  BY DEF MInv
<1> QED
  BY <1>1, McpInvariant, PTL

-----------------------------------------------------------------------------
\* BrowserTools: the display, the console and the posts.

BrowserPcs == {"idle", "called", "open", "second", "login", "project", "api", "keys", "oauth", "consent"}
BrowserCallRecords == [tool : BrowserCalls \cup {"none"}, pc : BrowserPcs, original : BOOLEAN]
GoogleStates == [project: BOOLEAN, api: BOOLEAN, keys: BOOLEAN, tokens: {"none", "valid", "revoked"}, port: BOOLEAN]
BrowserPast == [calls : 0..MaxCalls, mishaps : 0..MaxBrowserMishaps]

ScreenTyped ==
  /\ display \in BOOLEAN
  /\ xvfb \in {"none", "plugin", "setup", "stray"} /\ vnc \in {"none", "setup", "stray"}

BrowserTyped ==
  /\ ScreenTyped
  /\ call \in BrowserCallRecords /\ logins \subseteq {"x", "slack", "google"} /\ acts \in [XActs -> Nat]
  /\ dotenv \subseteq {"xoxc", "xoxd"} /\ google \in GoogleStates /\ browser_past \in BrowserPast

\* Only an open browser has processes of a setup, and only with a screen.
ScreenOf(c, d, x, v) ==
  /\ "setup" \in {x, v} => c.pc \notin {"idle", "called", "second"}
  /\ c.tool # "refresh_slack_tokens" /\ c.pc \notin {"idle", "called"} => d /\ x # "none"
  /\ c.pc = "second" => c.tool = "refresh_slack_tokens"

\* Keys are there before the tokens they are needed for.
KeysFirst(c, g) ==
  /\ g.tokens # "none" => g.keys
  /\ c.pc \in {"oauth", "consent"} => g.keys

LikedOnce(a) == \A tool \in XToggles : a[tool] <= 1

BInv ==
  /\ BrowserTyped
  /\ ScreenOf(call, display, xvfb, vnc) /\ KeysFirst(call, google) /\ LikedOnce(acts)

LEMMA BrowserTypes == BInv => BrowserTypeOK
BY DEF BInv, BrowserTyped, ScreenTyped, BrowserTypeOK, BrowserCallRecords, BrowserPcs, GoogleStates, BrowserPast

LEMMA BrowserInvSound == BInv => BrowserSound
<1> SUFFICES ASSUME BInv PROVE BrowserSound
  OBVIOUS
<1>1. call = Idle => call.pc = "idle"
  BY DEF Idle
<1> QED
  BY <1>1 DEF BInv, BrowserSound, ScreenOf, KeysFirst, LikedOnce, HasDisplay

LEMMA IdleTyped == Idle \in BrowserCallRecords /\ Idle.pc = "idle"
BY DEF Idle, BrowserCallRecords, BrowserPcs

LEMMA ToTyped ==
  ASSUME BInv, NEW step \in BrowserPcs, To(step)
  PROVE  call' \in BrowserCallRecords /\ call'.pc = step /\ call'.tool = call.tool
BY DEF BInv, BrowserTyped, To, BrowserCallRecords

LEMMA PcsBrowser ==
  /\ "idle" \in BrowserPcs /\ "called" \in BrowserPcs /\ "open" \in BrowserPcs /\ "second" \in BrowserPcs
  /\ "login" \in BrowserPcs /\ "project" \in BrowserPcs /\ "api" \in BrowserPcs /\ "keys" \in BrowserPcs
  /\ "oauth" \in BrowserPcs /\ "consent" \in BrowserPcs
BY DEF BrowserPcs

\* The end of a call leaves nothing of its own.
LEMMA ReturnsScreen ==
  ASSUME BInv, Returns
  PROVE  /\ ScreenTyped' /\ call' \in BrowserCallRecords /\ call'.pc = "idle"
         /\ ScreenOf(call', display', xvfb', vnc')
<1>1. call' \in BrowserCallRecords /\ call'.pc = "idle"
  BY IdleTyped DEF Returns
<1>2. "setup" \notin {xvfb', vnc'} /\ ScreenTyped'
  BY DEF Returns, CleansUp, BInv, BrowserTyped, ScreenTyped
<1> QED
  BY <1>1, <1>2 DEF ScreenOf

\* A step of an open browser, or to the idle call from one that opened none.
LEMMA ToScreen ==
  ASSUME BInv, NEW step \in BrowserPcs \ {"idle", "called", "second"}, To(step), UNCHANGED <<display, xvfb, vnc>>,
         call.pc \notin {"idle", "called"}
  PROVE  /\ ScreenTyped' /\ call' \in BrowserCallRecords /\ call'.pc = step
         /\ ScreenOf(call', display', xvfb', vnc')
<1>1. call' \in BrowserCallRecords /\ call'.pc = step /\ call'.tool = call.tool
  BY ToTyped
<1> QED
  BY <1>1 DEF BInv, BrowserTyped, ScreenTyped, ScreenOf

LEMMA IdleScreen ==
  ASSUME BInv, call' = Idle, UNCHANGED <<display, xvfb, vnc>>, call.pc \in {"called", "second"}
  PROVE  /\ ScreenTyped' /\ call' \in BrowserCallRecords /\ call'.pc = "idle"
         /\ ScreenOf(call', display', xvfb', vnc')
<1>1. call' \in BrowserCallRecords /\ call'.pc = "idle"
  BY IdleTyped
<1> QED
  BY <1>1 DEF BInv, BrowserTyped, ScreenTyped, ScreenOf

\* The rest of the state, when the screen is in order.
LEMMA WithScreen ==
  ASSUME BInv, ScreenTyped', call' \in BrowserCallRecords, ScreenOf(call', display', xvfb', vnc'),
         logins' \subseteq {"x", "slack", "google"}, dotenv' \subseteq {"xoxc", "xoxd"},
         acts' \in [XActs -> Nat], LikedOnce(acts'), google' \in GoogleStates, KeysFirst(call', google'),
         browser_past' \in BrowserPast
  PROVE  BInv'
BY DEF BInv, BrowserTyped

LEMMA BrowserFacts ==
  ASSUME BInv
  PROVE  /\ logins \subseteq {"x", "slack", "google"} /\ dotenv \subseteq {"xoxc", "xoxd"}
         /\ acts \in [XActs -> Nat] /\ LikedOnce(acts) /\ google \in GoogleStates /\ browser_past \in BrowserPast
         /\ (call'.pc \notin {"oauth", "consent"} => KeysFirst(call', google))
         /\ (BrowserMishap => browser_past' \in BrowserPast)
<1>1. ASSUME BrowserMishap PROVE browser_past' \in BrowserPast
  <2> DEFINE m == browser_past.mishaps + 1
  <2>1. m \in 0..MaxBrowserMishaps
    BY <1>1, BrowserAssumption DEF BInv, BrowserTyped, BrowserPast, BrowserMishap
  <2>2. browser_past' = [browser_past EXCEPT !.mishaps = m]
    BY <1>1 DEF BrowserMishap
  <2> HIDE DEF m
  <2> QED
    BY <2>1, <2>2 DEF BInv, BrowserTyped, BrowserPast
<1> QED
  BY <1>1 DEF BInv, BrowserTyped, KeysFirst

LEMMA CallBInv == ASSUME BInv, NEW tool \in BrowserCalls, Call(tool) PROVE BInv'
<1>1. /\ call = Idle /\ call' = [tool |-> tool, pc |-> "called", original |-> display]
      /\ UNCHANGED <<display, xvfb, vnc, logins, acts, dotenv, google>>
  BY DEF Call
<1>2. call' \in BrowserCallRecords /\ call'.pc = "called"
  BY <1>1, PcsBrowser DEF BrowserCallRecords, BInv, BrowserTyped, ScreenTyped
<1>3. browser_past' \in BrowserPast
  <2> DEFINE m == browser_past.calls + 1
  <2>1. m \in 0..MaxCalls
    BY BrowserAssumption DEF BInv, BrowserTyped, BrowserPast, Call
  <2>2. browser_past' = [browser_past EXCEPT !.calls = m]
    BY DEF Call
  <2> HIDE DEF m
  <2> QED
    BY <2>1, <2>2 DEF BInv, BrowserTyped, BrowserPast
<1>4. ScreenTyped' /\ ScreenOf(call', display', xvfb', vnc')
  BY <1>1, <1>2, IdleTyped DEF BInv, BrowserTyped, ScreenTyped, ScreenOf
<1> QED
  BY <1>1, <1>2, <1>3, <1>4, BrowserFacts, WithScreen

\* Steps that touch neither google nor acts, and keep within the services.
LEMMA PlainStep ==
  ASSUME BInv, ScreenTyped', call' \in BrowserCallRecords, ScreenOf(call', display', xvfb', vnc'),
         call'.pc \notin {"oauth", "consent"}, acts' = acts, google' = google,
         logins' \subseteq {"x", "slack", "google"}, dotenv' \subseteq {"xoxc", "xoxd"},
         browser_past' = browser_past \/ BrowserMishap
  PROVE  BInv'
BY BrowserFacts, WithScreen

LEMMA OpensBInv == ASSUME BInv, XActOpens \/ SetupXOpens \/ SetupOpens PROVE BInv'
<1>1. /\ call.pc = "called" /\ UNCHANGED <<logins, acts, dotenv, google, browser_past>>
      /\ (call' = Idle \/ To("open"))
  BY DEF XActOpens, SetupXOpens, SetupOpens, EnsureXvfb, At
<1>2. "setup" \notin {xvfb, vnc}
  BY <1>1 DEF BInv, ScreenOf
<1>3. ScreenTyped'
  BY <1>2 DEF XActOpens, SetupXOpens, SetupOpens, EnsureXvfb, StartVirtualDisplay, BInv, BrowserTyped, ScreenTyped
<1>4. CASE call' = Idle
  <2>1. call' \in BrowserCallRecords /\ call'.pc = "idle"
    BY <1>4, IdleTyped
  <2>2. "setup" \notin {xvfb', vnc'}
    <3>1. call # [call EXCEPT !.pc = "open"] /\ Idle # [call EXCEPT !.pc = "open"]
      <4>1. [call EXCEPT !.pc = "open"].pc = "open"
        BY DEF BInv, BrowserTyped, BrowserCallRecords
      <4> QED
        BY <1>1, <4>1, IdleTyped
    <3>2. ~To("open")
      BY <1>4, <3>1 DEF To
    <3>3. EnsureXvfb /\ ~HasDisplay /\ xvfb = "stray" /\ xvfb' = xvfb /\ ~SetupOpens
      BY <3>2 DEF XActOpens, SetupXOpens, SetupOpens, EnsureXvfb
    <3> QED
      BY <1>2, <3>3 DEF XActOpens, SetupXOpens, SetupOpens
  <2>3. ScreenOf(call', display', xvfb', vnc')
    BY <2>1, <2>2 DEF ScreenOf
  <2> QED
    BY <1>1, <1>3, <2>1, <2>3, PlainStep, BrowserFacts
<1>5. CASE To("open")
  <2>1. call' \in BrowserCallRecords /\ call'.pc = "open" /\ call'.tool = call.tool
    BY <1>5, ToTyped, PcsBrowser
  <2>2. display' /\ xvfb' # "none"
    <3>1. call' # Idle
      BY <2>1, IdleTyped
    <3> QED
      BY <3>1 DEF XActOpens, SetupXOpens, SetupOpens, EnsureXvfb, StartVirtualDisplay, HasDisplay
  <2>3. ScreenOf(call', display', xvfb', vnc')
    BY <2>1, <2>2 DEF ScreenOf
  <2> QED
    BY <1>1, <1>3, <2>1, <2>3, PlainStep, BrowserFacts
<1> QED
  BY <1>1, <1>4, <1>5

LEMMA FailsBInv == ASSUME BInv, CallFails \/ LoginTimesOut PROVE BInv'
<1>1. Returns /\ UNCHANGED <<logins, acts, dotenv, google>> /\ (BrowserMishap \/ browser_past' = browser_past)
  BY DEF CallFails, LoginTimesOut
<1> QED
  BY <1>1, ReturnsScreen, PlainStep, BrowserFacts

LEMMA ActsBInv == ASSUME BInv, XPost \/ XReply \/ XQuote \/ XLike \/ XRetweet PROVE BInv'
<1>1. Returns /\ UNCHANGED <<logins, dotenv, google, browser_past>>
  BY DEF XPost, XReply, XQuote, XLike, XRetweet, XWrite, XToggle
<1>2. acts' \in [XActs -> Nat] /\ LikedOnce(acts')
  <2>1. acts \in [XActs -> Nat] /\ LikedOnce(acts)
    BY BrowserFacts
  <2>2. ASSUME NEW tool \in XWrites, XWrite(tool) PROVE acts' \in [XActs -> Nat] /\ LikedOnce(acts')
    <3>1. tool \in XActs /\ tool \notin XToggles /\ XToggles \subseteq XActs
      BY DEF XWrites, XToggles, XActs
    <3> DEFINE more == acts[tool] + 1
    <3>2. more \in Nat /\ (acts' = acts \/ acts' = [acts EXCEPT ![tool] = more])
      BY <2>1, <2>2, <3>1 DEF XWrite
    <3> HIDE DEF more
    <3>3. acts' \in [XActs -> Nat] /\ \A t \in XToggles : acts'[t] = acts[t]
      BY <2>1, <3>1, <3>2
    <3> QED
      BY <2>1, <3>3 DEF LikedOnce
  <2>3. ASSUME NEW tool \in XToggles, XToggle(tool) PROVE acts' \in [XActs -> Nat] /\ LikedOnce(acts')
    <3>1. tool \in XActs /\ XToggles \subseteq XActs
      BY DEF XToggles, XActs
    <3>2. acts' = acts \/ acts' = [acts EXCEPT ![tool] = 1]
      BY <2>3 DEF XToggle
    <3> QED
      BY <2>1, <3>1, <3>2 DEF LikedOnce
  <2> QED
    BY <2>2, <2>3 DEF XPost, XReply, XQuote, XLike, XRetweet, XWrites, XToggles
<1> QED
  BY <1>1, <1>2, ReturnsScreen, WithScreen, BrowserFacts

LEMMA PagesBInv == ASSUME BInv, FirstPage \/ PersonLogsIn PROVE BInv'
<1>1. /\ call.pc \notin {"idle", "called"} /\ UNCHANGED <<acts, dotenv, google, browser_past>>
      /\ \/ Returns
         \/ UNCHANGED <<display, xvfb, vnc>> /\ (To("login") \/ To("project"))
  BY DEF FirstPage, PersonLogsIn, At, SetupXSession, SetupSlackSession
<1>2. logins' \subseteq {"x", "slack", "google"}
  BY BrowserFacts DEF FirstPage, PersonLogsIn, Service
<1>3. CASE Returns
  BY <1>1, <1>2, <1>3, ReturnsScreen, PlainStep, BrowserFacts
<1>4. CASE UNCHANGED <<display, xvfb, vnc>> /\ To("login")
  BY <1>1, <1>2, <1>4, ToScreen, PlainStep, BrowserFacts, PcsBrowser
<1>5. CASE UNCHANGED <<display, xvfb, vnc>> /\ To("project")
  BY <1>1, <1>2, <1>5, ToScreen, PlainStep, BrowserFacts, PcsBrowser
<1> QED
  BY <1>1, <1>3, <1>4, <1>5

LEMMA TokensBInv == ASSUME BInv, ExtractTokens \/ WritesSecondToken PROVE BInv'
<1>1. UNCHANGED <<display, xvfb, vnc, logins, acts, google, browser_past>> /\ dotenv' \subseteq {"xoxc", "xoxd"}
  BY BrowserFacts DEF ExtractTokens, WritesSecondToken
<1>2. CASE call' = Idle
  <2>1. call.pc \in {"called", "second"}
    BY DEF ExtractTokens, WritesSecondToken, At
  <2> QED
    BY <1>1, <1>2, <2>1, IdleScreen, PlainStep, BrowserFacts
<1>3. CASE At("called") /\ call.tool = "refresh_slack_tokens" /\ To("second")
  <2>1. call' \in BrowserCallRecords /\ call'.pc = "second" /\ call'.tool = "refresh_slack_tokens"
    BY <1>3, ToTyped, PcsBrowser
  <2>2. "setup" \notin {xvfb', vnc'} /\ ScreenTyped'
    BY <1>1, <1>3 DEF At, BInv, BrowserTyped, ScreenTyped, ScreenOf
  <2>3. ScreenOf(call', display', xvfb', vnc')
    BY <2>1, <2>2 DEF ScreenOf
  <2> QED
    BY <1>1, <2>1, <2>2, <2>3, PlainStep, BrowserFacts
<1> QED
  BY <1>2, <1>3 DEF ExtractTokens, WritesSecondToken

LEMMA GoogleFields ==
  ASSUME BInv, NEW b \in BOOLEAN
  PROVE  /\ [google EXCEPT !.project = b] \in GoogleStates /\ [google EXCEPT !.api = b] \in GoogleStates
         /\ [google EXCEPT !.port = b] \in GoogleStates
         /\ [google EXCEPT !.project = b].keys = google.keys /\ [google EXCEPT !.project = b].tokens = google.tokens
         /\ [google EXCEPT !.api = b].keys = google.keys /\ [google EXCEPT !.api = b].tokens = google.tokens
         /\ [google EXCEPT !.port = b].keys = google.keys /\ [google EXCEPT !.port = b].tokens = google.tokens
         /\ [google EXCEPT !.keys = TRUE] \in GoogleStates /\ [google EXCEPT !.keys = TRUE].keys
         /\ google.project \in BOOLEAN /\ google.api \in BOOLEAN /\ google.port \in BOOLEAN /\ google.keys \in BOOLEAN
BY DEF BInv, BrowserTyped, GoogleStates

\* A step that changes google and not what the browser shows on.
LEMMA GoogleStep ==
  ASSUME BInv, ScreenTyped', call' \in BrowserCallRecords, ScreenOf(call', display', xvfb', vnc'),
         google' \in GoogleStates, KeysFirst(call', google'), UNCHANGED <<logins, acts, dotenv>>,
         browser_past' = browser_past \/ BrowserMishap
  PROVE  BInv'
BY BrowserFacts, WithScreen

LEMMA ConsoleBInv == ASSUME BInv, EnableApiViaRest \/ EnsureProject \/ EnsureApi PROVE BInv'
<1>1. UNCHANGED <<display, xvfb, vnc, logins, acts, dotenv, browser_past>>
  BY DEF EnableApiViaRest, EnsureProject, EnsureApi
<1>2. google' \in GoogleStates /\ google'.keys = google.keys /\ google'.tokens = google.tokens
  <2>1. google' = google \/ \E b \in BOOLEAN : google' = [google EXCEPT !.project = b] \/ google' = [google EXCEPT !.api = b]
    <3>1. CASE EnableApiViaRest
      BY <3>1, GoogleFields DEF EnableApiViaRest
    <3>2. CASE EnsureProject
      BY <3>2, GoogleFields DEF EnsureProject, TryStep
    <3>3. CASE EnsureApi
      BY <3>3, GoogleFields DEF EnsureApi, TryStep
    <3> QED
      BY <3>1, <3>2, <3>3
  <2>2. CASE google' = google
    BY <2>2, BrowserFacts
  <2>3. ASSUME NEW b \in BOOLEAN, google' = [google EXCEPT !.project = b] \/ google' = [google EXCEPT !.api = b]
        PROVE  google' \in GoogleStates /\ google'.keys = google.keys /\ google'.tokens = google.tokens
    BY <2>3, GoogleFields
  <2> QED
    BY <2>1, <2>2, <2>3
<1>3. /\ ScreenTyped' /\ call' \in BrowserCallRecords /\ call'.pc \in {"idle", "api", "keys"}
      /\ ScreenOf(call', display', xvfb', vnc')
  <2>1. CASE EnableApiViaRest
    BY <1>1, <2>1, IdleScreen DEF EnableApiViaRest, At
  <2>2. CASE EnsureProject
    BY <1>1, <2>2, ToScreen, PcsBrowser DEF EnsureProject, At
  <2>3. CASE EnsureApi
    BY <1>1, <2>3, ToScreen, PcsBrowser DEF EnsureApi, At
  <2> QED
    BY <2>1, <2>2, <2>3
<1>4. KeysFirst(call', google')
  BY <1>2, <1>3 DEF KeysFirst, BInv
<1> QED
  BY <1>1, <1>2, <1>3, <1>4, GoogleStep

LEMMA KeysBInv == ASSUME BInv, EnsureKeys PROVE BInv'
<1>1. At("keys") /\ UNCHANGED <<logins, acts, dotenv, browser_past>>
  BY DEF EnsureKeys
<1>2. CASE Returns /\ google' = google
  BY <1>1, <1>2, ReturnsScreen, PlainStep, BrowserFacts
<1>3. CASE To("oauth") /\ UNCHANGED <<display, xvfb, vnc>> /\ google' \in GoogleStates /\ google'.keys
  <2>1. /\ ScreenTyped' /\ call' \in BrowserCallRecords /\ call'.pc = "oauth"
        /\ ScreenOf(call', display', xvfb', vnc')
    BY <1>1, <1>3, ToScreen, PcsBrowser DEF At
  <2>2. KeysFirst(call', google')
    BY <1>3 DEF KeysFirst
  <2> QED
    BY <1>1, <1>3, <2>1, <2>2, GoogleStep
<1>4. \/ Returns /\ google' = google
      \/ To("oauth") /\ UNCHANGED <<display, xvfb, vnc>> /\ google' \in GoogleStates /\ google'.keys
  BY GoogleFields, BrowserFacts DEF EnsureKeys
<1> QED
  BY <1>2, <1>3, <1>4

LEMMA ConsentBInv ==
  ASSUME BInv, StartCallbackServer \/ SaveCredentials \/ ConsentTimesOut \/ ConsentPageFails
  PROVE  BInv'
<1>1. /\ call.pc \in {"oauth", "consent"} /\ UNCHANGED <<logins, acts, dotenv>>
      /\ browser_past' = browser_past \/ BrowserMishap
  BY DEF StartCallbackServer, SaveCredentials, ConsentTimesOut, ConsentPageFails, At
<1>2. google.keys
  BY <1>1 DEF BInv, KeysFirst
<1>3. google' \in GoogleStates /\ google'.keys
  <2>1. CASE google' = google
    BY <1>2, <2>1, BrowserFacts
  <2>2. CASE google' = [google EXCEPT !.port = TRUE] \/ google' = [google EXCEPT !.port = FALSE]
    BY <1>2, <2>2, GoogleFields
  <2>3. CASE google' = [google EXCEPT !.port = FALSE, !.tokens = "valid"]
    BY <1>2, <2>3 DEF BInv, BrowserTyped, GoogleStates
  <2> QED
    BY <2>1, <2>2, <2>3 DEF StartCallbackServer, SaveCredentials, ConsentTimesOut, ConsentPageFails
<1>4. KeysFirst(call', google')
  BY <1>3 DEF KeysFirst
<1>5. /\ ScreenTyped' /\ call' \in BrowserCallRecords /\ ScreenOf(call', display', xvfb', vnc')
  <2>1. Returns \/ (At("oauth") /\ To("consent") /\ UNCHANGED <<display, xvfb, vnc>>)
    BY DEF StartCallbackServer, SaveCredentials, ConsentTimesOut, ConsentPageFails
  <2>2. CASE Returns
    BY <2>2, ReturnsScreen
  <2>3. CASE At("oauth") /\ To("consent") /\ UNCHANGED <<display, xvfb, vnc>>
    BY <2>3, ToScreen, PcsBrowser DEF At
  <2> QED
    BY <2>1, <2>2, <2>3
<1> QED
  BY <1>1, <1>3, <1>4, <1>5, GoogleStep

LEMMA OutsideBInv == ASSUME BInv, HostRestarts \/ HostKilled \/ Expires PROVE BInv'
<1>1. CASE HostRestarts \/ HostKilled
  <2>1. /\ BrowserMishap /\ call' = Idle /\ google' = [google EXCEPT !.port = FALSE] /\ UNCHANGED <<logins, acts, dotenv>>
        /\ "setup" \notin {xvfb', vnc'} /\ ScreenTyped'
    BY <1>1 DEF HostRestarts, HostKilled, BInv, BrowserTyped, ScreenTyped
  <2>2. call' \in BrowserCallRecords /\ call'.pc = "idle"
    BY <2>1, IdleTyped
  <2>3. google' \in GoogleStates /\ google'.keys = google.keys /\ google'.tokens = google.tokens
    BY <2>1, GoogleFields
  <2>4. ScreenOf(call', display', xvfb', vnc') /\ KeysFirst(call', google')
    BY <2>1, <2>2, <2>3 DEF ScreenOf, KeysFirst, BInv
  <2> QED
    BY <2>1, <2>2, <2>3, <2>4, GoogleStep
<1>2. CASE Expires
  <2>1. /\ call = Idle /\ call' = call /\ BrowserMishap /\ UNCHANGED <<display, xvfb, acts>>
        /\ (vnc' = vnc \/ vnc' = "none")
        /\ logins' \subseteq {"x", "slack", "google"} /\ dotenv' \subseteq {"xoxc", "xoxd"}
        /\ (google' = google \/ (google.tokens = "valid" /\ google' = [google EXCEPT !.tokens = "revoked"]))
    BY <1>2, BrowserFacts DEF Expires
  <2>2. google' \in GoogleStates /\ google'.keys = google.keys /\ (google'.tokens # "none" => google.tokens # "none")
    BY <2>1, BrowserFacts DEF GoogleStates
  <2>3. call' \in BrowserCallRecords /\ call'.pc = "idle" /\ call.pc = "idle"
    BY <2>1, IdleTyped
  <2>4. ScreenTyped' /\ ScreenOf(call', display', xvfb', vnc') /\ KeysFirst(call', google')
    BY <2>1, <2>2, <2>3 DEF ScreenTyped, ScreenOf, KeysFirst, BInv, BrowserTyped
  <2> QED
    BY <2>1, <2>2, <2>3, <2>4, WithScreen, BrowserFacts
<1> QED
  BY <1>1, <1>2

LEMMA BrowserSteps == ASSUME BInv, [BrowserNext]_browser_vars PROVE BInv'
<1>1. CASE UNCHANGED browser_vars
  BY <1>1 DEF browser_vars, BInv, BrowserTyped, ScreenTyped
<1>2. CASE BrowserNext
  BY <1>2, CallBInv, OpensBInv, FailsBInv, ActsBInv, PagesBInv, TokensBInv, ConsoleBInv, KeysBInv, ConsentBInv, OutsideBInv
     DEF BrowserNext, Runs
<1> QED
  BY <1>1, <1>2

LEMMA BrowserStarts == BrowserInit => BInv
<1> SUFFICES ASSUME BrowserInit PROVE BInv
  OBVIOUS
<1>1. call \in BrowserCallRecords /\ call.pc = "idle" /\ "setup" \notin {xvfb, vnc} /\ ScreenTyped
  BY IdleTyped DEF BrowserInit, ScreenTyped
<1>2. google \in GoogleStates /\ google.tokens = "none"
  BY DEF BrowserInit, GoogleStates
<1>3. browser_past \in BrowserPast
  BY BrowserAssumption DEF BrowserInit, BrowserPast
<1>4. acts \in [XActs -> Nat] /\ LikedOnce(acts)
  BY DEF BrowserInit, LikedOnce, XActs
<1> QED
  BY <1>1, <1>2, <1>3, <1>4 DEF BrowserInit, BInv, BrowserTyped, ScreenOf, KeysFirst

\* The screen and Google's console are as far as the call at hand says, whatever
\* calls, kills and restarts follow each other (x_integration, slack_token_extractor,
\* google_setup).
THEOREM BrowserInvariant == BrowserSpec => []BInv
BY BrowserStarts, BrowserSteps, PTL DEF BrowserSpec

\* What a setup starts ends with it, an open browser has a screen, a tweet is liked
\* once and tokens are those of the keys that are kept (x_integration,
\* slack_token_extractor, google_setup).
THEOREM BrowserStaysSound == BrowserSpec => []BrowserSound
BY BrowserInvSound, BrowserInvariant, PTL

-----------------------------------------------------------------------------
\* WhatsAppChannel: messages out, questions and answers.

Flushes == [due : Nat, on : BOOLEAN, item : 0..MaxSends]
Questions == [pending : BOOLEAN, answers : SUBSET (1..MaxInbound)]
Fates == {"piped", "answering", "answered", "dropped"}

WhatsAppTyped ==
  /\ connected \in BOOLEAN /\ queue \in Seq(Sent) /\ sends \subseteq Sent /\ told \subseteq Sent
  /\ flush \in Flushes /\ phone \in Seq(Sent) /\ wa_failures \in 0..MaxFailures
  /\ question \in Questions /\ inbound \in Seq(Fates)

\* What callers take for sent is in one place: arrived, in the queue, or in the
\* hands of the flush.
InOnePlace(p, q, item, to) ==
  /\ Distinct(p) /\ Distinct(q) /\ ToSet(p) \cap ToSet(q) = {}
  /\ item \notin ToSet(p) \cup ToSet(q)
  /\ ToSet(p) \cup ToSet(q) \cup ({item} \ {0}) = to

\* Messages are numbered in the order of the calls, the others are on their way.
NumberedFrom1(so, to) == so \cap to = {} /\ \E k \in Nat : so \cup to = 1..k

\* An answer task that finds no question comes after the one that answered it.
AnswersFollow(q, in) ==
  /\ \A m \in q.answers : m \in DOMAIN in /\ in[m] = "answering"
  /\ ~q.pending => \A m \in q.answers : \E n \in 1..(m - 1) : in[n] = "answered"
  /\ \A m \in DOMAIN in : in[m] = "dropped" => \E n \in 1..(m - 1) : in[n] = "answered"

WInv ==
  /\ WhatsAppTyped
  /\ InOnePlace(phone, queue, flush.item, told) /\ NumberedFrom1(sends, told)
  /\ AnswersFollow(question, inbound)

LEMMA WhatsAppTypes == WInv => WhatsAppTypeOK
BY DEF WInv, WhatsAppTyped, WhatsAppTypeOK, Flushes, Questions, Fates

LEMMA WhatsAppInvSound == WInv => WhatsAppSound
<1> SUFFICES ASSUME WInv PROVE WhatsAppSound
  OBVIOUS
<1>1. ASSUME NEW m \in told PROVE Places(m) = 1
  <2>1. /\ Distinct(phone) /\ Distinct(queue) /\ ToSet(phone) \cap ToSet(queue) = {}
        /\ flush.item \notin ToSet(phone) \cup ToSet(queue)
        /\ ToSet(phone) \cup ToSet(queue) \cup ({flush.item} \ {0}) = told
    BY DEF WInv, InOnePlace
  <2>2. Cardinality({i \in DOMAIN phone : phone[i] = m}) = IF m \in ToSet(phone) THEN 1 ELSE 0
    BY <2>1, DistinctPlaces
  <2>3. Cardinality({i \in DOMAIN queue : queue[i] = m}) = IF m \in ToSet(queue) THEN 1 ELSE 0
    BY <2>1, DistinctPlaces
  <2>4. Places(m) = (IF m \in ToSet(phone) THEN 1 ELSE 0) + (IF m \in ToSet(queue) THEN 1 ELSE 0)
                      + (IF flush.item = m THEN 1 ELSE 0)
    BY <2>2, <2>3 DEF Places
  <2> QED
    BY <1>1, <2>1, <2>4
<1>2. RepliesAreTaken
  BY DEF WInv, AnswersFollow, RepliesAreTaken
<1> QED
  BY <1>1, <1>2 DEF WhatsAppSound, NothingForgotten

LEMMA FlushTyped ==
  ASSUME WInv
  PROVE  /\ flush \in Flushes /\ flush.due \in Nat /\ flush.on \in BOOLEAN /\ flush.item \in 0..MaxSends
         /\ ~(0 \in Sent) /\ (flush.item # 0 => flush.item \in Sent)
BY WhatsAppBounds DEF WInv, WhatsAppTyped, Flushes, Sent

LEMMA FlushSet ==
  ASSUME NEW f \in Flushes, NEW due \in Nat, NEW on \in BOOLEAN, NEW item \in 0..MaxSends
  PROVE  /\ [f EXCEPT !.due = due] \in Flushes /\ [f EXCEPT !.due = due].item = f.item
         /\ [f EXCEPT !.on = on] \in Flushes /\ [f EXCEPT !.on = on].item = f.item
         /\ [f EXCEPT !.item = item] \in Flushes /\ [f EXCEPT !.item = item].item = item
         /\ [f EXCEPT !.due = due, !.on = on] \in Flushes /\ [f EXCEPT !.due = due, !.on = on].item = f.item
BY DEF Flushes

\* What the failures are counted to.
LEMMA WaFailures == ASSUME WInv PROVE WhatsAppFails => wa_failures' \in 0..MaxFailures
BY WhatsAppBounds DEF WInv, WhatsAppTyped, WhatsAppFails

LEMMA OnlyFlush ==
  ASSUME WInv, connected' \in BOOLEAN, flush' \in Flushes, flush'.item = flush.item, wa_failures' \in 0..MaxFailures,
         UNCHANGED <<queue, sends, phone, told, question, inbound>>
  PROVE  WInv'
BY DEF WInv, WhatsAppTyped

LEMMA ConnectionsWInv == ASSUME WInv, OnConnected \/ OnDisconnected \/ FlushStarts PROVE WInv'
<1>1. CASE OnConnected
  <2> DEFINE due == flush.due + 1
  <2>1. due \in Nat /\ flush' = [flush EXCEPT !.due = due]
    BY <1>1, FlushTyped DEF OnConnected
  <2> HIDE DEF due
  <2>2. flush' \in Flushes /\ flush'.item = flush.item
    BY <2>1, FlushTyped DEF Flushes
  <2> QED
    BY <1>1, <2>2, OnlyFlush DEF OnConnected, WInv, WhatsAppTyped
<1>2. CASE OnDisconnected
  BY <1>2, OnlyFlush, WaFailures, FlushTyped DEF OnDisconnected
<1>3. CASE FlushStarts
  <2> DEFINE due == flush.due - 1
             on == flush.on \/ queue # <<>>
  <2>1. due \in Nat /\ on \in BOOLEAN /\ flush' = [flush EXCEPT !.due = due, !.on = on]
    BY <1>3, FlushTyped DEF FlushStarts
  <2> HIDE DEF due, on
  <2>2. flush' \in Flushes /\ flush'.item = flush.item
    BY <2>1, FlushTyped DEF Flushes
  <2> QED
    BY <1>3, <2>2, OnlyFlush DEF FlushStarts, WInv, WhatsAppTyped
<1> QED
  BY <1>1, <1>2, <1>3

\* A message that no place has is put where there is one more.
LEMMA OneMorePlace ==
  ASSUME NEW p \in Seq(Sent), NEW q \in Seq(Sent), NEW item, NEW to, NEW m \in Sent,
         InOnePlace(p, q, item, to), m \notin to
  PROVE  /\ InOnePlace(Append(p, m), q, item, to \cup {m}) /\ Append(p, m) \in Seq(Sent)
         /\ InOnePlace(p, Append(q, m), item, to \cup {m}) /\ Append(q, m) \in Seq(Sent)
<1>1. /\ Distinct(p) /\ Distinct(q) /\ ToSet(p) \cap ToSet(q) = {} /\ item \notin ToSet(p) \cup ToSet(q)
      /\ ToSet(p) \cup ToSet(q) \cup ({item} \ {0}) = to
  BY DEF InOnePlace
<1>2. m # 0 /\ m # item /\ m \notin ToSet(p) /\ m \notin ToSet(q)
  BY <1>1 DEF Sent
<1> DEFINE p2 == Append(p, m)
           q2 == Append(q, m)
<1>3. Distinct(p2) /\ p2 \in Seq(Sent) /\ ToSet(p2) = ToSet(p) \cup {m}
  BY <1>1, <1>2, DistinctAppend
<1>4. Distinct(q2) /\ q2 \in Seq(Sent) /\ ToSet(q2) = ToSet(q) \cup {m}
  BY <1>1, <1>2, DistinctAppend
<1> HIDE DEF p2, q2
<1>5. InOnePlace(p2, q, item, to \cup {m})
  BY <1>1, <1>2, <1>3 DEF InOnePlace
<1>6. InOnePlace(p, q2, item, to \cup {m})
  BY <1>1, <1>2, <1>4 DEF InOnePlace
<1> QED
  BY <1>3, <1>4, <1>5, <1>6 DEF p2, q2

\* The number of the next message is new.
LEMMA NextNumber ==
  ASSUME WInv, Attempts < MaxSends
  PROVE  /\ Attempts + 1 \in Sent /\ Attempts + 1 \notin told \cup sends
         /\ NumberedFrom1(sends \cup {Attempts + 1}, told) /\ NumberedFrom1(sends, told \cup {Attempts + 1})
<1>1. PICK k \in Nat : sends \cup told = 1..k
  BY DEF WInv, NumberedFrom1
<1>2. Attempts = k
  <2>1. Cardinality(1..k) = k
    BY <1>1, FS_Interval
  <2> QED
    BY <1>1, <2>1 DEF Attempts
<1>3. k + 1 \in Sent /\ k + 1 \notin 1..k /\ 1..(k + 1) = (1..k) \cup {k + 1} /\ k + 1 \in Nat
  BY <1>1, <1>2, WhatsAppBounds DEF Sent
<1>4. sends \cap told = {}
  BY DEF WInv, NumberedFrom1
<1> DEFINE m == k + 1
<1>5. m \notin sends \cup told /\ (sends \cup {m}) \cup told = 1..m /\ sends \cup (told \cup {m}) = 1..m /\ m \in Nat
  BY <1>1, <1>3
<1> HIDE DEF m
<1>6. NumberedFrom1(sends \cup {m}, told) /\ NumberedFrom1(sends, told \cup {m})
  BY <1>4, <1>5 DEF NumberedFrom1
<1> QED
  BY <1>1, <1>2, <1>3, <1>5, <1>6 DEF m

LEMMA SendTextWInv == ASSUME WInv, SendText PROVE WInv'
<1> DEFINE m == Attempts + 1
<1>1. /\ m \in Sent /\ m \notin told \cup sends /\ NumberedFrom1(sends \cup {m}, told) /\ NumberedFrom1(sends, told \cup {m})
  BY NextNumber DEF SendText
<1>2. /\ UNCHANGED <<connected, flush, phone, question, inbound, wa_failures>>
      /\ \/ sends' = sends \cup {m} /\ UNCHANGED <<queue, told>>
         \/ queue' = Append(queue, m) /\ told' = told \cup {m} /\ UNCHANGED sends
  BY DEF SendText
<1> HIDE DEF m
<1>3. CASE sends' = sends \cup {m} /\ UNCHANGED <<queue, told>>
  BY <1>1, <1>2, <1>3 DEF WInv, WhatsAppTyped
<1>4. CASE queue' = Append(queue, m) /\ told' = told \cup {m} /\ UNCHANGED sends
  <2>1. InOnePlace(phone, Append(queue, m), flush.item, told \cup {m}) /\ Append(queue, m) \in Seq(Sent)
    BY <1>1, OneMorePlace DEF WInv, WhatsAppTyped
  <2> QED
    BY <1>1, <1>2, <1>4, <2>1 DEF WInv, WhatsAppTyped
<1> QED
  BY <1>2, <1>3, <1>4

LEMMA SendReturnsWInv == ASSUME WInv, SendReturns PROVE WInv'
<1>1. PICK m \in sends :
        /\ sends' = sends \ {m} /\ told' = told \cup {m}
        /\ \/ phone' = Append(phone, m) /\ UNCHANGED <<queue, wa_failures>>
           \/ WhatsAppFails /\ queue' = Append(queue, m) /\ UNCHANGED phone
  BY DEF SendReturns
<1>2. UNCHANGED <<connected, flush, question, inbound>>
  BY DEF SendReturns
<1>3. m \in Sent /\ m \notin told
  BY DEF WInv, WhatsAppTyped, NumberedFrom1
<1>4. NumberedFrom1(sends', told')
  <2>1. sends \cap told = {} /\ sends' \cup told' = sends \cup told
    BY <1>1 DEF WInv, NumberedFrom1
  <2> QED
    BY <1>1, <2>1 DEF WInv, NumberedFrom1
<1>5. /\ InOnePlace(Append(phone, m), queue, flush.item, told \cup {m}) /\ Append(phone, m) \in Seq(Sent)
      /\ InOnePlace(phone, Append(queue, m), flush.item, told \cup {m}) /\ Append(queue, m) \in Seq(Sent)
  BY <1>3, OneMorePlace DEF WInv, WhatsAppTyped
<1>6. CASE phone' = Append(phone, m) /\ UNCHANGED <<queue, wa_failures>>
  BY <1>1, <1>2, <1>3, <1>4, <1>5, <1>6 DEF WInv, WhatsAppTyped
<1>7. CASE WhatsAppFails /\ queue' = Append(queue, m) /\ UNCHANGED phone
  BY <1>1, <1>2, <1>3, <1>4, <1>5, <1>7, WaFailures DEF WInv, WhatsAppTyped
<1> QED
  BY <1>1, <1>6, <1>7

\* The head of the queue is taken in hand, or goes to the end.
LEMMA TakesHead ==
  ASSUME NEW p \in Seq(Sent), NEW q \in Seq(Sent), NEW to, InOnePlace(p, q, 0, to), q # <<>>
  PROVE  /\ Head(q) \in Sent /\ Tail(q) \in Seq(Sent) /\ InOnePlace(p, Tail(q), Head(q), to)
         /\ Append(Tail(q), Head(q)) \in Seq(Sent) /\ InOnePlace(p, Append(Tail(q), Head(q)), 0, to)
<1>1. /\ Distinct(p) /\ Distinct(q) /\ ToSet(p) \cap ToSet(q) = {} /\ ToSet(p) \cup ToSet(q) = to
      /\ 0 \notin ToSet(p) \cup ToSet(q)
  BY DEF InOnePlace
<1> DEFINE h == Head(q)
           t == Tail(q)
           r == Append(t, h)
<1>2. h \in Sent /\ t \in Seq(Sent) /\ h # 0
  <2>1. h \in Sent /\ t \in Seq(Sent)
    OBVIOUS
  <2>2. 0 \notin Sent
    BY DEF Sent
  <2> QED
    BY <2>1, <2>2
<1>3. Distinct(t) /\ h \notin ToSet(t) /\ ToSet(q) = ToSet(t) \cup {h}
  BY <1>1, DistinctTail
<1> HIDE DEF h, t
<1>4. Distinct(r) /\ r \in Seq(Sent) /\ ToSet(r) = ToSet(t) \cup {h}
  BY <1>2, <1>3, DistinctAppend
<1> HIDE DEF r
<1>5. InOnePlace(p, t, h, to)
  BY <1>1, <1>2, <1>3 DEF InOnePlace
<1>6. InOnePlace(p, r, 0, to)
  BY <1>1, <1>3, <1>4 DEF InOnePlace
<1> QED
  BY <1>2, <1>4, <1>5, <1>6 DEF h, t, r

LEMMA FlushTakesWInv == ASSUME WInv, FlushTakes PROVE WInv'
<1>1. flush.item = 0 /\ UNCHANGED <<connected, sends, phone, told, question, inbound, wa_failures>>
  BY DEF FlushTakes, Running
<1>2. CASE queue = <<>> /\ flush' = [flush EXCEPT !.on = FALSE] /\ UNCHANGED queue
  <2>1. flush' \in Flushes /\ flush'.item = flush.item
    BY <1>2, FlushTyped DEF Flushes
  <2> QED
    BY <1>1, <1>2, <2>1, OnlyFlush DEF WInv, WhatsAppTyped
<1>3. ASSUME queue # <<>>
      PROVE  /\ Head(queue) \in Sent /\ Tail(queue) \in Seq(Sent) /\ InOnePlace(phone, Tail(queue), Head(queue), told)
             /\ Append(Tail(queue), Head(queue)) \in Seq(Sent) /\ InOnePlace(phone, Append(Tail(queue), Head(queue)), 0, told)
  <2>1. InOnePlace(phone, queue, 0, told) /\ phone \in Seq(Sent) /\ queue \in Seq(Sent)
    BY <1>1 DEF WInv, WhatsAppTyped
  <2> QED
    BY <1>3, <2>1, TakesHead
<1>4. CASE queue # <<>> /\ flush' = [flush EXCEPT !.item = Head(queue)] /\ queue' = Tail(queue)
  <2> DEFINE h == Head(queue)
  <2>1. h \in 0..MaxSends /\ flush' = [flush EXCEPT !.item = h]
    BY <1>3, <1>4 DEF Sent
  <2> HIDE DEF h
  <2>2. flush' \in Flushes /\ flush'.item = h
    BY <2>1, FlushTyped DEF Flushes
  <2> QED
    BY <1>1, <1>3, <1>4, <2>2 DEF WInv, WhatsAppTyped, h
<1>5. CASE queue # <<>> /\ queue' = Append(Tail(queue), Head(queue)) /\ UNCHANGED flush
  BY <1>1, <1>3, <1>5 DEF WInv, WhatsAppTyped
<1> QED
  BY <1>2, <1>4, <1>5 DEF FlushTakes

LEMMA FlushSendsWInv == ASSUME WInv, FlushSends PROVE WInv'
<1> DEFINE m == flush.item
           rest == told \ {m}
<1>1. /\ m # 0 /\ flush' = [flush EXCEPT !.item = 0] /\ UNCHANGED <<connected, sends, told, question, inbound>>
      /\ \/ phone' = Append(phone, m) /\ UNCHANGED <<queue, wa_failures>>
         \/ WhatsAppFails /\ queue' = Append(queue, m) /\ UNCHANGED phone
  BY DEF FlushSends
<1>2. m \in Sent /\ m \in told
  BY <1>1, FlushTyped DEF WInv, InOnePlace
<1>3. InOnePlace(phone, queue, 0, rest)
  <2>1. 0 \notin ToSet(phone) \cup ToSet(queue)
    BY WhatsAppBounds, ToSetFacts DEF WInv, WhatsAppTyped, Sent
  <2> QED
    BY <1>1, <2>1 DEF WInv, InOnePlace
<1>4. flush' \in Flushes /\ flush'.item = 0
  BY <1>1, FlushTyped, WhatsAppBounds DEF Flushes
<1>5. rest \cup {m} = told /\ m \notin rest
  BY <1>2
<1> HIDE DEF m, rest
<1>6. /\ InOnePlace(Append(phone, m), queue, 0, rest \cup {m}) /\ Append(phone, m) \in Seq(Sent)
      /\ InOnePlace(phone, Append(queue, m), 0, rest \cup {m}) /\ Append(queue, m) \in Seq(Sent)
  BY <1>2, <1>3, <1>5, OneMorePlace DEF WInv, WhatsAppTyped
<1>7. CASE phone' = Append(phone, m) /\ UNCHANGED <<queue, wa_failures>>
  BY <1>1, <1>4, <1>5, <1>6, <1>7 DEF WInv, WhatsAppTyped
<1>8. CASE WhatsAppFails /\ queue' = Append(queue, m) /\ UNCHANGED phone
  BY <1>1, <1>4, <1>5, <1>6, <1>8, WaFailures DEF WInv, WhatsAppTyped
<1> QED
  BY <1>1, <1>7, <1>8

\* Inbound steps: the outward part stays.
LEMMA OnlyInbound ==
  ASSUME WInv, UNCHANGED <<outward, wa_failures>>, question' \in Questions, inbound' \in Seq(Fates),
         AnswersFollow(question', inbound')
  PROVE  WInv'
BY DEF WInv, WhatsAppTyped, outward

LEMMA InboundFacts ==
  ASSUME WInv
  PROVE  /\ question \in Questions /\ question.pending \in BOOLEAN /\ question.answers \subseteq 1..MaxInbound
         /\ inbound \in Seq(Fates) /\ Len(inbound) \in Nat /\ DOMAIN inbound = 1..Len(inbound)
         /\ AnswersFollow(question, inbound)
BY DEF WInv, WhatsAppTyped, Questions

LEMMA SendAskUserWInv == ASSUME WInv, SendAskUser PROVE WInv'
<1>1. question' \in Questions /\ question'.pending /\ question'.answers = question.answers
  BY InboundFacts DEF SendAskUser, Questions
<1>2. AnswersFollow(question', inbound')
  BY <1>1, InboundFacts DEF SendAskUser, AnswersFollow
<1> QED
  BY <1>1, <1>2, InboundFacts, OnlyInbound DEF SendAskUser

\* One more message of the chat.
LEMMA InboundGrows ==
  ASSUME NEW q \in Questions, NEW in \in Seq(Fates), AnswersFollow(q, in), NEW fate \in Fates \ {"dropped"},
         NEW r \in Questions, r.pending = q.pending,
         r.answers \subseteq q.answers \cup (IF fate = "answering" /\ q.pending THEN {Len(in) + 1} ELSE {})
  PROVE  AnswersFollow(r, Append(in, fate)) /\ Append(in, fate) \in Seq(Fates)
<1> DEFINE more == Append(in, fate)
           k == Len(in) + 1
<1>1. /\ more \in Seq(Fates) /\ k \in Nat /\ DOMAIN in = 1..Len(in) /\ DOMAIN more = DOMAIN in \cup {k} /\ k \notin DOMAIN in
      /\ more[k] = fate /\ \A m \in DOMAIN in : more[m] = in[m] /\ \A n \in 1..(m - 1) : n \in DOMAIN in
  OBVIOUS
<1>2. r.answers \subseteq q.answers \cup (IF fate = "answering" /\ q.pending THEN {k} ELSE {})
  OBVIOUS
<1> HIDE DEF more, k
<1>3. \A m \in DOMAIN in : (\E n \in 1..(m - 1) : in[n] = "answered") => \E n \in 1..(m - 1) : more[n] = "answered"
  BY <1>1
<1>4. \A m \in q.answers : m \in DOMAIN in /\ in[m] = "answering"
  BY DEF AnswersFollow
<1>5. \A m \in r.answers : m \in DOMAIN more /\ more[m] = "answering"
  BY <1>1, <1>2, <1>4
<1>6. ~r.pending => \A m \in r.answers : \E n \in 1..(m - 1) : more[n] = "answered"
  BY <1>2, <1>3, <1>4 DEF AnswersFollow
<1>7. \A m \in DOMAIN more : more[m] = "dropped" => \E n \in 1..(m - 1) : more[n] = "answered"
  BY <1>1, <1>3 DEF AnswersFollow
<1> QED
  BY <1>1, <1>5, <1>6, <1>7 DEF AnswersFollow, more

LEMMA HandleMessageWInv == ASSUME WInv, HandleMessage PROVE WInv'
<1> DEFINE k == Len(inbound) + 1
<1>0. k \in 1..MaxInbound /\ UNCHANGED <<outward, wa_failures>> /\ "answering" \in Fates /\ "piped" \in Fates
  BY InboundFacts, WhatsAppBounds DEF HandleMessage, Fates
<1>1. CASE question.pending
  <2> DEFINE answers == question.answers \cup {k}
  <2>1. question' = [question EXCEPT !.answers = answers] /\ inbound' = Append(inbound, "answering")
    BY <1>1 DEF HandleMessage
  <2>2. answers \in SUBSET (1..MaxInbound)
    BY <1>0, InboundFacts
  <2>3. answers \subseteq question.answers \cup (IF "answering" = "answering" /\ question.pending THEN {Len(inbound) + 1} ELSE {})
    BY <1>1
  <2> HIDE DEF answers, k
  <2>4. question' \in Questions /\ question'.pending = question.pending /\ question'.answers = answers
    BY <2>1, <2>2, InboundFacts DEF Questions
  <2>5. AnswersFollow(question', Append(inbound, "answering")) /\ Append(inbound, "answering") \in Seq(Fates)
    BY <1>0, <2>3, <2>4, InboundFacts, InboundGrows
  <2> QED
    BY <1>0, <2>1, <2>4, <2>5, OnlyInbound
<1>2. CASE ~question.pending
  <2>1. question' = question /\ inbound' = Append(inbound, "piped")
    BY <1>2 DEF HandleMessage
  <2>2. AnswersFollow(question, Append(inbound, "piped")) /\ Append(inbound, "piped") \in Seq(Fates)
    BY <1>0, InboundFacts, InboundGrows
  <2> QED
    BY <1>0, <2>1, <2>2, InboundFacts, OnlyInbound
<1> QED
  BY <1>1, <1>2

LEMMA AnswerRunsWInv == ASSUME WInv, AnswerRuns PROVE WInv'
<1> DEFINE m == CHOOSE n \in question.answers : \A k \in question.answers : n <= k
           fate == IF question.pending THEN "answered" ELSE "dropped"
<1>1. m \in question.answers /\ \A k \in question.answers : m <= k
  <2>1. question.answers \subseteq Nat /\ question.answers # {}
    BY InboundFacts DEF AnswerRuns
  <2> QED
    BY <2>1, LeastOf
<1>2. /\ question' = [pending |-> FALSE, answers |-> question.answers \ {m}]
      /\ inbound' = [inbound EXCEPT ![m] = fate] /\ UNCHANGED <<outward, wa_failures>>
  BY DEF AnswerRuns
<1> HIDE DEF m
<1>3. fate \in Fates /\ (fate = "answered" <=> question.pending) /\ fate # "answering"
  BY DEF Fates
<1> HIDE DEF fate
<1>4. m \in DOMAIN inbound /\ inbound[m] = "answering"
  BY <1>1, InboundFacts DEF AnswersFollow
<1>5. /\ inbound' \in Seq(Fates) /\ DOMAIN inbound' = DOMAIN inbound /\ inbound'[m] = fate
      /\ \A k \in DOMAIN inbound \ {m} : inbound'[k] = inbound[k]
  BY <1>2, <1>3, <1>4, InboundFacts
<1>6. /\ question' \in Questions /\ ~question'.pending /\ question'.answers = question.answers \ {m}
  BY <1>2, InboundFacts DEF Questions
<1>7. \A n \in DOMAIN inbound : inbound[n] = "answered" => inbound'[n] = "answered"
  BY <1>4, <1>5
<1>8. \A k \in DOMAIN inbound : \A n \in 1..(k - 1) : n \in DOMAIN inbound
  BY InboundFacts
<1>9. \A k \in question'.answers : k \in DOMAIN inbound' /\ inbound'[k] = "answering"
  BY <1>5, <1>6, InboundFacts DEF AnswersFollow
<1>10. \A k \in question'.answers : \E n \in 1..(k - 1) : inbound'[n] = "answered"
  <2> SUFFICES ASSUME NEW k \in question'.answers PROVE \E n \in 1..(k - 1) : inbound'[n] = "answered"
    OBVIOUS
  <2>1. k \in question.answers /\ k # m /\ k \in DOMAIN inbound /\ k \in Nat /\ m \in Nat /\ m >= 1
    BY <1>1, <1>6, InboundFacts DEF AnswersFollow
  <2>2. CASE question.pending
    <3>1. m \in 1..(k - 1) /\ inbound'[m] = "answered"
      BY <1>1, <1>3, <1>5, <2>1, <2>2
    <3> QED
      BY <3>1
  <2>3. CASE ~question.pending
    <3>1. PICK n \in 1..(k - 1) : inbound[n] = "answered"
      BY <2>1, <2>3, InboundFacts DEF AnswersFollow
    <3> QED
      BY <1>7, <1>8, <2>1, <3>1
  <2> QED
    BY <2>2, <2>3
<1>11. \A k \in DOMAIN inbound' : inbound'[k] = "dropped" => \E n \in 1..(k - 1) : inbound'[n] = "answered"
  <2> SUFFICES ASSUME NEW k \in DOMAIN inbound, inbound'[k] = "dropped" PROVE \E n \in 1..(k - 1) : inbound'[n] = "answered"
    BY <1>5
  <2>1. \E n \in 1..(k - 1) : inbound[n] = "answered"
    <3>1. CASE k = m
      BY <1>1, <1>3, <1>5, <3>1, InboundFacts DEF AnswersFollow
    <3>2. CASE k # m
      BY <1>5, <3>2, InboundFacts DEF AnswersFollow
    <3> QED
      BY <3>1, <3>2
  <2> QED
    BY <1>7, <1>8, <2>1
<1>12. AnswersFollow(question', inbound')
  BY <1>9, <1>10, <1>11 DEF AnswersFollow
<1> QED
  BY <1>2, <1>5, <1>6, <1>12, OnlyInbound

LEMMA WhatsAppSteps == ASSUME WInv, [WhatsAppNext]_wa_vars PROVE WInv'
<1>1. CASE UNCHANGED wa_vars
  BY <1>1 DEF wa_vars, WInv, WhatsAppTyped
<1>2. CASE WhatsAppNext
  BY <1>2, ConnectionsWInv, SendTextWInv, SendReturnsWInv, FlushTakesWInv, FlushSendsWInv, SendAskUserWInv,
     HandleMessageWInv, AnswerRunsWInv DEF WhatsAppNext, Loop
<1> QED
  BY <1>1, <1>2

LEMMA WhatsAppStarts == WhatsAppInit => WInv
<1> SUFFICES ASSUME WhatsAppInit PROVE WInv
  OBVIOUS
<1>1. /\ flush \in Flushes /\ flush.item = 0
  BY WhatsAppBounds DEF WhatsAppInit, NotFlushing, Flushes
<1>2. /\ question \in Questions /\ question.answers = {}
  BY DEF WhatsAppInit, Questions
<1>3. WhatsAppTyped
  <2>1. queue \in Seq(Sent) /\ phone \in Seq(Sent) /\ inbound \in Seq(Fates)
    BY DEF WhatsAppInit
  <2>2. wa_failures \in 0..MaxFailures
    BY WhatsAppBounds DEF WhatsAppInit
  <2>3. connected \in BOOLEAN /\ sends \subseteq Sent /\ told \subseteq Sent
    BY DEF WhatsAppInit
  <2> QED
    BY <1>1, <1>2, <2>1, <2>2, <2>3 DEF WhatsAppTyped
<1>4. InOnePlace(<<>>, <<>>, 0, {})
  BY DEF InOnePlace, Distinct, ToSet
<1>5. NumberedFrom1({}, {})
  <2>1. 1..0 = {} /\ 0 \in Nat
    OBVIOUS
  <2> QED
    BY <2>1 DEF NumberedFrom1
<1>6. AnswersFollow(question, <<>>)
  BY <1>2 DEF AnswersFollow
<1> QED
  BY <1>1, <1>3, <1>4, <1>5, <1>6 DEF WhatsAppInit, WInv

\* What callers take for sent is in one place, the numbers of messages are used
\* once, and an answer task without a question comes after the one that answered it
\* (channels/whatsapp).
THEOREM WhatsAppInvariant == WhatsAppSpec => []WInv
BY WhatsAppStarts, WhatsAppSteps, PTL DEF WhatsAppSpec

\* What a caller takes for sent has arrived once or waits in the queue, and the
\* first reply to a question is its answer, for any number of sends and failures
\* (channels/whatsapp).
THEOREM WhatsAppStaysSound == WhatsAppSpec => []WhatsAppSound
BY WhatsAppInvSound, WhatsAppInvariant, PTL

-----------------------------------------------------------------------------
\* AgentOutput: traces and replies on their way.

Shown == [items : Seq(Numbers), cursor : BOOLEAN]
Streams == [on : BOOLEAN, items : Seq(Numbers), id : Nat]
HandledEvents == [pc : {"rest", "flush", "push", "settle", "reply"}, n : 0..MaxEvents,
                  kind : OutputKinds \cup {"none"}, carry : Seq(Numbers), stream : Streams]
SaidSets == [traces : SUBSET Numbers, replies : SUBSET Numbers]
OutPast == [events : 0..MaxEvents, failures : 0..MaxOutputFailures]

OutTyped ==
  /\ updates \in BOOLEAN /\ timer \in BOOLEAN /\ event \in HandledEvents /\ stream \in Streams
  /\ buffer \in Seq(Numbers) /\ flights \in Seq(Seq(Numbers)) /\ screen \in Seq(Shown)
  /\ ledger \subseteq Numbers /\ said \in SaidSets /\ out_past \in OutPast

\* Where an event can be, each place by itself.
OnScreen(sc, n) == \E i \in DOMAIN sc : n \in ToSet(sc[i].items)
ScreenOnce(sc, n) == \A i, j \in DOMAIN sc : n \in ToSet(sc[i].items) /\ n \in ToSet(sc[j].items) => i = j
InFlight(fl, n) == \E i \in DOMAIN fl : n \in ToSet(fl[i])
FlightOnce(fl, n) == \A i, j \in DOMAIN fl : n \in ToSet(fl[i]) /\ n \in ToSet(fl[j]) => i = j

\* In one of them, and there once; in none.
InOne(sc, fl, le, bu, ca, n) ==
  /\ ScreenOnce(sc, n) /\ FlightOnce(fl, n)
  /\ (IF OnScreen(sc, n) THEN 1 ELSE 0) + (IF InFlight(fl, n) THEN 1 ELSE 0) + (IF n \in le THEN 1 ELSE 0)
       + (IF n \in ToSet(bu) THEN 1 ELSE 0) + (IF n \in ToSet(ca) THEN 1 ELSE 0) = 1
InNone(sc, fl, le, bu, ca, n) ==
  ~OnScreen(sc, n) /\ ~InFlight(fl, n) /\ n \notin le /\ n \notin ToSet(bu) /\ n \notin ToSet(ca)

AllInOne(ns, sc, fl, le, bu, ca) == \A n \in ns : InOne(sc, fl, le, bu, ca, n)

\* Nothing has the number, and it is no trace.
Unused(n, sc, fl, le, bu, ca, st, es, sa) ==
  /\ InNone(sc, fl, le, bu, ca, n)
  /\ n \notin ToSet(st.items) /\ n \notin ToSet(es.items) /\ n \notin sa.traces

\* The numbers of events to come are unused, and the one being handled is.
LaterUnused(k, sc, fl, le, bu, ca, st, es, sa) ==
  \A n \in Numbers : n > k => Unused(n, sc, fl, le, bu, ca, st, es, sa) /\ n \notin sa.replies
HandledUnused(e, k, sc, fl, le, bu, ca, st, sa) ==
  e.pc # "rest" =>
    /\ e.n \in Numbers /\ e.n <= k /\ Unused(e.n, sc, fl, le, bu, ca, st, e.stream, sa)
    /\ e.kind # "reply" => e.n \notin sa.replies

\* A stream, and the message it is shown in, hold neither traces nor replies.
TextOnly(st, sc, sa) ==
  /\ ToSet(st.items) \cap (sa.traces \cup sa.replies) = {}
  /\ st.id # 0 => st.id \in DOMAIN sc /\ ToSet(sc[st.id].items) \cap (sa.traces \cup sa.replies) = {}

\* How far an event is, by its sort; a stream is live or taken over by the event.
EventInOrder(e, st) ==
  /\ e.pc = "rest" => e = Rest
  /\ e.pc # "flush" => e.carry = <<>>
  /\ e.pc = "push" => e.kind = "text"
  /\ e.pc = "settle" => e.kind = "trace"
  /\ e.pc = "reply" => e.kind \in {"reply", "empty"}
  /\ e.pc = "flush" => e.kind \in {"text", "reply", "empty"}
  /\ e.pc # "rest" /\ e.kind = "text" => e.stream = NoStream
  /\ e.pc # "rest" /\ e.kind # "text" => st = NoStream

OInv ==
  /\ OutTyped /\ EventInOrder(event, stream)
  /\ AllInOne(said.traces \cup (said.replies \ {event.n}), screen, flights, ledger, buffer, event.carry)
  /\ LaterUnused(out_past.events, screen, flights, ledger, buffer, event.carry, stream, event.stream, said)
  /\ HandledUnused(event, out_past.events, screen, flights, ledger, buffer, event.carry, stream, said)
  /\ TextOnly(stream, screen, said) /\ TextOnly(event.stream, screen, said)

-----------------------------------------------------------------------------
LEMMA TypesOfOutput ==
  ASSUME OInv
  PROVE  OutputTypeOK
<1>1. OutTyped /\ TextOnly(stream, screen, said)
  BY DEF OInv
<1>2. stream.id \in 0..Len(screen)
  BY <1>1 DEF TextOnly, OutTyped, Streams
<1>3. ToSet(flights) \subseteq Seq(Numbers)
  BY <1>1, ToSetFacts DEF OutTyped
<1>4. \A i \in DOMAIN screen : screen[i].items \in Seq(Numbers) /\ screen[i].cursor \in BOOLEAN
  <2>1. \A i \in DOMAIN screen : screen[i] \in Shown
    BY <1>1 DEF OutTyped
  <2> QED
    BY <2>1 DEF Shown
<1>5. event \in HandledEvents /\ said \in SaidSets /\ out_past \in OutPast /\ stream \in Streams
  BY <1>1 DEF OutTyped
<1>6. /\ event.pc \in {"rest", "flush", "push", "settle", "reply"} /\ event.n \in 0..MaxEvents
      /\ event.kind \in OutputKinds \cup {"none"} /\ event.carry \in Seq(Numbers) /\ stream.items \in Seq(Numbers)
      /\ said.traces \subseteq Numbers /\ said.replies \subseteq Numbers
      /\ out_past.events \in 0..MaxEvents /\ out_past.failures \in 0..MaxOutputFailures
  BY <1>5 DEF HandledEvents, SaidSets, OutPast, Streams
<1> QED
  BY <1>1, <1>2, <1>3, <1>4, <1>6 DEF OutTyped, OutputTypeOK

LEMMA ScreenTimes ==
  ASSUME NEW n, ScreenOnce(screen, n)
  PROVE  Cardinality({i \in DOMAIN screen : n \in ToSet(screen[i].items)}) = IF OnScreen(screen, n) THEN 1 ELSE 0
<1> DEFINE S == {i \in DOMAIN screen : n \in ToSet(screen[i].items)}
<1>1. CASE OnScreen(screen, n)
  <2>1. PICK i \in DOMAIN screen : n \in ToSet(screen[i].items)
    BY <1>1 DEF OnScreen
  <2>2. S = {i}
    BY <2>1 DEF ScreenOnce
  <2>3. Cardinality(S) = 1
    BY <2>2, FS_Singleton
  <2> QED
    BY <1>1, <2>3
<1>2. CASE ~OnScreen(screen, n)
  <2>1. S = {}
    BY <1>2 DEF OnScreen
  <2>2. Cardinality(S) = 0
    BY <2>1, FS_EmptySet
  <2> QED
    BY <1>2, <2>2
<1> QED
  BY <1>1, <1>2

LEMMA FlightTimes ==
  ASSUME NEW n, FlightOnce(flights, n)
  PROVE  Cardinality({i \in DOMAIN flights : n \in ToSet(flights[i])}) = IF InFlight(flights, n) THEN 1 ELSE 0
<1> DEFINE S == {i \in DOMAIN flights : n \in ToSet(flights[i])}
<1>1. CASE InFlight(flights, n)
  <2>1. PICK i \in DOMAIN flights : n \in ToSet(flights[i])
    BY <1>1 DEF InFlight
  <2>2. S = {i}
    BY <2>1 DEF FlightOnce
  <2>3. Cardinality(S) = 1
    BY <2>2, FS_Singleton
  <2> QED
    BY <1>1, <2>3
<1>2. CASE ~InFlight(flights, n)
  <2>1. S = {}
    BY <1>2 DEF InFlight
  <2>2. Cardinality(S) = 0
    BY <2>1, FS_EmptySet
  <2> QED
    BY <1>2, <2>2
<1> QED
  BY <1>1, <1>2

LEMMA OutputInvSound == OInv => OutputSound
<1> SUFFICES ASSUME OInv PROVE OutputSound
  OBVIOUS
<1>1. ASSUME NEW n, InOne(screen, flights, ledger, buffer, event.carry, n) PROVE Times(n) = 1
  <2>1. Cardinality({i \in DOMAIN screen : n \in ToSet(screen[i].items)}) = IF OnScreen(screen, n) THEN 1 ELSE 0
    BY <1>1, ScreenTimes DEF InOne
  <2>2. Cardinality({i \in DOMAIN flights : n \in ToSet(flights[i])}) = IF InFlight(flights, n) THEN 1 ELSE 0
    BY <1>1, FlightTimes DEF InOne
  <2>3. Times(n) = (IF OnScreen(screen, n) THEN 1 ELSE 0) + (IF InFlight(flights, n) THEN 1 ELSE 0)
          + (IF n \in ledger THEN 1 ELSE 0) + (IF n \in ToSet(buffer) THEN 1 ELSE 0)
          + (IF n \in ToSet(event.carry) THEN 1 ELSE 0)
    BY <2>1, <2>2 DEF Times
  <2> QED
    BY <1>1, <2>3 DEF InOne
<1> QED
  BY <1>1 DEF OInv, AllInOne, OutputSound, TracesKept, RepliesKept

-----------------------------------------------------------------------------
\* What the calls to the channel do to the screen, for any one event.
ScreenGets(sc, sc2, items, n) ==
  /\ OnScreen(sc2, n) <=> OnScreen(sc, n) \/ n \in ToSet(items)
  /\ ScreenOnce(sc, n) /\ ~(OnScreen(sc, n) /\ n \in ToSet(items)) => ScreenOnce(sc2, n)

LEMMA MessageShown ==
  ASSUME NEW items \in Seq(Numbers), NEW open \in BOOLEAN
  PROVE  Message(items, open) \in Shown /\ Message(items, open).items = items
BY DEF Message, Shown

LEMMA ScreenAppend ==
  ASSUME NEW sc \in Seq(Shown), NEW msg \in Shown, NEW n
  PROVE  /\ ScreenGets(sc, Append(sc, msg), msg.items, n) /\ Append(sc, msg) \in Seq(Shown)
         /\ Len(Append(sc, msg)) \in DOMAIN Append(sc, msg) /\ Append(sc, msg)[Len(Append(sc, msg))] = msg
         /\ \A i \in DOMAIN sc : i \in DOMAIN Append(sc, msg) /\ Append(sc, msg)[i] = sc[i]
         /\ Append(sc, msg) # sc /\ Len(Append(sc, msg)) \in Nat \ {0}
<1> DEFINE more == Append(sc, msg)
           k == Len(sc) + 1
<1>1. /\ DOMAIN more = DOMAIN sc \cup {k} /\ k \notin DOMAIN sc /\ more[k] = msg
      /\ \A i \in DOMAIN sc : more[i] = sc[i]
      /\ more \in Seq(Shown) /\ Len(more) = k /\ more # sc /\ k \in Nat \ {0}
  OBVIOUS
<1> HIDE DEF more, k
<1>2. OnScreen(more, n) <=> OnScreen(sc, n) \/ n \in ToSet(msg.items)
  BY <1>1 DEF OnScreen
<1>3. ASSUME ScreenOnce(sc, n), ~(OnScreen(sc, n) /\ n \in ToSet(msg.items)) PROVE ScreenOnce(more, n)
  BY <1>1, <1>3 DEF ScreenOnce, OnScreen
<1> QED
  BY <1>1, <1>2, <1>3 DEF ScreenGets, more

LEMMA ScreenReplace ==
  ASSUME NEW sc \in Seq(Shown), NEW msg \in Shown, NEW id \in DOMAIN sc, NEW n, n \notin ToSet(sc[id].items)
  PROVE  /\ ScreenGets(sc, [sc EXCEPT ![id] = msg], msg.items, n) /\ [sc EXCEPT ![id] = msg] \in Seq(Shown)
         /\ [sc EXCEPT ![id] = msg][id] = msg /\ DOMAIN [sc EXCEPT ![id] = msg] = DOMAIN sc
<1> DEFINE new == [sc EXCEPT ![id] = msg]
<1>1. DOMAIN new = DOMAIN sc /\ new[id] = msg /\ new \in Seq(Shown) /\ \A i \in DOMAIN sc \ {id} : new[i] = sc[i]
  OBVIOUS
<1> HIDE DEF new
<1>2. OnScreen(new, n) <=> OnScreen(sc, n) \/ n \in ToSet(msg.items)
  BY <1>1 DEF OnScreen
<1>3. ASSUME ScreenOnce(sc, n), ~(OnScreen(sc, n) /\ n \in ToSet(msg.items)) PROVE ScreenOnce(new, n)
  BY <1>1, <1>3 DEF ScreenOnce, OnScreen
<1> QED
  BY <1>1, <1>2, <1>3 DEF ScreenGets, new

LEMMA FlightAppend ==
  ASSUME NEW fl \in Seq(Seq(Numbers)), NEW b \in Seq(Numbers), NEW n
  PROVE  /\ Append(fl, b) \in Seq(Seq(Numbers))
         /\ InFlight(Append(fl, b), n) <=> InFlight(fl, n) \/ n \in ToSet(b)
         /\ FlightOnce(fl, n) /\ ~(InFlight(fl, n) /\ n \in ToSet(b)) => FlightOnce(Append(fl, b), n)
<1> DEFINE more == Append(fl, b)
           k == Len(fl) + 1
<1>1. /\ DOMAIN more = DOMAIN fl \cup {k} /\ k \notin DOMAIN fl /\ more[k] = b
      /\ \A i \in DOMAIN fl : more[i] = fl[i] /\ more \in Seq(Seq(Numbers))
  OBVIOUS
<1>4. more \in Seq(Seq(Numbers))
  OBVIOUS
<1> HIDE DEF more, k
<1>2. InFlight(more, n) <=> InFlight(fl, n) \/ n \in ToSet(b)
  BY <1>1 DEF InFlight
<1>3. ASSUME FlightOnce(fl, n), ~(InFlight(fl, n) /\ n \in ToSet(b)) PROVE FlightOnce(more, n)
  BY <1>1, <1>3 DEF FlightOnce, InFlight
<1> QED
  BY <1>2, <1>3, <1>4 DEF more

\* One element of a sequence is taken out: the others keep their order.
LEMMA RemoveAtIs ==
  ASSUME NEW S, NEW s \in Seq(S), NEW i \in DOMAIN s
  PROVE  /\ RemoveAt(s, i) \in Seq(S) /\ Len(RemoveAt(s, i)) = Len(s) - 1
         /\ \A k \in 1..(Len(s) - 1) : RemoveAt(s, i)[k] = IF k < i THEN s[k] ELSE s[k + 1]
<1> DEFINE a == SubSeq(s, 1, i - 1)
           b == SubSeq(s, i + 1, Len(s))
<1>1. i \in 1..Len(s) /\ Len(s) \in Nat
  OBVIOUS
<1>2. a \in Seq(S) /\ Len(a) = i - 1 /\ \A k \in 1..(i - 1) : a[k] = s[k]
  BY <1>1
<1>3. b \in Seq(S) /\ Len(b) = Len(s) - i /\ \A k \in 1..(Len(s) - i) : b[k] = s[i + k]
  BY <1>1
<1>4. RemoveAt(s, i) = a \o b
  BY DEF RemoveAt
<1> HIDE DEF a, b
<1>5. /\ a \o b \in Seq(S) /\ Len(a \o b) = Len(a) + Len(b)
      /\ \A k \in 1..Len(a) : (a \o b)[k] = a[k]
      /\ \A k \in 1..Len(b) : (a \o b)[Len(a) + k] = b[k]
  <2>1. a \in Seq(S) /\ b \in Seq(S)
    BY <1>2, <1>3
  <2> QED
    BY <2>1
<1>6. ASSUME NEW k \in 1..(Len(s) - 1) PROVE (a \o b)[k] = IF k < i THEN s[k] ELSE s[k + 1]
  <2> DEFINE c == a \o b
  <2>1. \A m \in 1..Len(a) : c[m] = a[m]
    BY <1>5
  <2>4. \A m \in 1..Len(b) : c[Len(a) + m] = b[m]
    BY <1>5
  <2> HIDE DEF c
  <2>2. CASE k < i
    <3>1. k \in 1..Len(a) /\ k \in 1..(i - 1)
      BY <1>1, <1>2, <2>2
    <3>2. c[k] = a[k] /\ a[k] = s[k]
      BY <1>2, <2>1, <3>1
    <3> QED
      BY <2>2, <3>2 DEF c
  <2>3. CASE ~(k < i)
    <3> DEFINE m == k - i + 1
    <3>1. m \in 1..(Len(s) - i) /\ i + m = k + 1 /\ (i - 1) + m = k
      BY <1>1, <2>3
    <3> HIDE DEF m
    <3>2. Len(a) = i - 1 /\ m \in 1..Len(b)
      BY <1>2, <1>3, <3>1
    <3>3. c[Len(a) + m] = b[m]
      BY <2>4, <3>2
    <3>4. Len(a) + m = k
      BY <3>1, <3>2
    <3>5. b[m] = s[i + m]
      BY <1>3, <3>1
    <3> QED
      BY <2>3, <3>1, <3>3, <3>4, <3>5 DEF c
  <2> QED
    BY <2>2, <2>3
<1>7. a \o b \in Seq(S) /\ Len(a \o b) = Len(s) - 1
  BY <1>1, <1>2, <1>3, <1>5
<1> QED
  BY <1>4, <1>6, <1>7

LEMMA FlightRemove ==
  ASSUME NEW fl \in Seq(Seq(Numbers)), NEW i \in DOMAIN fl, NEW n
  PROVE  /\ RemoveAt(fl, i) \in Seq(Seq(Numbers))
         /\ InFlight(RemoveAt(fl, i), n) => InFlight(fl, n)
         /\ FlightOnce(fl, n) => /\ FlightOnce(RemoveAt(fl, i), n)
                                 /\ InFlight(RemoveAt(fl, i), n) <=> InFlight(fl, n) /\ n \notin ToSet(fl[i])
<1> DEFINE less == RemoveAt(fl, i)
           len == Len(fl)
<1>1. /\ less \in Seq(Seq(Numbers)) /\ Len(less) = len - 1
      /\ \A k \in 1..(len - 1) : less[k] = IF k < i THEN fl[k] ELSE fl[k + 1]
  BY RemoveAtIs
<1>2. DOMAIN less = 1..(len - 1) /\ DOMAIN fl = 1..len /\ len \in Nat /\ i \in 1..len
  BY <1>1
<1> HIDE DEF less, len
<1> DEFINE from(k) == IF k < i THEN k ELSE k + 1
<1>3. \A k \in DOMAIN less : from(k) \in DOMAIN fl \ {i} /\ less[k] = fl[from(k)]
  <2> TAKE k \in DOMAIN less
  <2>1. k \in 1..(len - 1) /\ k \in Nat /\ i \in Nat
    BY <1>2
  <2>2. less[k] = IF k < i THEN fl[k] ELSE fl[k + 1]
    BY <1>1, <2>1
  <2>3. CASE k < i
    BY <1>2, <2>1, <2>2, <2>3
  <2>4. CASE ~(k < i)
    BY <1>2, <2>1, <2>2, <2>4
  <2> QED
    BY <2>3, <2>4
<1>4. \A k, m \in DOMAIN less : from(k) = from(m) => k = m
  BY <1>2
<1>5. \A j \in DOMAIN fl \ {i} : \E k \in DOMAIN less : from(k) = j
  <2> SUFFICES ASSUME NEW j \in DOMAIN fl \ {i} PROVE \E k \in DOMAIN less : from(k) = j
    OBVIOUS
  <2>1. CASE j < i
    BY <1>2, <2>1
  <2>2. CASE j > i
    <3>1. j - 1 \in DOMAIN less /\ from(j - 1) = j
      BY <1>2, <2>2
    <3> QED
      BY <3>1
  <2> QED
    BY <1>2, <2>1, <2>2
<1> HIDE DEF from
<1>6. InFlight(less, n) => InFlight(fl, n)
  BY <1>3 DEF InFlight
<1>7. ASSUME FlightOnce(fl, n) PROVE FlightOnce(less, n)
  BY <1>3, <1>4, <1>7 DEF FlightOnce
<1>8. ASSUME FlightOnce(fl, n) PROVE InFlight(less, n) <=> InFlight(fl, n) /\ n \notin ToSet(fl[i])
  <2>1. ASSUME InFlight(less, n) PROVE n \notin ToSet(fl[i])
    BY <1>3, <1>8, <2>1 DEF InFlight, FlightOnce
  <2>2. ASSUME InFlight(fl, n), n \notin ToSet(fl[i]) PROVE InFlight(less, n)
    <3>1. PICK j \in DOMAIN fl : n \in ToSet(fl[j])
      BY <2>2 DEF InFlight
    <3>2. PICK k \in DOMAIN less : from(k) = j
      BY <1>5, <2>2, <3>1
    <3> QED
      BY <1>3, <3>1, <3>2 DEF InFlight
  <2> QED
    BY <1>6, <2>1, <2>2
<1> QED
  BY <1>1, <1>6, <1>7, <1>8 DEF less

-----------------------------------------------------------------------------
\* What a move between places does to an event, whichever it is.
LEMMA NothingIn == <<>> \in Seq(Numbers) /\ ToSet(<<>>) = {}
BY DEF ToSet

LEMMA InNoneOnce ==
  ASSUME NEW sc, NEW fl, NEW n
  PROVE  /\ ~OnScreen(sc, n) => ScreenOnce(sc, n)
         /\ ~InFlight(fl, n) => FlightOnce(fl, n)
BY DEF OnScreen, ScreenOnce, InFlight, FlightOnce

\* The screen gets items: those that were nowhere, or in one place only.
LEMMA ScreenTakes ==
  ASSUME NEW sc, NEW sc2, NEW fl, NEW le, NEW bu, NEW ca, NEW items, NEW n, ScreenGets(sc, sc2, items, n)
  PROVE  /\ n \notin ToSet(items) /\ InOne(sc, fl, le, bu, ca, n) => InOne(sc2, fl, le, bu, ca, n)
         /\ n \notin ToSet(items) /\ InNone(sc, fl, le, bu, ca, n) => InNone(sc2, fl, le, bu, ca, n)
         /\ n \in ToSet(items) /\ InNone(sc, fl, le, bu, ca, n) => InOne(sc2, fl, le, bu, ca, n)
<1>1. ASSUME n \notin ToSet(items), InOne(sc, fl, le, bu, ca, n) PROVE InOne(sc2, fl, le, bu, ca, n)
  BY <1>1 DEF ScreenGets, InOne
<1>2. ASSUME n \notin ToSet(items), InNone(sc, fl, le, bu, ca, n) PROVE InNone(sc2, fl, le, bu, ca, n)
  BY <1>2 DEF ScreenGets, InNone
<1>3. ASSUME n \in ToSet(items), InNone(sc, fl, le, bu, ca, n) PROVE InOne(sc2, fl, le, bu, ca, n)
  <2>1. ~OnScreen(sc, n) /\ ~InFlight(fl, n) /\ n \notin le /\ n \notin ToSet(bu) /\ n \notin ToSet(ca)
    BY <1>3 DEF InNone
  <2>2. ScreenOnce(sc, n) /\ FlightOnce(fl, n)
    BY <2>1, InNoneOnce
  <2>3. OnScreen(sc2, n) /\ ScreenOnce(sc2, n)
    BY <1>3, <2>1, <2>2 DEF ScreenGets
  <2> QED
    BY <2>1, <2>2, <2>3 DEF InOne
<1> QED
  BY <1>1, <1>2, <1>3

\* The carry lands on the screen or in the ledger.
LEMMA CarryTaken ==
  ASSUME NEW sc, NEW sc2, NEW fl, NEW le, NEW bu, NEW ca, NEW n, ScreenGets(sc, sc2, ca, n)
  PROVE  /\ InOne(sc, fl, le, bu, ca, n) => InOne(sc2, fl, le, bu, <<>>, n) /\ InOne(sc, fl, le \cup ToSet(ca), bu, <<>>, n)
         /\ InNone(sc, fl, le, bu, ca, n) => InNone(sc2, fl, le, bu, <<>>, n) /\ InNone(sc, fl, le \cup ToSet(ca), bu, <<>>, n)
<1> DEFINE none == <<>>
<1>1. ToSet(none) = {}
  BY NothingIn
<1> HIDE DEF none
<1>2. ASSUME InOne(sc, fl, le, bu, ca, n) PROVE InOne(sc2, fl, le, bu, none, n)
  <2>1. CASE n \in ToSet(ca)
    BY <1>1, <1>2, <2>1 DEF InOne, ScreenGets
  <2>2. CASE n \notin ToSet(ca)
    BY <1>1, <1>2, <2>2 DEF InOne, ScreenGets
  <2> QED
    BY <2>1, <2>2
<1>3. ASSUME InOne(sc, fl, le, bu, ca, n) PROVE InOne(sc, fl, le \cup ToSet(ca), bu, none, n)
  <2>1. CASE n \in ToSet(ca)
    BY <1>1, <1>3, <2>1 DEF InOne
  <2>2. CASE n \notin ToSet(ca)
    BY <1>1, <1>3, <2>2 DEF InOne
  <2> QED
    BY <2>1, <2>2
<1>4. ASSUME InNone(sc, fl, le, bu, ca, n)
      PROVE  InNone(sc2, fl, le, bu, none, n) /\ InNone(sc, fl, le \cup ToSet(ca), bu, none, n)
  BY <1>1, <1>4 DEF InNone, ScreenGets
<1> QED
  BY <1>2, <1>3, <1>4 DEF none

\* A flight lands on the screen or in the ledger.
LEMMA FlightTaken ==
  ASSUME NEW sc, NEW sc2, NEW fl \in Seq(Seq(Numbers)), NEW i \in DOMAIN fl, NEW le, NEW bu, NEW ca, NEW n,
         ScreenGets(sc, sc2, fl[i], n)
  PROVE  /\ InOne(sc, fl, le, bu, ca, n) =>
              InOne(sc2, RemoveAt(fl, i), le, bu, ca, n) /\ InOne(sc, RemoveAt(fl, i), le \cup ToSet(fl[i]), bu, ca, n)
         /\ InNone(sc, fl, le, bu, ca, n) =>
              InNone(sc2, RemoveAt(fl, i), le, bu, ca, n) /\ InNone(sc, RemoveAt(fl, i), le \cup ToSet(fl[i]), bu, ca, n)
<1> DEFINE less == RemoveAt(fl, i)
           b == fl[i]
<1>1. /\ InFlight(less, n) => InFlight(fl, n)
      /\ FlightOnce(fl, n) => FlightOnce(less, n) /\ (InFlight(less, n) <=> InFlight(fl, n) /\ n \notin ToSet(b))
  BY FlightRemove
<1>2. n \in ToSet(b) => InFlight(fl, n)
  BY DEF InFlight
<1>3. ScreenGets(sc, sc2, b, n)
  OBVIOUS
<1> HIDE DEF less, b
<1>4. ASSUME InOne(sc, fl, le, bu, ca, n) PROVE InOne(sc2, less, le, bu, ca, n)
  <2>1. CASE n \in ToSet(b)
    BY <1>1, <1>2, <1>3, <1>4, <2>1 DEF InOne, ScreenGets
  <2>2. CASE n \notin ToSet(b)
    BY <1>1, <1>3, <1>4, <2>2 DEF InOne, ScreenGets
  <2> QED
    BY <2>1, <2>2
<1>5. ASSUME InOne(sc, fl, le, bu, ca, n) PROVE InOne(sc, less, le \cup ToSet(b), bu, ca, n)
  <2>1. CASE n \in ToSet(b)
    BY <1>1, <1>2, <1>5, <2>1 DEF InOne
  <2>2. CASE n \notin ToSet(b)
    BY <1>1, <1>5, <2>2 DEF InOne
  <2> QED
    BY <2>1, <2>2
<1>6. ASSUME InNone(sc, fl, le, bu, ca, n)
      PROVE  InNone(sc2, less, le, bu, ca, n) /\ InNone(sc, less, le \cup ToSet(b), bu, ca, n)
  BY <1>1, <1>2, <1>3, <1>6 DEF InNone, ScreenGets
<1> QED
  BY <1>4, <1>5, <1>6 DEF less, b

\* The buffer is taken by the timer's flush, or by the handler.
LEMMA BufferTaken ==
  ASSUME NEW sc, NEW fl \in Seq(Seq(Numbers)), NEW le, NEW bu \in Seq(Numbers), NEW ca, NEW n
  PROVE  /\ InOne(sc, fl, le, bu, ca, n) => InOne(sc, Append(fl, bu), le, <<>>, ca, n)
         /\ InNone(sc, fl, le, bu, ca, n) => InNone(sc, Append(fl, bu), le, <<>>, ca, n)
         /\ InOne(sc, fl, le, bu, <<>>, n) => InOne(sc, fl, le, <<>>, bu, n)
         /\ InNone(sc, fl, le, bu, <<>>, n) => InNone(sc, fl, le, <<>>, bu, n)
<1> DEFINE none == <<>>
           more == Append(fl, bu)
<1>1. ToSet(none) = {}
  BY NothingIn
<1>2. /\ InFlight(more, n) <=> InFlight(fl, n) \/ n \in ToSet(bu)
      /\ FlightOnce(fl, n) /\ ~(InFlight(fl, n) /\ n \in ToSet(bu)) => FlightOnce(more, n)
  BY FlightAppend
<1> HIDE DEF none, more
<1>3. ASSUME InOne(sc, fl, le, bu, ca, n) PROVE InOne(sc, more, le, none, ca, n)
  <2>1. CASE n \in ToSet(bu)
    BY <1>1, <1>2, <1>3, <2>1 DEF InOne
  <2>2. CASE n \notin ToSet(bu)
    BY <1>1, <1>2, <1>3, <2>2 DEF InOne
  <2> QED
    BY <2>1, <2>2
<1>4. ASSUME InNone(sc, fl, le, bu, ca, n) PROVE InNone(sc, more, le, none, ca, n)
  BY <1>1, <1>2, <1>4 DEF InNone
<1>5. ASSUME InOne(sc, fl, le, bu, none, n) PROVE InOne(sc, fl, le, none, bu, n)
  BY <1>1, <1>5 DEF InOne
<1>6. ASSUME InNone(sc, fl, le, bu, none, n) PROVE InNone(sc, fl, le, none, bu, n)
  BY <1>1, <1>6 DEF InNone
<1> QED
  BY <1>3, <1>4, <1>5, <1>6 DEF none, more

\* An event that is nowhere is buffered, the others stay where they are.
LEMMA Buffered ==
  ASSUME NEW sc, NEW fl, NEW le, NEW bu \in Seq(Numbers), NEW ca, NEW m \in Numbers, NEW n
  PROVE  /\ InNone(sc, fl, le, bu, ca, m) => InOne(sc, fl, le, Append(bu, m), ca, m)
         /\ n # m /\ InOne(sc, fl, le, bu, ca, n) => InOne(sc, fl, le, Append(bu, m), ca, n)
         /\ n # m /\ InNone(sc, fl, le, bu, ca, n) => InNone(sc, fl, le, Append(bu, m), ca, n)
<1> DEFINE more == Append(bu, m)
<1>1. ToSet(more) = ToSet(bu) \cup {m}
  BY ToSetFacts
<1> HIDE DEF more
<1>2. ASSUME InNone(sc, fl, le, bu, ca, m) PROVE InOne(sc, fl, le, more, ca, m)
  <2>1. ~OnScreen(sc, m) /\ ~InFlight(fl, m) /\ m \notin le /\ m \notin ToSet(ca)
    BY <1>2 DEF InNone
  <2>2. ScreenOnce(sc, m) /\ FlightOnce(fl, m)
    BY <2>1, InNoneOnce
  <2> QED
    BY <1>1, <2>1, <2>2 DEF InOne
<1>3. ASSUME n # m, InOne(sc, fl, le, bu, ca, n) PROVE InOne(sc, fl, le, more, ca, n)
  BY <1>1, <1>3 DEF InOne
<1>4. ASSUME n # m, InNone(sc, fl, le, bu, ca, n) PROVE InNone(sc, fl, le, more, ca, n)
  BY <1>1, <1>4 DEF InNone
<1> QED
  BY <1>2, <1>3, <1>4 DEF more

\* A row of the ledger.
LEMMA Recorded ==
  ASSUME NEW sc, NEW fl, NEW le, NEW bu, NEW ca, NEW m, NEW n
  PROVE  /\ InNone(sc, fl, le, bu, ca, m) => InOne(sc, fl, le \cup {m}, bu, ca, m)
         /\ n # m /\ InOne(sc, fl, le, bu, ca, n) => InOne(sc, fl, le \cup {m}, bu, ca, n)
         /\ n # m /\ InNone(sc, fl, le, bu, ca, n) => InNone(sc, fl, le \cup {m}, bu, ca, n)
<1>2. ASSUME InNone(sc, fl, le, bu, ca, m) PROVE InOne(sc, fl, le \cup {m}, bu, ca, m)
  <2>1. ~OnScreen(sc, m) /\ ~InFlight(fl, m) /\ m \notin ToSet(bu) /\ m \notin ToSet(ca)
    BY <1>2 DEF InNone
  <2>2. ScreenOnce(sc, m) /\ FlightOnce(fl, m)
    BY <2>1, InNoneOnce
  <2> QED
    BY <2>1, <2>2 DEF InOne
<1>3. ASSUME n # m, InOne(sc, fl, le, bu, ca, n) PROVE InOne(sc, fl, le \cup {m}, bu, ca, n)
  BY <1>3 DEF InOne
<1>4. ASSUME n # m, InNone(sc, fl, le, bu, ca, n) PROVE InNone(sc, fl, le \cup {m}, bu, ca, n)
  BY <1>4 DEF InNone
<1> QED
  BY <1>2, <1>3, <1>4

-----------------------------------------------------------------------------
\* The records.
LEMMA NoStreamIs == NoStream \in Streams /\ NoStream.id = 0 /\ ToSet(NoStream.items) = {} /\ NoStream.items = <<>>
<1> DEFINE none == <<>>
<1>1. none \in Seq(Numbers) /\ ToSet(none) = {} /\ NoStream = [on |-> FALSE, items |-> none, id |-> 0]
  BY NothingIn DEF NoStream
<1> HIDE DEF none
<1>2. NoStream \in Streams /\ NoStream.id = 0 /\ ToSet(NoStream.items) = {} /\ NoStream.items = none
  BY <1>1 DEF Streams
<1> QED
  BY <1>2 DEF none

LEMMA RestIs ==
  /\ Rest \in HandledEvents /\ Rest.pc = "rest" /\ Rest.n = 0 /\ Rest.kind = "none" /\ Rest.carry = <<>> /\ Rest.stream = NoStream
<1> DEFINE none == <<>>
<1>1. none \in Seq(Numbers) /\ 0 \in 0..MaxEvents /\ NoStream \in Streams
  BY NothingIn, NoStreamIs, OutputBounds
<1>2. Rest = [pc |-> "rest", n |-> 0, kind |-> "none", carry |-> none, stream |-> NoStream]
  BY DEF Rest
<1> HIDE DEF none
<1>3. Rest \in HandledEvents /\ Rest.pc = "rest" /\ Rest.n = 0 /\ Rest.kind = "none" /\ Rest.carry = none /\ Rest.stream = NoStream
  BY <1>1, <1>2 DEF HandledEvents
<1> QED
  BY <1>3 DEF none

LEMMA EventIs ==
  ASSUME OInv, out_past.events < MaxEvents, NEW sort \in OutputKinds
  PROVE  /\ Event(sort) \in HandledEvents /\ Event(sort).n = out_past.events + 1 /\ Event(sort).kind = sort
         /\ Event(sort).carry = <<>> /\ Event(sort).stream = NoStream
<1> DEFINE n == out_past.events + 1
<1>1. n \in 0..MaxEvents
  BY OutputBounds DEF OInv, OutTyped, OutPast
<1>2. Event(sort) = [Rest EXCEPT !.n = n, !.kind = sort]
  BY DEF Event
<1> HIDE DEF n
<1>3. /\ Event(sort) \in HandledEvents /\ Event(sort).n = n /\ Event(sort).kind = sort
      /\ Event(sort).carry = Rest.carry /\ Event(sort).stream = Rest.stream
  BY <1>1, <1>2, RestIs DEF HandledEvents
<1> QED
  BY <1>3, RestIs DEF n

LEMMA CarryWith ==
  ASSUME NEW e \in HandledEvents, NEW pc \in {"rest", "flush", "push", "settle", "reply"}, NEW carry \in Seq(Numbers),
         NEW f, f = [e EXCEPT !.carry = carry, !.pc = pc]
  PROVE  f \in HandledEvents /\ f.pc = pc /\ f.n = e.n /\ f.kind = e.kind /\ f.carry = carry /\ f.stream = e.stream
BY DEF HandledEvents

LEMMA StreamWith ==
  ASSUME NEW e \in HandledEvents, NEW st \in Streams, NEW f, f = [e EXCEPT !.stream = st]
  PROVE  f \in HandledEvents /\ f.pc = e.pc /\ f.n = e.n /\ f.kind = e.kind /\ f.carry = e.carry /\ f.stream = st
BY DEF HandledEvents

LEMMA OutFails ==
  ASSUME OInv
  PROVE  /\ out_past \in OutPast /\ out_past.events \in Nat
         /\ Fails => out_past' \in OutPast /\ out_past'.events = out_past.events
<1>1. out_past \in OutPast /\ out_past.events \in Nat
  BY OutputBounds DEF OInv, OutTyped, OutPast
<1>2. ASSUME Fails PROVE out_past' \in OutPast /\ out_past'.events = out_past.events
  <2> DEFINE m == out_past.failures + 1
  <2>1. m \in 0..MaxOutputFailures
    BY <1>1, <1>2, OutputBounds DEF Fails, OutPast
  <2>2. out_past' = [out_past EXCEPT !.failures = m]
    BY <1>2 DEF Fails
  <2> HIDE DEF m
  <2> QED
    BY <1>1, <2>1, <2>2 DEF OutPast
<1> QED
  BY <1>1, <1>2

LEMMA OutFacts ==
  ASSUME OInv
  PROVE  /\ event \in HandledEvents /\ event.carry \in Seq(Numbers) /\ event.stream \in Streams
         /\ event.pc \in {"rest", "flush", "push", "settle", "reply"} /\ event.n \in Nat
         /\ event.stream.items \in Seq(Numbers) /\ stream \in Streams /\ stream.items \in Seq(Numbers)
         /\ buffer \in Seq(Numbers) /\ flights \in Seq(Seq(Numbers)) /\ screen \in Seq(Shown)
         /\ said \in SaidSets /\ said.traces \subseteq Numbers /\ said.replies \subseteq Numbers
         /\ EventInOrder(event, stream)
<1>1. OutTyped
  BY DEF OInv
<1>2. event \in HandledEvents /\ stream \in Streams /\ said \in SaidSets
  BY <1>1 DEF OutTyped
<1>3. event.carry \in Seq(Numbers) /\ event.stream \in Streams /\ event.n \in 0..MaxEvents
      /\ event.pc \in {"rest", "flush", "push", "settle", "reply"}
  BY <1>2 DEF HandledEvents
<1>4. event.n \in Nat
  BY <1>3, OutputBounds
<1>5. event.stream.items \in Seq(Numbers) /\ stream.items \in Seq(Numbers)
  BY <1>2, <1>3 DEF Streams
<1>6. said.traces \subseteq Numbers /\ said.replies \subseteq Numbers
  BY <1>2 DEF SaidSets
<1> QED
  BY <1>1, <1>2, <1>3, <1>4, <1>5, <1>6 DEF OInv, OutTyped

\* A stream's message is where it was, when messages are added.
LEMMA TextOnlyStays ==
  ASSUME NEW st, NEW sc, NEW sc2, NEW sa, TextOnly(st, sc, sa),
         \A i \in DOMAIN sc : i \in DOMAIN sc2 /\ sc2[i] = sc[i]
  PROVE  TextOnly(st, sc2, sa)
BY DEF TextOnly

LEMMA NoTextOnly == ASSUME NEW sc, NEW sa PROVE TextOnly(NoStream, sc, sa)
BY NoStreamIs DEF TextOnly

-----------------------------------------------------------------------------
\* Steps that move events from one place to another.
LEMMA Relocated ==
  ASSUME OInv, OutTyped', EventInOrder(event', stream'),
         stream' = stream, said' = said, out_past'.events = out_past.events,
         event'.n = event.n, event'.kind = event.kind, event'.stream = event.stream, event'.pc = "rest" <=> event.pc = "rest",
         \A n : InOne(screen, flights, ledger, buffer, event.carry, n)
                  => InOne(screen', flights', ledger', buffer', event'.carry, n),
         \A n : InNone(screen, flights, ledger, buffer, event.carry, n)
                  => InNone(screen', flights', ledger', buffer', event'.carry, n),
         \A i \in DOMAIN screen : i \in DOMAIN screen' /\ screen'[i] = screen[i]
  PROVE  OInv'
<1>1. AllInOne(said'.traces \cup (said'.replies \ {event'.n}), screen', flights', ledger', buffer', event'.carry)
  BY DEF OInv, AllInOne
<1>2. LaterUnused(out_past'.events, screen', flights', ledger', buffer', event'.carry, stream', event'.stream, said')
  BY DEF OInv, LaterUnused, Unused
<1>3. HandledUnused(event', out_past'.events, screen', flights', ledger', buffer', event'.carry, stream', said')
  BY DEF OInv, HandledUnused, Unused
<1>4. TextOnly(stream', screen', said') /\ TextOnly(event'.stream, screen', said')
  <2>1. TextOnly(stream, screen, said) /\ TextOnly(event.stream, screen, said)
    BY DEF OInv
  <2>2. TextOnly(stream, screen', said) /\ TextOnly(event.stream, screen', said)
    BY <2>1, TextOnlyStays
  <2> QED
    BY <2>2
<1> QED
  BY <1>1, <1>2, <1>3, <1>4 DEF OInv

LEMMA TimerFlushOInv == ASSUME OInv, TimerFlush PROVE OInv'
<1>1. /\ timer' = FALSE /\ buffer' = <<>> /\ UNCHANGED <<updates, event, stream, screen, ledger, said, out_past>>
      /\ flights' = IF buffer = <<>> THEN flights ELSE Append(flights, buffer)
  BY DEF TimerFlush
<1>2. flights' \in Seq(Seq(Numbers)) /\ buffer' \in Seq(Numbers)
  BY <1>1, OutFacts, NothingIn, FlightAppend
<1>3. OutTyped'
  BY <1>1, <1>2 DEF OInv, OutTyped
<1>4. ASSUME NEW n
      PROVE  /\ InOne(screen, flights, ledger, buffer, event.carry, n)
                  => InOne(screen', flights', ledger', buffer', event'.carry, n)
             /\ InNone(screen, flights, ledger, buffer, event.carry, n)
                  => InNone(screen', flights', ledger', buffer', event'.carry, n)
  <2>1. CASE buffer = <<>>
    BY <1>1, <2>1
  <2>2. CASE buffer # <<>>
    BY <1>1, <2>2, OutFacts, BufferTaken
  <2> QED
    BY <2>1, <2>2
<1>5. EventInOrder(event', stream')
  BY <1>1, OutFacts
<1> QED
  BY <1>1, <1>3, <1>4, <1>5, Relocated

LEMMA FlightLandsOInv == ASSUME OInv, FlightLands PROVE OInv'
<1>1. UNCHANGED <<updates, event, stream, buffer, timer, said>>
  BY DEF FlightLands
<1>2. PICK i \in DOMAIN flights :
        /\ flights' = RemoveAt(flights, i)
        /\ \/ Shows(flights[i]) /\ Fine /\ UNCHANGED ledger
           \/ Fails /\ ledger' = ledger \cup ToSet(flights[i]) /\ UNCHANGED screen
  BY DEF FlightLands
<1> DEFINE msg == Message(flights[i], FALSE)
<1>3. flights[i] \in Seq(Numbers) /\ msg \in Shown /\ msg.items = flights[i] /\ ToSet(flights[i]) \subseteq Numbers
  <2> DEFINE b == flights[i]
  <2>1. b \in Seq(Numbers)
    <3>1. flights \in Seq(Seq(Numbers))
      BY OutFacts
    <3> QED
      BY <3>1
  <2>2. msg = Message(b, FALSE)
    OBVIOUS
  <2> HIDE DEF b, msg
  <2>3. msg \in Shown /\ msg.items = b
    BY <2>1, <2>2, MessageShown
  <2>4. ToSet(b) \subseteq Numbers
    BY <2>1, ToSetFacts
  <2> QED
    BY <2>1, <2>3, <2>4 DEF b
<1>4. flights' \in Seq(Seq(Numbers))
  BY <1>2, OutFacts, FlightRemove
<1>5. EventInOrder(event', stream')
  BY <1>1, OutFacts
<1> HIDE DEF msg
<1>6. /\ Append(screen, msg) \in Seq(Shown) /\ \A i2 \in DOMAIN screen : i2 \in DOMAIN Append(screen, msg) /\ Append(screen, msg)[i2] = screen[i2]
      /\ \A n : ScreenGets(screen, Append(screen, msg), flights[i], n)
  BY <1>3, OutFacts, ScreenAppend
<1>7. \A n : /\ InOne(screen, flights, ledger, buffer, event.carry, n) =>
                  /\ InOne(Append(screen, msg), RemoveAt(flights, i), ledger, buffer, event.carry, n)
                  /\ InOne(screen, RemoveAt(flights, i), ledger \cup ToSet(flights[i]), buffer, event.carry, n)
             /\ InNone(screen, flights, ledger, buffer, event.carry, n) =>
                  /\ InNone(Append(screen, msg), RemoveAt(flights, i), ledger, buffer, event.carry, n)
                  /\ InNone(screen, RemoveAt(flights, i), ledger \cup ToSet(flights[i]), buffer, event.carry, n)
  BY <1>6, OutFacts, FlightTaken
<1>8. CASE Shows(flights[i]) /\ Fine /\ UNCHANGED ledger
  <2>1. screen' = Append(screen, msg) /\ ledger' = ledger /\ out_past' = out_past
    BY <1>8 DEF Shows, Fine, msg
  <2>2. OutTyped'
    BY <1>1, <1>4, <1>6, <2>1 DEF OInv, OutTyped
  <2> QED
    BY <1>1, <1>2, <1>5, <1>6, <1>7, <2>1, <2>2, Relocated
<1>9. CASE Fails /\ ledger' = ledger \cup ToSet(flights[i]) /\ UNCHANGED screen
  <2>1. out_past' \in OutPast /\ out_past'.events = out_past.events
    BY <1>9, OutFails
  <2>2. OutTyped'
    BY <1>1, <1>3, <1>4, <1>9, <2>1 DEF OInv, OutTyped
  <2> QED
    BY <1>1, <1>2, <1>5, <1>7, <1>9, <2>1, <2>2, Relocated
<1> QED
  BY <1>2, <1>8, <1>9

LEMMA CarryLandsOInv == ASSUME OInv, CarryLands PROVE OInv'
<1> DEFINE pc == IF event.kind = "text" THEN "push" ELSE "reply"
           none == <<>>
<1>1. /\ event.pc = "flush" /\ event' = [event EXCEPT !.carry = none, !.pc = pc]
      /\ UNCHANGED <<updates, stream, buffer, timer, flights, said>>
      /\ \/ Shows(event.carry) /\ Fine /\ UNCHANGED ledger
         \/ Fails /\ ledger' = ledger \cup ToSet(event.carry) /\ UNCHANGED screen
  BY DEF CarryLands
<1>2. none \in Seq(Numbers) /\ pc \in {"push", "reply"} /\ pc \in {"rest", "flush", "push", "settle", "reply"}
      /\ (pc = "push" <=> event.kind = "text")
  BY NothingIn
<1> HIDE DEF pc, none
<1>3. /\ event' \in HandledEvents /\ event'.pc = pc /\ event'.n = event.n /\ event'.kind = event.kind
      /\ event'.carry = none /\ event'.stream = event.stream
  <2>1. event \in HandledEvents
    BY OutFacts
  <2> QED
    BY <1>1, <1>2, <2>1 DEF HandledEvents
<1>4. EventInOrder(event', stream')
  BY <1>1, <1>2, <1>3, OutFacts DEF EventInOrder, none
<1> DEFINE msg == Message(event.carry, FALSE)
<1>5. msg \in Shown /\ msg.items = event.carry /\ ToSet(event.carry) \subseteq Numbers
  BY OutFacts, MessageShown, ToSetFacts
<1> HIDE DEF msg
<1>6. /\ Append(screen, msg) \in Seq(Shown) /\ \A i2 \in DOMAIN screen : i2 \in DOMAIN Append(screen, msg) /\ Append(screen, msg)[i2] = screen[i2]
      /\ \A n : ScreenGets(screen, Append(screen, msg), event.carry, n)
  BY <1>5, OutFacts, ScreenAppend
<1>7. \A n : /\ InOne(screen, flights, ledger, buffer, event.carry, n) =>
                  /\ InOne(Append(screen, msg), flights, ledger, buffer, none, n)
                  /\ InOne(screen, flights, ledger \cup ToSet(event.carry), buffer, none, n)
             /\ InNone(screen, flights, ledger, buffer, event.carry, n) =>
                  /\ InNone(Append(screen, msg), flights, ledger, buffer, none, n)
                  /\ InNone(screen, flights, ledger \cup ToSet(event.carry), buffer, none, n)
  BY <1>6, CarryTaken DEF none
<1>8. event'.pc = "rest" <=> event.pc = "rest"
  BY <1>1, <1>2, <1>3
<1>9. CASE Shows(event.carry) /\ Fine /\ UNCHANGED ledger
  <2>1. screen' = Append(screen, msg) /\ ledger' = ledger /\ out_past' = out_past
    BY <1>9 DEF Shows, Fine, msg
  <2>2. OutTyped'
    BY <1>1, <1>3, <1>6, <2>1 DEF OInv, OutTyped
  <2> QED
    BY <1>1, <1>3, <1>4, <1>6, <1>7, <1>8, <2>1, <2>2, Relocated
<1>10. CASE Fails /\ ledger' = ledger \cup ToSet(event.carry) /\ UNCHANGED screen
  <2>1. out_past' \in OutPast /\ out_past'.events = out_past.events
    BY <1>10, OutFails
  <2>2. OutTyped'
    BY <1>1, <1>3, <1>5, <1>10, <2>1 DEF OInv, OutTyped
  <2> QED
    BY <1>1, <1>3, <1>4, <1>7, <1>8, <1>10, <2>1, <2>2, Relocated
<1> QED
  BY <1>1, <1>9, <1>10

-----------------------------------------------------------------------------
\* An event comes in.
LEMMA TextOnlyMore ==
  ASSUME NEW st, NEW sc, NEW sa, NEW sa2, NEW k, TextOnly(st, sc, sa),
         sa2.traces \cup sa2.replies \subseteq sa.traces \cup sa.replies \cup {k},
         k \notin ToSet(st.items), ~OnScreen(sc, k)
  PROVE  TextOnly(st, sc, sa2)
BY DEF TextOnly, OnScreen

LEMMA EventAtRest ==
  ASSUME OInv, event.pc = "rest", out_past.events < MaxEvents
  PROVE  /\ event = Rest /\ event.n = 0 /\ event.carry = <<>> /\ event.stream = NoStream
         /\ out_past.events + 1 \in Numbers /\ out_past.events + 1 \in 0..MaxEvents /\ out_past.events \in Nat
<1>1. event = Rest
  BY OutFacts DEF EventInOrder
<1>2. out_past.events \in Nat /\ MaxEvents \in Nat
  BY OutFails, OutputBounds
<1> QED
  BY <1>1, <1>2, RestIs DEF Numbers

LEMMA ArrivalOInv ==
  ASSUME OInv, event.pc = "rest", out_past.events < MaxEvents,
         NEW k, k = out_past.events + 1, out_past'.events = k,
         OutTyped', EventInOrder(event', stream'), event'.pc # "rest", event'.n = k,
         UNCHANGED <<flights, screen, ledger>>,
         stream' \in {stream, NoStream}, event'.stream \in {stream, NoStream},
         said'.traces = said.traces,
         said'.replies = said.replies \/ (said'.replies = said.replies \cup {k} /\ event'.kind = "reply"),
         \A n : InOne(screen, flights, ledger, buffer, event.carry, n)
                  => InOne(screen, flights, ledger, buffer', event'.carry, n),
         \A n : InNone(screen, flights, ledger, buffer, event.carry, n)
                  => InNone(screen, flights, ledger, buffer', event'.carry, n)
  PROVE  OInv'
<1>1. event.n = 0 /\ k \in Numbers /\ out_past.events \in Nat
  BY EventAtRest
<1>2. 0 \notin Numbers
  BY OutputBounds DEF Numbers
<1>3. \A n \in Numbers : n > out_past.events =>
          /\ InNone(screen, flights, ledger, buffer, event.carry, n)
          /\ n \notin ToSet(stream.items) /\ n \notin said.traces /\ n \notin said.replies
  BY DEF OInv, LaterUnused, Unused
<1>4. k > out_past.events /\ k <= k /\ \A n \in Numbers : n > k => n > out_past.events /\ n # k
  BY <1>1 DEF Numbers
<1>5. AllInOne(said.traces \cup said.replies, screen, flights, ledger, buffer, event.carry)
  <2>1. said.replies \ {event.n} = said.replies
    BY <1>1, <1>2, OutFacts
  <2> QED
    BY <2>1 DEF OInv
<1>6. AllInOne(said'.traces \cup (said'.replies \ {event'.n}), screen', flights', ledger', buffer', event'.carry)
  BY <1>5 DEF AllInOne
<1>7. ToSet(NoStream.items) = {}
  BY NoStreamIs
<1>8. LaterUnused(out_past'.events, screen', flights', ledger', buffer', event'.carry, stream', event'.stream, said')
  <2> SUFFICES ASSUME NEW n \in Numbers, n > k
               PROVE  Unused(n, screen, flights, ledger, buffer', event'.carry, stream', event'.stream, said') /\ n \notin said'.replies
    BY DEF LaterUnused
  <2> QED
    BY <1>3, <1>4, <1>7 DEF Unused
<1>9. HandledUnused(event', out_past'.events, screen', flights', ledger', buffer', event'.carry, stream', said')
  <2>1. InNone(screen, flights, ledger, buffer, event.carry, k)
        /\ k \notin ToSet(stream.items) /\ k \notin said.traces /\ k \notin said.replies
    BY <1>1, <1>3, <1>4
  <2>2. Unused(k, screen, flights, ledger, buffer', event'.carry, stream', event'.stream, said')
    BY <1>7, <2>1 DEF Unused
  <2> QED
    BY <1>1, <1>4, <2>1, <2>2 DEF HandledUnused
<1>10. TextOnly(stream', screen', said') /\ TextOnly(event'.stream, screen', said')
  <2>1. TextOnly(stream, screen, said)
    BY DEF OInv
  <2>2. k \notin ToSet(stream.items) /\ ~OnScreen(screen, k)
    BY <1>1, <1>3, <1>4 DEF InNone
  <2>3. said'.traces \cup said'.replies \subseteq said.traces \cup said.replies \cup {k}
    OBVIOUS
  <2>4. TextOnly(stream, screen, said') /\ TextOnly(NoStream, screen, said')
    BY <2>1, <2>2, <2>3, TextOnlyMore, NoTextOnly
  <2> QED
    BY <2>4
<1> QED
  BY <1>6, <1>8, <1>9, <1>10 DEF OInv

\* The bound that an arrival counts up.
LEMMA ArrivesFacts ==
  ASSUME OInv, NEW sort, Arrives(sort)
  PROVE  /\ event.pc = "rest" /\ out_past.events < MaxEvents
         /\ out_past' \in OutPast /\ out_past'.events = out_past.events + 1
<1>1. event.pc = "rest" /\ out_past.events < MaxEvents /\ out_past' = [out_past EXCEPT !.events = out_past.events + 1]
  BY DEF Arrives
<1> DEFINE k == out_past.events + 1
<1>2. k \in 0..MaxEvents
  BY <1>1, EventAtRest
<1>3. out_past' = [out_past EXCEPT !.events = k]
  BY <1>1
<1> HIDE DEF k
<1>4. out_past' \in OutPast /\ out_past'.events = k
  BY <1>2, <1>3, OutFails DEF OutPast
<1> QED
  BY <1>1, <1>4 DEF k

\* The handler takes the buffer with it.
LEMMA TakeBufferFacts ==
  ASSUME OInv, event.pc = "rest", out_past.events < MaxEvents, NEW pc \in {"push", "reply"}, NEW e \in HandledEvents, TakeBuffer(pc, e)
  PROVE  /\ event' \in HandledEvents /\ event'.n = e.n /\ event'.kind = e.kind /\ event'.stream = e.stream
         /\ event'.pc \in {pc, "flush"} /\ (event'.pc # "flush" => event'.carry = <<>>)
         /\ timer' \in BOOLEAN /\ buffer' \in Seq(Numbers)
         /\ \A n : InOne(screen, flights, ledger, buffer, event.carry, n)
                     => InOne(screen, flights, ledger, buffer', event'.carry, n)
         /\ \A n : InNone(screen, flights, ledger, buffer, event.carry, n)
                     => InNone(screen, flights, ledger, buffer', event'.carry, n)
<1> DEFINE none == <<>>
           pc2 == IF buffer = none THEN pc ELSE "flush"
<1>1. timer' = FALSE /\ buffer' = none /\ event' = [e EXCEPT !.carry = buffer, !.pc = pc2]
  BY DEF TakeBuffer
<1>2. pc2 \in {"rest", "flush", "push", "settle", "reply"} /\ pc2 \in {pc, "flush"} /\ (pc2 # "flush" => buffer = none)
      /\ none \in Seq(Numbers) /\ buffer \in Seq(Numbers) /\ event.carry = none
  BY NothingIn, OutFacts, EventAtRest
<1>3. \A n : /\ InOne(screen, flights, ledger, buffer, none, n) => InOne(screen, flights, ledger, none, buffer, n)
             /\ InNone(screen, flights, ledger, buffer, none, n) => InNone(screen, flights, ledger, none, buffer, n)
  BY OutFacts, BufferTaken
<1> HIDE DEF none, pc2
<1>4. event' \in HandledEvents /\ event'.n = e.n /\ event'.kind = e.kind /\ event'.stream = e.stream
      /\ event'.carry = buffer /\ event'.pc = pc2
  BY <1>1, <1>2 DEF HandledEvents
<1>5. /\ \A n : InOne(screen, flights, ledger, buffer, event.carry, n)
                     => InOne(screen, flights, ledger, buffer', event'.carry, n)
      /\ \A n : InNone(screen, flights, ledger, buffer, event.carry, n)
                     => InNone(screen, flights, ledger, buffer', event'.carry, n)
  BY <1>1, <1>2, <1>3, <1>4
<1> QED
  BY <1>1, <1>2, <1>4, <1>5 DEF none

LEMMA HandleTextOInv == ASSUME OInv, HandleText PROVE OInv'
<1>1. /\ Arrives("text") /\ UNCHANGED <<updates, stream, flights, screen, ledger, said>>
      /\ \/ stream.on /\ event' = [Event("text") EXCEPT !.pc = "push"] /\ UNCHANGED <<buffer, timer>>
         \/ TakeBuffer("push", Event("text"))
  BY DEF HandleText
<1>2. event.pc = "rest" /\ out_past.events < MaxEvents /\ out_past' \in OutPast /\ out_past'.events = out_past.events + 1
  BY <1>1, ArrivesFacts
<1>3. event.carry = <<>> /\ event.stream = NoStream
  BY <1>2, EventAtRest
<1> DEFINE e == Event("text")
<1>4. "text" \in OutputKinds
  BY DEF OutputKinds
<1>5. e \in HandledEvents /\ e.n = out_past.events + 1 /\ e.kind = "text" /\ e.carry = <<>> /\ e.stream = NoStream
  BY <1>2, <1>4, EventIs
<1> HIDE DEF e
<1>6. /\ event' \in HandledEvents /\ event'.n = out_past.events + 1 /\ event'.kind = "text" /\ event'.stream = NoStream
      /\ event'.pc \in {"push", "flush"} /\ (event'.pc # "flush" => event'.carry = <<>>)
      /\ timer' \in BOOLEAN /\ buffer' \in Seq(Numbers)
      /\ \A n : InOne(screen, flights, ledger, buffer, event.carry, n)
                  => InOne(screen, flights, ledger, buffer', event'.carry, n)
      /\ \A n : InNone(screen, flights, ledger, buffer, event.carry, n)
                  => InNone(screen, flights, ledger, buffer', event'.carry, n)
  <2>1. CASE event' = [e EXCEPT !.pc = "push"] /\ UNCHANGED <<buffer, timer>>
    <3>1. event' \in HandledEvents /\ event'.n = e.n /\ event'.kind = e.kind /\ event'.stream = e.stream
          /\ event'.carry = e.carry /\ event'.pc = "push"
      BY <1>5, <2>1 DEF HandledEvents
    <3>2. timer' \in BOOLEAN /\ buffer' \in Seq(Numbers) /\ buffer' = buffer
      BY <2>1 DEF OInv, OutTyped
    <3> QED
      BY <1>3, <1>5, <3>1, <3>2
  <2>2. CASE TakeBuffer("push", e)
    <3> DEFINE pc == "push"
    <3>1. pc \in {"push", "reply"} /\ TakeBuffer(pc, e) /\ pc = "push"
      BY <2>2
    <3> HIDE DEF pc
    <3>2. /\ event' \in HandledEvents /\ event'.n = e.n /\ event'.kind = e.kind /\ event'.stream = e.stream
          /\ event'.pc \in {pc, "flush"} /\ (event'.pc # "flush" => event'.carry = <<>>)
          /\ timer' \in BOOLEAN /\ buffer' \in Seq(Numbers)
          /\ \A n : InOne(screen, flights, ledger, buffer, event.carry, n)
                     => InOne(screen, flights, ledger, buffer', event'.carry, n)
          /\ \A n : InNone(screen, flights, ledger, buffer, event.carry, n)
                     => InNone(screen, flights, ledger, buffer', event'.carry, n)
      BY <1>2, <1>5, <3>1, TakeBufferFacts
    <3> QED
      BY <1>5, <3>1, <3>2
  <2> QED
    BY <1>1, <2>1, <2>2 DEF e
<1>7. OutTyped'
  BY <1>1, <1>2, <1>6 DEF OInv, OutTyped
<1>8. EventInOrder(event', stream')
  BY <1>6 DEF EventInOrder
<1>9. said' = said /\ stream' = stream /\ event'.pc # "rest" /\ UNCHANGED <<flights, screen, ledger>>
  BY <1>1, <1>6
<1> HIDE DEF e
<1> QED
  BY <1>2, <1>6, <1>7, <1>8, <1>9, ArrivalOInv

LEMMA HandleTraceOInv == ASSUME OInv, HandleTrace PROVE OInv'
<1> DEFINE e == Event("trace")
           pc == "settle"
<1>1. /\ Arrives("trace") /\ UNCHANGED <<updates, buffer, timer, flights, screen, ledger, said>>
      /\ stream' = NoStream /\ event' = [e EXCEPT !.pc = pc, !.stream = stream]
  BY DEF HandleTrace
<1>2. event.pc = "rest" /\ out_past.events < MaxEvents /\ out_past' \in OutPast /\ out_past'.events = out_past.events + 1
  BY <1>1, ArrivesFacts
<1>3. event.carry = <<>> /\ event.stream = NoStream
  BY <1>2, EventAtRest
<1>4. "trace" \in OutputKinds
  BY DEF OutputKinds
<1>5. e \in HandledEvents /\ e.n = out_past.events + 1 /\ e.kind = "trace" /\ e.carry = <<>> /\ stream \in Streams
  BY <1>2, <1>4, EventIs, OutFacts
<1>6. pc = "settle" /\ pc \in {"rest", "flush", "push", "settle", "reply"}
  OBVIOUS
<1> HIDE DEF e, pc
<1>7. event' \in HandledEvents /\ event'.n = e.n /\ event'.kind = e.kind /\ event'.stream = stream
      /\ event'.carry = e.carry /\ event'.pc = pc
  BY <1>1, <1>5, <1>6 DEF HandledEvents
<1>8. OutTyped'
  BY <1>1, <1>2, <1>7, NoStreamIs DEF OInv, OutTyped
<1>9. EventInOrder(event', stream')
  BY <1>1, <1>5, <1>6, <1>7 DEF EventInOrder
<1>10. /\ said' = said /\ event'.pc # "rest" /\ UNCHANGED <<flights, screen, ledger, buffer>>
       /\ event'.carry = event.carry /\ event'.n = out_past.events + 1
  BY <1>1, <1>3, <1>5, <1>6, <1>7
<1> QED
  BY <1>1, <1>2, <1>7, <1>8, <1>9, <1>10, ArrivalOInv

LEMMA HandleResultOInv == ASSUME OInv, NEW sort \in {"reply", "empty"}, HandleResult(sort) PROVE OInv'
<1> DEFINE e == Event(sort)
           f == [e EXCEPT !.stream = stream]
           pc == "reply"
           k == out_past.events + 1
<1>1. /\ Arrives(sort) /\ UNCHANGED <<updates, flights, screen, ledger>> /\ stream' = NoStream
      /\ said' = (IF sort = "reply" THEN [said EXCEPT !.replies = said.replies \cup {k}] ELSE said)
      /\ TakeBuffer(pc, f)
  BY DEF HandleResult
<1>2. event.pc = "rest" /\ out_past.events < MaxEvents /\ out_past' \in OutPast /\ out_past'.events = k
  BY <1>1, ArrivesFacts
<1>3. event.carry = <<>> /\ event.stream = NoStream /\ k \in Numbers
  BY <1>2, EventAtRest
<1>4. sort \in OutputKinds /\ pc \in {"push", "reply"} /\ pc = "reply"
  BY DEF OutputKinds
<1>5. e \in HandledEvents /\ e.n = k /\ e.kind = sort /\ e.carry = <<>> /\ stream \in Streams
  BY <1>2, <1>4, EventIs, OutFacts
<1> HIDE DEF e, k, pc
<1>6. f \in HandledEvents /\ f.n = e.n /\ f.kind = e.kind /\ f.carry = e.carry /\ f.stream = stream
  BY <1>5, StreamWith
<1> HIDE DEF f
<1>7. /\ event' \in HandledEvents /\ event'.n = f.n /\ event'.kind = f.kind /\ event'.stream = f.stream
      /\ event'.pc \in {pc, "flush"} /\ (event'.pc # "flush" => event'.carry = <<>>)
      /\ timer' \in BOOLEAN /\ buffer' \in Seq(Numbers)
      /\ \A n : InOne(screen, flights, ledger, buffer, event.carry, n)
                 => InOne(screen, flights, ledger, buffer', event'.carry, n)
      /\ \A n : InNone(screen, flights, ledger, buffer, event.carry, n)
                 => InNone(screen, flights, ledger, buffer', event'.carry, n)
  BY <1>1, <1>2, <1>4, <1>5, <1>6, TakeBufferFacts
<1>8. /\ said' \in SaidSets /\ said'.traces = said.traces
      /\ (said'.replies = said.replies \/ (said'.replies = said.replies \cup {k} /\ event'.kind = "reply"))
  <2>1. CASE sort = "reply"
    <3> DEFINE more == said.replies \cup {k}
    <3>1. said' = [said EXCEPT !.replies = more] /\ more \subseteq Numbers /\ said \in SaidSets /\ event'.kind = "reply"
      BY <1>1, <1>3, <1>5, <1>6, <1>7, <2>1, OutFacts
    <3> HIDE DEF more
    <3>2. said' \in SaidSets /\ said'.traces = said.traces /\ said'.replies = more
      BY <3>1 DEF SaidSets
    <3> QED
      BY <3>1, <3>2 DEF more
  <2>2. CASE sort # "reply"
    BY <1>1, <2>2, OutFacts
  <2> QED
    BY <2>1, <2>2
<1>9. OutTyped'
  BY <1>1, <1>2, <1>7, <1>8, NoStreamIs DEF OInv, OutTyped
<1>10. EventInOrder(event', stream')
  BY <1>1, <1>4, <1>5, <1>6, <1>7 DEF EventInOrder
<1>11. event'.pc # "rest" /\ UNCHANGED <<flights, screen, ledger>> /\ event'.n = k /\ event'.stream = stream
  BY <1>1, <1>4, <1>5, <1>6, <1>7
<1>12. k = out_past.events + 1
  BY DEF k
<1> QED
  BY <1>1, <1>2, <1>7, <1>8, <1>9, <1>10, <1>11, <1>12, ArrivalOInv

LEMMA HandleQuietOInv == ASSUME OInv, HandleQuiet PROVE OInv'
<1> DEFINE k == out_past.events + 1
           traces == said.traces \cup {k}
<1>1. /\ Arrives("quiet") /\ UNCHANGED <<updates, event, stream, flights, screen, ledger>>
      /\ buffer' = Append(buffer, k) /\ timer' = TRUE /\ said' = [said EXCEPT !.traces = traces]
  BY DEF HandleQuiet, Enqueue
<1>2. event.pc = "rest" /\ out_past.events < MaxEvents /\ out_past' \in OutPast /\ out_past'.events = k
  BY <1>1, ArrivesFacts
<1>3. event.n = 0 /\ event.stream = NoStream /\ k \in Numbers /\ k > out_past.events /\ out_past.events \in Nat
  BY <1>2, EventAtRest
<1>4. k = out_past.events + 1
  OBVIOUS
<1>5. traces \subseteq Numbers /\ said \in SaidSets /\ buffer \in Seq(Numbers)
  BY <1>3, OutFacts
<1>6. traces = said.traces \cup {k}
  OBVIOUS
<1> HIDE DEF k, traces
<1>7. said' \in SaidSets /\ said'.traces = traces /\ said'.replies = said.replies
  BY <1>1, <1>5 DEF SaidSets
<1>8. buffer' \in Seq(Numbers)
  BY <1>1, <1>3, <1>5
<1>9. OutTyped'
  BY <1>1, <1>2, <1>7, <1>8 DEF OInv, OutTyped
<1>10. \A n \in Numbers : n > out_past.events =>
          /\ InNone(screen, flights, ledger, buffer, event.carry, n)
          /\ n \notin ToSet(stream.items) /\ n \notin said.traces /\ n \notin said.replies
  BY DEF OInv, LaterUnused, Unused
<1>11. /\ InNone(screen, flights, ledger, buffer, event.carry, k)
       /\ k \notin ToSet(stream.items) /\ k \notin said.traces /\ k \notin said.replies
  BY <1>3, <1>10
<1>12. \A n : /\ InOne(screen', flights', ledger', buffer', event'.carry, k)
              /\ n # k /\ InOne(screen, flights, ledger, buffer, event.carry, n)
                   => InOne(screen', flights', ledger', buffer', event'.carry, n)
              /\ n # k /\ InNone(screen, flights, ledger, buffer, event.carry, n)
                   => InNone(screen', flights', ledger', buffer', event'.carry, n)
  BY <1>1, <1>3, <1>5, <1>11, Buffered
<1>13. AllInOne(said'.traces \cup (said'.replies \ {event'.n}), screen', flights', ledger', buffer', event'.carry)
  <2>1. \A n \in said.traces \cup (said.replies \ {event.n}) : n # k /\ InOne(screen, flights, ledger, buffer, event.carry, n)
    BY <1>11 DEF OInv, AllInOne
  <2>2. event'.n = event.n
    BY <1>1
  <2> QED
    BY <1>6, <1>7, <1>12, <2>1, <2>2 DEF AllInOne
<1>14. LaterUnused(out_past'.events, screen', flights', ledger', buffer', event'.carry, stream', event'.stream, said')
  <2> SUFFICES ASSUME NEW n \in Numbers, n > k
               PROVE  Unused(n, screen', flights', ledger', buffer', event'.carry, stream', event'.stream, said') /\ n \notin said'.replies
    BY <1>2 DEF LaterUnused
  <2>1. n > out_past.events /\ n # k
    BY <1>3, <1>4 DEF Numbers
  <2>2. InNone(screen', flights', ledger', buffer', event'.carry, n)
    BY <1>10, <1>12, <2>1
  <2>3. n \notin ToSet(NoStream.items)
    BY NoStreamIs
  <2> QED
    BY <1>1, <1>3, <1>6, <1>7, <1>10, <2>1, <2>2, <2>3 DEF Unused
<1>15. HandledUnused(event', out_past'.events, screen', flights', ledger', buffer', event'.carry, stream', said')
  BY <1>1, <1>2 DEF HandledUnused
<1>16. TextOnly(stream', screen', said') /\ TextOnly(event'.stream, screen', said')
  <2>1. TextOnly(stream, screen, said) /\ ~OnScreen(screen, k)
    BY <1>11 DEF OInv, InNone
  <2>2. said'.traces \cup said'.replies \subseteq said.traces \cup said.replies \cup {k}
    BY <1>6, <1>7
  <2>3. TextOnly(stream, screen, said') /\ TextOnly(NoStream, screen, said')
    BY <1>11, <2>1, <2>2, TextOnlyMore, NoTextOnly
  <2> QED
    BY <1>1, <1>3, <2>3
<1>17. EventInOrder(event', stream')
  BY <1>1, OutFacts
<1> QED
  BY <1>9, <1>13, <1>14, <1>15, <1>16, <1>17 DEF OInv

-----------------------------------------------------------------------------
\* An event has been handled.
LEMMA HandledOInv ==
  ASSUME OInv, event.pc # "rest", event' = Rest, OutTyped', out_past'.events = out_past.events,
         stream' = NoStream \/ TextOnly(stream', screen', said'),
         said'.replies = said.replies, said'.traces \subseteq said.traces \cup {event.n},
         \A n \in said.traces \cup (said.replies \ {event.n}) : InOne(screen', flights', ledger', buffer', <<>>, n),
         event.n \in said'.traces \cup said'.replies => InOne(screen', flights', ledger', buffer', <<>>, event.n),
         \A n \in Numbers : n > out_past.events
            => InNone(screen', flights', ledger', buffer', <<>>, n) /\ n \notin ToSet(stream'.items)
  PROVE  OInv'
<1>1. event'.pc = "rest" /\ event'.carry = <<>> /\ event'.stream = NoStream
  BY RestIs
<1>2. event.n \in Numbers /\ event.n <= out_past.events /\ out_past.events \in Nat
  BY OutFails DEF OInv, HandledUnused
<1>3. AllInOne(said'.traces \cup (said'.replies \ {event'.n}), screen', flights', ledger', buffer', event'.carry)
  <2> SUFFICES ASSUME NEW n \in said'.traces \cup said'.replies PROVE InOne(screen', flights', ledger', buffer', <<>>, n)
    BY <1>1 DEF AllInOne
  <2> QED
    OBVIOUS
<1>4. LaterUnused(out_past'.events, screen', flights', ledger', buffer', event'.carry, stream', event'.stream, said')
  <2> SUFFICES ASSUME NEW n \in Numbers, n > out_past.events
               PROVE  Unused(n, screen', flights', ledger', buffer', event'.carry, stream', event'.stream, said') /\ n \notin said'.replies
    BY DEF LaterUnused
  <2>1. n # event.n
    BY <1>2 DEF Numbers
  <2>2. n \notin said.traces /\ n \notin said.replies
    BY DEF OInv, LaterUnused, Unused
  <2>3. n \notin ToSet(NoStream.items)
    BY NoStreamIs
  <2> QED
    BY <1>1, <2>1, <2>2, <2>3 DEF Unused
<1>5. HandledUnused(event', out_past'.events, screen', flights', ledger', buffer', event'.carry, stream', said')
  BY <1>1 DEF HandledUnused
<1>6. TextOnly(stream', screen', said') /\ TextOnly(event'.stream, screen', said')
  BY <1>1, NoTextOnly
<1>7. EventInOrder(event', stream')
  BY <1>1 DEF EventInOrder
<1> QED
  BY <1>3, <1>4, <1>5, <1>6, <1>7 DEF OInv

\* What is known of the event whose handling ends.
LEMMA EndFacts ==
  ASSUME OInv, event.pc \in {"push", "settle", "reply"}
  PROVE  /\ event.n \in Numbers /\ event.n <= out_past.events /\ out_past.events \in Nat /\ event.carry = <<>>
         /\ InNone(screen, flights, ledger, buffer, <<>>, event.n)
         /\ event.n \notin ToSet(stream.items) /\ event.n \notin ToSet(event.stream.items) /\ event.n \notin said.traces
         /\ (event.kind # "reply" => event.n \notin said.replies)
         /\ \A n \in said.traces \cup (said.replies \ {event.n}) : n # event.n /\ InOne(screen, flights, ledger, buffer, <<>>, n)
         /\ \A n \in Numbers : n > out_past.events =>
              /\ n # event.n /\ InNone(screen, flights, ledger, buffer, <<>>, n)
              /\ n \notin ToSet(stream.items) /\ n \notin ToSet(event.stream.items)
<1> DEFINE none == <<>>
<1>1. event.carry = none /\ event.pc # "rest"
  BY OutFacts DEF EventInOrder
<1> HIDE DEF none
<1>2. /\ event.n \in Numbers /\ event.n <= out_past.events /\ out_past.events \in Nat
      /\ InNone(screen, flights, ledger, buffer, none, event.n)
      /\ event.n \notin ToSet(stream.items) /\ event.n \notin ToSet(event.stream.items) /\ event.n \notin said.traces
      /\ (event.kind # "reply" => event.n \notin said.replies)
  BY <1>1, OutFails DEF OInv, HandledUnused, Unused
<1>3. \A n \in said.traces \cup (said.replies \ {event.n}) : n # event.n /\ InOne(screen, flights, ledger, buffer, none, n)
  BY <1>1, <1>2 DEF OInv, AllInOne
<1>4. ASSUME NEW n \in Numbers, n > out_past.events
      PROVE  /\ n # event.n /\ InNone(screen, flights, ledger, buffer, none, n)
             /\ n \notin ToSet(stream.items) /\ n \notin ToSet(event.stream.items)
  <2>1. n # event.n
    BY <1>2, <1>4 DEF Numbers
  <2> QED
    BY <1>1, <1>4, <2>1 DEF OInv, LaterUnused, Unused
<1> QED
  BY <1>1, <1>2, <1>3, <1>4 DEF none

\* A message is posted or updated, or the call failed.
LEMMA Pushed ==
  ASSUME OInv, NEW st \in Streams, TextOnly(st, screen, said), NEW items \in Seq(Numbers), NEW open \in BOOLEAN,
         Push(items, st.id, open)
  PROVE  /\ screen' \in Seq(Shown) /\ out_past' \in OutPast /\ out_past'.events = out_past.events
         /\ \/ screen' = screen
            \/ /\ st.id = 0 /\ screen' # screen /\ Len(screen') \in DOMAIN screen' /\ Len(screen') \in Nat \ {0}
               /\ screen'[Len(screen')].items = items
               /\ \A n : ScreenGets(screen, screen', items, n)
            \/ /\ st.id # 0 /\ st.id \in DOMAIN screen' /\ screen'[st.id].items = items
               /\ \A n : n \notin ToSet(screen[st.id].items) => ScreenGets(screen, screen', items, n)
<1> DEFINE msg == Message(items, open)
<1>1. msg \in Shown /\ msg.items = items
  BY MessageShown
<1>2. screen \in Seq(Shown) /\ out_past \in OutPast
  BY OutFacts, OutFails
<1>3. \/ Fine /\ screen' = IF st.id = 0 THEN Append(screen, msg) ELSE [screen EXCEPT ![st.id] = msg]
      \/ Fails /\ UNCHANGED screen
  BY DEF Push
<1> HIDE DEF msg
<1>4. CASE Fails /\ UNCHANGED screen
  BY <1>2, <1>4, OutFails
<1>5. CASE Fine /\ screen' = IF st.id = 0 THEN Append(screen, msg) ELSE [screen EXCEPT ![st.id] = msg]
  <2>1. out_past' = out_past
    BY <1>5 DEF Fine
  <2>2. CASE st.id = 0
    <3>1. screen' = Append(screen, msg)
      BY <1>5, <2>2
    <3>2. /\ Append(screen, msg) \in Seq(Shown) /\ Append(screen, msg) # screen
          /\ Len(Append(screen, msg)) \in DOMAIN Append(screen, msg) /\ Len(Append(screen, msg)) \in Nat \ {0}
          /\ Append(screen, msg)[Len(Append(screen, msg))] = msg
          /\ \A n : ScreenGets(screen, Append(screen, msg), items, n)
      BY <1>1, <1>2, ScreenAppend
    <3> QED
      BY <1>1, <1>2, <2>1, <2>2, <3>1, <3>2
  <2>3. CASE st.id # 0
    <3> DEFINE new == [screen EXCEPT ![st.id] = msg]
    <3>1. screen' = new
      BY <1>5, <2>3
    <3>2. st.id \in DOMAIN screen
      BY <2>3 DEF TextOnly
    <3>3. new \in Seq(Shown) /\ DOMAIN new = DOMAIN screen /\ new[st.id] = msg
      BY <1>1, <1>2, <3>2
    <3>4. \A n : n \notin ToSet(screen[st.id].items) => ScreenGets(screen, new, msg.items, n)
      BY <1>1, <1>2, <3>2, ScreenReplace
    <3> HIDE DEF new
    <3> QED
      BY <1>1, <1>2, <2>1, <2>3, <3>1, <3>2, <3>3, <3>4
  <2> QED
    BY <2>2, <2>3
<1> QED
  BY <1>3, <1>4, <1>5

\* The text of a stream holds no trace and no reply, before and after.
LEMMA StreamTextOInv == ASSUME OInv, StreamText PROVE OInv'
<1> DEFINE items == Append(stream.items, event.n)
           id == IF stream.id = 0 /\ screen' # screen THEN Len(screen') ELSE stream.id
           none == <<>>
<1>1. /\ event.pc = "push" /\ event' = Rest /\ UNCHANGED <<updates, buffer, timer, flights, ledger, said>>
      /\ \/ stream' = [stream EXCEPT !.on = TRUE, !.items = items] /\ Fine /\ UNCHANGED screen
         \/ Push(items, stream.id, TRUE) /\ stream' = [on |-> TRUE, items |-> items, id |-> id]
  BY DEF StreamText
<1>2. event.kind = "text" /\ event.n \in Numbers /\ event.n \notin said.traces /\ event.n \notin said.replies
      /\ event.n <= out_past.events
  BY <1>1, EndFacts, OutFacts DEF EventInOrder
<1>3. items \in Seq(Numbers) /\ ToSet(items) = ToSet(stream.items) \cup {event.n}
      /\ stream \in Streams /\ stream.id \in Nat /\ TRUE \in BOOLEAN
  BY <1>2, OutFacts, ToSetFacts DEF Streams
<1>4. id = IF stream.id = 0 /\ screen' # screen THEN Len(screen') ELSE stream.id
  OBVIOUS
<1> HIDE DEF items, id
<1>5. TextOnly(stream, screen, said)
  BY DEF OInv
<1>6. /\ screen' \in Seq(Shown) /\ out_past' \in OutPast /\ out_past'.events = out_past.events
      /\ \/ screen' = screen
         \/ /\ stream.id = 0 /\ screen' # screen /\ Len(screen') \in DOMAIN screen' /\ Len(screen') \in Nat \ {0}
            /\ screen'[Len(screen')].items = items
            /\ \A n : ScreenGets(screen, screen', items, n)
         \/ /\ stream.id # 0 /\ stream.id \in DOMAIN screen' /\ screen'[stream.id].items = items
            /\ \A n : n \notin ToSet(screen[stream.id].items) => ScreenGets(screen, screen', items, n)
  <2>1. CASE Fine /\ UNCHANGED screen
    BY <2>1, OutFacts, OutFails DEF Fine
  <2>2. CASE Push(items, stream.id, TRUE)
    <3> DEFINE open == TRUE
    <3>1. open \in BOOLEAN /\ Push(items, stream.id, open)
      BY <2>2
    <3> HIDE DEF open
    <3> QED
      BY <1>3, <1>5, <3>1, Pushed
  <2> QED
    BY <1>1, <2>1, <2>2
<1>7. /\ stream' \in Streams /\ stream'.items = items
      /\ \/ stream'.id = stream.id /\ screen' = screen
         \/ stream'.id = id
  <2>1. CASE stream' = [stream EXCEPT !.on = TRUE, !.items = items] /\ screen' = screen
    BY <1>3, <2>1 DEF Streams
  <2>2. CASE stream' = [on |-> TRUE, items |-> items, id |-> id]
    <3>1. id \in Nat
      BY <1>3, <1>4, <1>6
    <3> QED
      BY <1>3, <2>2, <3>1 DEF Streams
  <2> QED
    BY <1>1, <2>1, <2>2
<1>8. ToSet(items) \cap (said.traces \cup said.replies) = {}
  BY <1>2, <1>3, <1>5 DEF TextOnly
<1>9. TextOnly(stream', screen', said')
  <2>1. CASE screen' = screen
    <3>1. stream'.id = stream.id
      BY <1>4, <1>7, <2>1
    <3> QED
      BY <1>1, <1>5, <1>7, <1>8, <2>1, <3>1 DEF TextOnly
  <2>2. CASE stream.id = 0 /\ screen' # screen /\ Len(screen') \in DOMAIN screen' /\ screen'[Len(screen')].items = items
    <3>1. stream'.id = Len(screen')
      BY <1>4, <1>7, <2>2
    <3> QED
      BY <1>1, <1>7, <1>8, <2>2, <3>1 DEF TextOnly
  <2>3. CASE stream.id # 0 /\ stream.id \in DOMAIN screen' /\ screen'[stream.id].items = items
    <3>1. stream'.id = stream.id
      BY <1>4, <1>7, <2>3
    <3> QED
      BY <1>1, <1>7, <1>8, <2>3, <3>1 DEF TextOnly
  <2> QED
    BY <1>6, <2>1, <2>2, <2>3
<1>10. ASSUME NEW n, n \notin ToSet(items), stream.id = 0 \/ n \notin ToSet(screen[stream.id].items)
       PROVE  /\ InOne(screen, flights, ledger, buffer, none, n) => InOne(screen', flights, ledger, buffer, none, n)
              /\ InNone(screen, flights, ledger, buffer, none, n) => InNone(screen', flights, ledger, buffer, none, n)
  <2>1. CASE screen' = screen
    BY <2>1
  <2>2. CASE ScreenGets(screen, screen', items, n)
    <3> HIDE DEF none
    <3> QED
      BY <1>10, <2>2, ScreenTakes
  <2> QED
    BY <1>6, <1>10, <2>1, <2>2
<1>11. \A n \in said.traces \cup (said.replies \ {event.n}) : InOne(screen', flights', ledger', buffer', none, n)
  <2> TAKE n \in said.traces \cup (said.replies \ {event.n})
  <2>1. InOne(screen, flights, ledger, buffer, none, n)
    BY <1>1, EndFacts
  <2>2. n \notin ToSet(items) /\ (stream.id = 0 \/ n \notin ToSet(screen[stream.id].items))
    BY <1>5, <1>8 DEF TextOnly
  <2> HIDE DEF none
  <2> QED
    BY <1>1, <1>10, <2>1, <2>2
<1>12. \A n \in Numbers : n > out_past.events
            => InNone(screen', flights', ledger', buffer', none, n) /\ n \notin ToSet(stream'.items)
  <2> SUFFICES ASSUME NEW n \in Numbers, n > out_past.events
               PROVE  InNone(screen', flights', ledger', buffer', none, n) /\ n \notin ToSet(stream'.items)
    OBVIOUS
  <2>1. n # event.n /\ InNone(screen, flights, ledger, buffer, none, n) /\ n \notin ToSet(stream.items)
    BY <1>1, EndFacts
  <2>2. n \notin ToSet(items) /\ (stream.id = 0 \/ n \notin ToSet(screen[stream.id].items))
    BY <1>3, <1>5, <2>1 DEF TextOnly, InNone, OnScreen
  <2> HIDE DEF none
  <2> QED
    BY <1>1, <1>7, <1>10, <2>1, <2>2
<1>13. OutTyped'
  BY <1>1, <1>6, <1>7, RestIs DEF OInv, OutTyped
<1>14. event.n \notin said'.traces \cup said'.replies
  BY <1>1, <1>2
<1> QED
  BY <1>1, <1>6, <1>9, <1>11, <1>12, <1>13, <1>14, HandledOInv

\* The text of the stream the event took with it stands as a message, and the
\* event is buffered behind it.
LEMMA SettleStreamOInv == ASSUME OInv, SettleStream PROVE OInv'
<1> DEFINE items == event.stream.items
           more == said.traces \cup {event.n}
           none == <<>>
<1>1. /\ event.pc = "settle" /\ event' = Rest /\ UNCHANGED <<updates, stream, flights, ledger>>
      /\ \/ Push(items, event.stream.id, FALSE)
         \/ Fine /\ UNCHANGED screen
      /\ buffer' = Append(buffer, event.n) /\ timer' = TRUE /\ said' = [said EXCEPT !.traces = more]
  BY DEF SettleStream, Enqueue
<1>2. event.kind = "trace" /\ stream = NoStream /\ items \in Seq(Numbers) /\ event.stream \in Streams
      /\ said \in SaidSets /\ buffer \in Seq(Numbers)
  BY <1>1, OutFacts DEF EventInOrder
<1>3. /\ event.n \in Numbers /\ event.n \notin ToSet(items) /\ event.n \notin said.replies
      /\ InNone(screen, flights, ledger, buffer, none, event.n)
  BY <1>1, <1>2, EndFacts
<1>4. TextOnly(event.stream, screen, said)
  BY DEF OInv
<1>5. more = said.traces \cup {event.n} /\ more \subseteq Numbers
  BY <1>3, OutFacts
<1> HIDE DEF items, more
<1>6. said' \in SaidSets /\ said'.traces = more /\ said'.replies = said.replies
  BY <1>1, <1>2, <1>5 DEF SaidSets
<1>7. buffer' \in Seq(Numbers)
  BY <1>1, <1>2, <1>3
<1>8. /\ screen' \in Seq(Shown) /\ out_past' \in OutPast /\ out_past'.events = out_past.events
      /\ \/ screen' = screen
         \/ event.stream.id = 0 /\ \A n : ScreenGets(screen, screen', items, n)
         \/ event.stream.id # 0 /\ \A n : n \notin ToSet(screen[event.stream.id].items) => ScreenGets(screen, screen', items, n)
  <2>1. CASE Fine /\ UNCHANGED screen
    BY <2>1, OutFacts, OutFails DEF Fine
  <2>2. CASE Push(items, event.stream.id, FALSE)
    <3> DEFINE open == FALSE
    <3>1. open \in BOOLEAN /\ Push(items, event.stream.id, open)
      BY <2>2
    <3> HIDE DEF open
    <3> QED
      BY <1>2, <1>4, <3>1, Pushed
  <2> QED
    BY <1>1, <2>1, <2>2
<1>9. ASSUME NEW n, n \notin ToSet(items), event.stream.id = 0 \/ n \notin ToSet(screen[event.stream.id].items)
       PROVE  /\ InOne(screen, flights, ledger, buffer, none, n) => InOne(screen', flights, ledger, buffer, none, n)
              /\ InNone(screen, flights, ledger, buffer, none, n) => InNone(screen', flights, ledger, buffer, none, n)
  <2>1. CASE screen' = screen
    BY <2>1
  <2>2. CASE ScreenGets(screen, screen', items, n)
    <3> HIDE DEF none
    <3> QED
      BY <1>9, <2>2, ScreenTakes
  <2> QED
    BY <1>8, <1>9, <2>1, <2>2
<1>10. \A n : /\ InNone(screen', flights, ledger, buffer, none, event.n) => InOne(screen', flights', ledger', buffer', none, event.n)
              /\ n # event.n /\ InOne(screen', flights, ledger, buffer, none, n) => InOne(screen', flights', ledger', buffer', none, n)
              /\ n # event.n /\ InNone(screen', flights, ledger, buffer, none, n) => InNone(screen', flights', ledger', buffer', none, n)
  <2> HIDE DEF none
  <2> QED
    BY <1>1, <1>2, <1>3, Buffered
<1>11. InOne(screen', flights', ledger', buffer', none, event.n)
  <2>1. event.stream.id = 0 \/ event.n \notin ToSet(screen[event.stream.id].items)
    BY <1>3, <1>4 DEF TextOnly, InNone, OnScreen
  <2> HIDE DEF none
  <2>2. InNone(screen', flights, ledger, buffer, none, event.n)
    BY <1>3, <1>9, <2>1
  <2> QED
    BY <1>10, <2>2
<1>12. \A n \in said.traces \cup (said.replies \ {event.n}) : InOne(screen', flights', ledger', buffer', none, n)
  <2> TAKE n \in said.traces \cup (said.replies \ {event.n})
  <2>1. n # event.n /\ InOne(screen, flights, ledger, buffer, none, n)
    BY <1>1, EndFacts
  <2>2. n \notin ToSet(items) /\ (event.stream.id = 0 \/ n \notin ToSet(screen[event.stream.id].items))
    BY <1>4 DEF TextOnly, items
  <2> HIDE DEF none
  <2> QED
    BY <1>9, <1>10, <2>1, <2>2
<1>13. \A n \in Numbers : n > out_past.events
            => InNone(screen', flights', ledger', buffer', none, n) /\ n \notin ToSet(stream'.items)
  <2> SUFFICES ASSUME NEW n \in Numbers, n > out_past.events
               PROVE  InNone(screen', flights', ledger', buffer', none, n) /\ n \notin ToSet(stream'.items)
    OBVIOUS
  <2>1. n # event.n /\ InNone(screen, flights, ledger, buffer, none, n) /\ n \notin ToSet(stream.items) /\ n \notin ToSet(items)
    BY <1>1, EndFacts DEF items
  <2>2. event.stream.id = 0 \/ n \notin ToSet(screen[event.stream.id].items)
    BY <1>4, <2>1 DEF TextOnly, InNone, OnScreen
  <2> HIDE DEF none
  <2> QED
    BY <1>1, <1>9, <1>10, <2>1, <2>2
<1>14. OutTyped'
  BY <1>1, <1>6, <1>7, <1>8, RestIs DEF OInv, OutTyped
<1>15. stream' = NoStream
  BY <1>1, <1>2
<1> QED
  BY <1>1, <1>5, <1>6, <1>8, <1>11, <1>12, <1>13, <1>14, <1>15, HandledOInv

\* The reply is shown, in place of the stream's text or by itself, or recorded.
LEMMA RepliesOInv == ASSUME OInv, Replies PROVE OInv'
<1> DEFINE items == <<event.n>>
           none == <<>>
<1>1. /\ event.pc = "reply" /\ event' = Rest /\ UNCHANGED <<updates, stream, buffer, timer, flights, said>>
      /\ \/ event.kind = "empty" /\ Fine /\ UNCHANGED <<screen, ledger>>
         \/ event.kind = "reply" /\ Push(items, event.stream.id, FALSE) /\ screen' # screen /\ UNCHANGED ledger
         \/ event.kind = "reply" /\ Fails /\ Shows(items) /\ UNCHANGED ledger
         \/ event.kind = "reply" /\ Fails /\ ledger' = ledger \cup {event.n} /\ UNCHANGED screen
  BY DEF Replies
<1>2. stream = NoStream /\ event.stream \in Streams /\ event.n \in Numbers /\ event.n \notin ToSet(event.stream.items)
      /\ InNone(screen, flights, ledger, buffer, none, event.n) /\ event.n \notin said.traces
      /\ (event.kind # "reply" => event.n \notin said.replies)
  BY <1>1, EndFacts, OutFacts DEF EventInOrder
<1>3. TextOnly(event.stream, screen, said) /\ screen \in Seq(Shown)
  BY OutFacts DEF OInv
<1>4. items \in Seq(Numbers) /\ ToSet(items) = {event.n}
  <2>1. items \in Seq(Numbers) /\ DOMAIN items = {1} /\ items[1] = event.n
    BY <1>2
  <2> HIDE DEF items
  <2> QED
    BY <2>1 DEF ToSet
<1> HIDE DEF items, none
<1>5. stream' = NoStream /\ \A n : n \notin ToSet(stream'.items)
  BY <1>1, <1>2, NoStreamIs
<1>6. \A n \in said.traces \cup (said.replies \ {event.n}) : n # event.n /\ InOne(screen, flights, ledger, buffer, none, n)
  BY <1>1, EndFacts DEF none
<1>7. \A n \in Numbers : n > out_past.events => n # event.n /\ InNone(screen, flights, ledger, buffer, none, n)
  BY <1>1, EndFacts DEF none
\* It is enough to say what became of the reply and of the others.
<1>8. SUFFICES /\ screen' \in Seq(Shown) /\ out_past' \in OutPast /\ out_past'.events = out_past.events /\ ledger' \subseteq Numbers
               /\ (event.kind = "reply" => InOne(screen', flights, ledger', buffer, none, event.n))
               /\ \A n \in said.traces \cup (said.replies \ {event.n}) : InOne(screen', flights, ledger', buffer, none, n)
               /\ \A n \in Numbers : n > out_past.events => InNone(screen', flights, ledger', buffer, none, n)
  <2>1. ASSUME /\ screen' \in Seq(Shown) /\ out_past' \in OutPast /\ out_past'.events = out_past.events /\ ledger' \subseteq Numbers
               /\ (event.kind = "reply" => InOne(screen', flights, ledger', buffer, none, event.n))
               /\ \A n \in said.traces \cup (said.replies \ {event.n}) : InOne(screen', flights, ledger', buffer, none, n)
               /\ \A n \in Numbers : n > out_past.events => InNone(screen', flights, ledger', buffer, none, n)
        PROVE OInv'
    <3>1. OutTyped'
      BY <1>1, <2>1, RestIs DEF OInv, OutTyped
    <3>2. event.n \in said'.traces \cup said'.replies => InOne(screen', flights', ledger', buffer', none, event.n)
      BY <1>1, <1>2, <2>1
    <3>3. \A n \in said.traces \cup (said.replies \ {event.n}) : InOne(screen', flights', ledger', buffer', none, n)
      BY <1>1, <2>1
    <3>4. \A n \in Numbers : n > out_past.events
            => InNone(screen', flights', ledger', buffer', none, n) /\ n \notin ToSet(stream'.items)
      BY <1>1, <1>5, <2>1
    <3>5. said'.replies = said.replies /\ said'.traces \subseteq said.traces \cup {event.n}
      BY <1>1
    <3> QED
      BY <1>1, <1>5, <2>1, <3>1, <3>2, <3>3, <3>4, <3>5, HandledOInv DEF none
  <2> QED
    BY <2>1
<1>9. ledger \subseteq Numbers /\ out_past \in OutPast
  BY OutFails DEF OInv, OutTyped
<1>10. CASE event.kind = "empty" /\ Fine /\ UNCHANGED <<screen, ledger>>
  BY <1>3, <1>6, <1>7, <1>9, <1>10 DEF Fine
<1>11. ASSUME screen' \in Seq(Shown), out_past' \in OutPast, out_past'.events = out_past.events, ledger' = ledger,
              \A n : event.stream.id = 0 \/ n \notin ToSet(screen[event.stream.id].items) => ScreenGets(screen, screen', items, n)
       PROVE  /\ InOne(screen', flights, ledger', buffer, none, event.n)
              /\ \A n \in said.traces \cup (said.replies \ {event.n}) : InOne(screen', flights, ledger', buffer, none, n)
              /\ \A n \in Numbers : n > out_past.events => InNone(screen', flights, ledger', buffer, none, n)
  <2>1. InOne(screen', flights, ledger', buffer, none, event.n)
    <3>1. event.stream.id = 0 \/ event.n \notin ToSet(screen[event.stream.id].items)
      BY <1>2, <1>3 DEF TextOnly, InNone, OnScreen
    <3>2. ScreenGets(screen, screen', items, event.n)
      BY <1>11, <3>1
    <3> QED
      BY <1>2, <1>4, <1>11, <3>2, ScreenTakes
  <2>2. ASSUME NEW n \in said.traces \cup (said.replies \ {event.n}) PROVE InOne(screen', flights, ledger', buffer, none, n)
    <3>1. event.stream.id = 0 \/ n \notin ToSet(screen[event.stream.id].items)
      BY <1>3 DEF TextOnly
    <3>2. ScreenGets(screen, screen', items, n) /\ n \notin ToSet(items)
      BY <1>4, <1>6, <1>11, <3>1
    <3> QED
      BY <1>6, <1>11, <3>2, ScreenTakes
  <2>3. ASSUME NEW n \in Numbers, n > out_past.events PROVE InNone(screen', flights, ledger', buffer, none, n)
    <3>1. event.stream.id = 0 \/ n \notin ToSet(screen[event.stream.id].items)
      BY <1>3, <1>7, <2>3 DEF TextOnly, InNone, OnScreen
    <3>2. ScreenGets(screen, screen', items, n) /\ n \notin ToSet(items)
      BY <1>4, <1>7, <1>11, <2>3, <3>1
    <3> QED
      BY <1>7, <1>11, <2>3, <3>2, ScreenTakes
  <2> QED
    BY <2>1, <2>2, <2>3
<1>12. CASE event.kind = "reply" /\ Push(items, event.stream.id, FALSE) /\ screen' # screen /\ UNCHANGED ledger
  <2> DEFINE open == FALSE
  <2>1. open \in BOOLEAN /\ Push(items, event.stream.id, open)
    BY <1>12
  <2> HIDE DEF open
  <2>2. /\ screen' \in Seq(Shown) /\ out_past' \in OutPast /\ out_past'.events = out_past.events
        /\ \/ screen' = screen
           \/ \A n : ScreenGets(screen, screen', items, n)
           \/ /\ event.stream.id # 0
              /\ \A n : n \notin ToSet(screen[event.stream.id].items) => ScreenGets(screen, screen', items, n)
    BY <1>2, <1>3, <1>4, <2>1, Pushed
  <2>3. \A n : event.stream.id = 0 \/ n \notin ToSet(screen[event.stream.id].items) => ScreenGets(screen, screen', items, n)
    BY <1>12, <2>2
  <2> QED
    BY <1>9, <1>11, <1>12, <2>2, <2>3
<1>13. CASE event.kind = "reply" /\ Fails /\ Shows(items) /\ UNCHANGED ledger
  <2> DEFINE msg == Message(items, FALSE)
  <2>1. screen' = Append(screen, msg)
    BY <1>13 DEF Shows
  <2>2. msg \in Shown /\ msg.items = items
    BY <1>4, MessageShown
  <2> HIDE DEF msg
  <2>3. screen' \in Seq(Shown) /\ \A n : ScreenGets(screen, screen', items, n)
    BY <1>3, <2>1, <2>2, ScreenAppend
  <2>4. out_past' \in OutPast /\ out_past'.events = out_past.events
    BY <1>13, OutFails
  <2> QED
    BY <1>9, <1>11, <1>13, <2>3, <2>4
<1>14. CASE event.kind = "reply" /\ Fails /\ ledger' = ledger \cup {event.n} /\ UNCHANGED screen
  <2>1. out_past' \in OutPast /\ out_past'.events = out_past.events
    BY <1>14, OutFails
  <2>2. /\ InOne(screen, flights, ledger', buffer, none, event.n)
        /\ \A n : n # event.n => /\ InOne(screen, flights, ledger, buffer, none, n) => InOne(screen, flights, ledger', buffer, none, n)
                                 /\ InNone(screen, flights, ledger, buffer, none, n) => InNone(screen, flights, ledger', buffer, none, n)
    BY <1>2, <1>14, Recorded
  <2> QED
    BY <1>2, <1>3, <1>6, <1>7, <1>9, <1>14, <2>1, <2>2
<1> QED
  BY <1>1, <1>10, <1>12, <1>13, <1>14

-----------------------------------------------------------------------------
LEMMA OutputSteps == ASSUME OInv, [OutputNext]_out_vars PROVE OInv'
<1>1. CASE UNCHANGED out_vars
  BY <1>1 DEF out_vars, OInv, OutTyped, EventInOrder, AllInOne, LaterUnused, HandledUnused, TextOnly, Unused, InOne, InNone,
     OnScreen, ScreenOnce, InFlight, FlightOnce
<1>2. CASE OutputNext
  BY <1>2, TimerFlushOInv, FlightLandsOInv, HandleTextOInv, HandleTraceOInv, HandleQuietOInv, HandleResultOInv,
     CarryLandsOInv, StreamTextOInv, SettleStreamOInv, RepliesOInv DEF OutputNext, HandlerStep
<1> QED
  BY <1>1, <1>2

LEMMA OutputStarts == OutputInit => OInv
<1> SUFFICES ASSUME OutputInit PROVE OInv
  OBVIOUS
<1> DEFINE none == <<>>
           no == {}
<1>1. /\ updates \in BOOLEAN /\ event = Rest /\ stream = NoStream /\ buffer = none /\ timer = FALSE /\ flights = none /\ screen = none
      /\ ledger = {} /\ said = [traces |-> no, replies |-> no] /\ out_past = [events |-> 0, failures |-> 0]
  BY DEF OutputInit
<1>2. /\ none \in Seq(Numbers) /\ none \in Seq(Seq(Numbers)) /\ none \in Seq(Shown) /\ DOMAIN none = {} /\ ToSet(none) = {}
      /\ 0 \in 0..MaxEvents /\ 0 \in 0..MaxOutputFailures /\ no \subseteq Numbers /\ no = {}
  BY NothingIn, OutputBounds
<1>3. /\ event.pc = "rest" /\ event.carry = none /\ event.stream = NoStream /\ event \in HandledEvents
      /\ ToSet(stream.items) = {} /\ ToSet(event.stream.items) = {} /\ stream \in Streams
  BY <1>1, RestIs, NoStreamIs
<1> HIDE DEF none, no
<1>4. said \in SaidSets /\ said.traces = {} /\ said.replies = {} /\ out_past \in OutPast /\ out_past.events = 0
  BY <1>1, <1>2 DEF SaidSets, OutPast
<1>5. OutTyped
  BY <1>1, <1>2, <1>3, <1>4 DEF OutTyped
<1>6. AllInOne(said.traces \cup (said.replies \ {event.n}), screen, flights, ledger, buffer, event.carry)
  BY <1>4 DEF AllInOne
<1>7. LaterUnused(out_past.events, screen, flights, ledger, buffer, event.carry, stream, event.stream, said)
  BY <1>1, <1>2, <1>3, <1>4 DEF LaterUnused, Unused, InNone, OnScreen, InFlight
<1>8. HandledUnused(event, out_past.events, screen, flights, ledger, buffer, event.carry, stream, said)
  BY <1>3 DEF HandledUnused
<1>9. TextOnly(stream, screen, said) /\ TextOnly(event.stream, screen, said)
  BY <1>1, <1>3, NoTextOnly
<1>10. EventInOrder(event, stream)
  BY <1>1, <1>3 DEF EventInOrder, none
<1> QED
  BY <1>5, <1>6, <1>7, <1>8, <1>9, <1>10 DEF OInv

\* Whatever the timer, the handlers and the channel do, the output keeps to its
\* invariant (streaming.py, router.py).
THEOREM OutputInvariant == OutputSpec => []OInv
BY OutputStarts, OutputSteps, PTL DEF OutputSpec

\* Every trace is in one place, and every reply that has been handled
\* (streaming.py, finalize_stream_or_broadcast).
THEOREM OutputStaysSound == OutputSpec => []OutputSound
BY OutputInvariant, OutputInvSound, PTL

-----------------------------------------------------------------------------
\* Side by side: a step is one of the component whose turn it is and leaves the
\* others alone.

SideInv == TInv /\ MInv /\ BInv /\ LInv /\ OInv /\ SlackInv /\ CInv /\ WInv

LEMMA SideStarts == SideInit => SideInv
BY InitTInv, McpStarts, BrowserStarts, LoopStarts, OutputStarts, SlackStarts, CardsStart, WhatsAppStarts
DEF SideInit, SideInv

LEMMA SideComponentMoves ==
  ASSUME [SideNext]_side_vars
  PROVE  /\ [RequestNext]_request_vars /\ [McpNext]_mcp_vars /\ [BrowserNext]_browser_vars /\ [LoopNext]_loop_vars
         /\ [OutputNext]_out_vars /\ [SlackNext]_slack_vars /\ [CardsNext]_card_vars /\ [WhatsAppNext]_wa_vars
BY DEF SideNext, side_vars, agent_vars, chat_vars, RequestMoves, McpMoves, BrowserMoves, LoopMoves, OutputMoves,
  SlackMoves, CardMoves, WhatsAppMoves

\* The invariants of the eight components hold while they run side by side.
THEOREM SideInvariant == SideSpec => []SideInv
<1>1. SideInv /\ [SideNext]_side_vars => SideInv'
  BY SideComponentMoves, NextTInv, McpSteps, BrowserSteps, LoopSteps, OutputSteps, SlackSteps, CardsStep, WhatsAppSteps
  DEF SideInv
<1> QED
  BY <1>1, SideStarts, PTL DEF SideSpec

\* What the run checks of them, for every number of requests, workspaces, calls,
\* messages, events, posts, cards, crashes and failures.
THEOREM SideStaysSound ==
  SideSpec => [](RequestsSound /\ McpSound /\ BrowserSound /\ LoopSound
                  /\ OutputSound /\ NothingSkipped /\ ShownIsTaken /\ WhatsAppSound)
<1>1. TInv => RequestsSound
  BY RInvSound DEF TInv
<1>2. MInv => McpSound
  BY DEF MInv
<1>3. CInv => ShownIsTaken
  BY DEF CInv
<1>4. SideInv => /\ RequestsSound /\ McpSound /\ BrowserSound /\ LoopSound
                 /\ OutputSound /\ NothingSkipped /\ ShownIsTaken /\ WhatsAppSound
  BY <1>1, <1>2, <1>3, BrowserInvSound, LoopInvSound, OutputInvSound, SlackSkipsNothing, WhatsAppInvSound DEF SideInv
<1> QED
  BY <1>4, SideInvariant, PTL

\* Every variable of the eight components has its type.
LEMMA SideTypes == SideInv => AgentTypeOK /\ ChatTypeOK
<1>1. TInv => RequestTypeOK
  BY RequestTypes
<1>2. MInv => McpTypeOK
  BY DEF MInv
<1>3. CInv => CardsTypeOK
  BY DEF CInv
<1> QED
  BY <1>1, <1>2, <1>3, BrowserTypes, LoopTypes, TypesOfOutput, SlackTypes, WhatsAppTypes DEF SideInv, AgentTypeOK, ChatTypeOK

\* The requests, the tool servers, the browser's tools and the agent's program keep
\* their types, and no tool is called more often than the deaths of the process
\* account for (agent_side.cfg checks it of two requests).
THEOREM AgentStaysTyped == SideSpec => []AgentTypeOK
BY SideTypes, SideInvariant, PTL

\* So do the agent's output, the posts and cards of Slack, and WhatsApp.
THEOREM ChatStaysTyped == SideSpec => []ChatTypeOK
BY SideTypes, SideInvariant, PTL
=============================================================================

------------------------ MODULE MessagePipelineProofs ------------------------
(***************************************************************************)
(* Proofs about MessagePipeline for every number of groups, messages,      *)
(* retries and crashes.  The inductive invariant PInv joins the queue's    *)
(* own invariant to what the router and the runs have in hand: which       *)
(* messages a cursor may be moved over, and who still has to look at a     *)
(* message that nobody took care of.                                       *)
(***************************************************************************)
EXTENDS MessagePipeline, GroupQueueProofs, WellFoundedInduction

-----------------------------------------------------------------------------
(* The inductive invariant.                                                *)

\* Message i has been answered, or a later command moved the cursor over it.
TakenCareOf(i) == i \in done \/ PassedOver(i)

MessagesOf(g) == {i \in store : Chat(i) = g /\ Visible(i)}

\* Message i of group g is one somebody still owes a look.
Unseen(g, i) ==
  /\ ~shutting_down /\ Wakes(i) /\ i > last_agent_timestamp[g]
  /\ i \notin piped \cup gave_up /\ ~TakenCareOf(i)

\* The queue, the recovery or the run of the group will look at it.
Starting(g) == runs[g] = <<Messages>> /\ run[g].pc \in {"idle", "handoff", "fetch"}
Awaited(g) == pending_messages[g] \/ timers[g] > 0 \/ g \in booting

HandedOn(g, i) ==
  \/ Starting(g) \/ Awaited(g)
  \/ i \in run[g].missed
  \/ run[g].pc = "return" /\ run[g].outcome # "success" /\ i \in NotPolledAgain(g)
  \/ router.pc = "reconciled" /\ i \in router.batch

\* No poll and no router will bring message i up: the marker of its group covers it or
\* is about to, or a run has fetched beyond it.
Behind(g, i) ==
  \/ i <= dispatched_through[g]
  \/ router.pc = "mark" /\ Current = g /\ i <= RouteLast
  \/ /\ router.pc = "decide" /\ Current = g /\ group_folder[g] /\ runs[g] = <<Messages>>
     /\ i <= RouteLast /\ i \notin router.pending
  \/ run[g].pc = "fetched" /\ i <= RunLast(g)

Looks(g) ==
  \A i \in MessagesOf(g) : Unseen(g, i) =>
    /\ i > last_timestamp \/ i \in router.batch \/ HandedOn(g, i)
    /\ Behind(g, i) => HandedOn(g, i)

SomebodyLooks == \A g \in Groups : Looks(g)

\* What the router has in hand.
Routing == router.pc \in {"decide", "command", "enqueue", "mark"}
RouterOK ==
  /\ router.pc = "idle" => router = IdleRouter
  /\ router.pc # "idle" => router.batch # {} /\ router.batch \subseteq store
  /\ router.pc = "reconciled" => \A i, j \in router.batch : i = j
  /\ router.pc \notin {"idle", "reconciled"} => \A i \in router.batch : Visible(i)
  /\ Routing => /\ router.pending # {} /\ router.pending \subseteq MessagesOf(Current)
                /\ \A i \in router.batch : Chat(i) = Current => i <= RouteLast
  /\ router.pc = "command" => Kind(RouteLast) = "command"

\* What the run of a group has in hand.
Holding(g) == run[g].pc \in {"fetched", "command", "agent", "finalize"}
Answering(g) == run[g].pc \in {"agent", "finalize"}
RunOK(g) ==
  /\ run[g].missed \subseteq MessagesOf(g)
  /\ run[g].pc \in {"idle", "handoff", "fetch"} => run[g].missed = {}
  /\ Holding(g) => run[g].missed # {}
  /\ run[g].pc = "command" => Kind(RunLast(g)) = "command"
  /\ group_folder[g] /\ runs[g] = <<Messages>> => run[g].pc \in {"agent", "finalize", "return"}
  /\ run[g].pc = "return" /\ run[g].outcome = "success"
       => \A i \in run[g].missed : ~Wakes(i) \/ TakenCareOf(i)

\* While a run is going on only commands move the cursor.
CursorOK(g) ==
  \A i \in 1..Len(posted) : Chat(i) = g /\ i <= last_agent_timestamp[g] =>
    /\ Holding(g) /\ i > RunLast(g) => TakenCareOf(i)
    /\ Answering(g) /\ i > run[g].previous => TakenCareOf(i)

\* While the router decides about a group, what was posted after its query is either
\* beyond the cursor or in the hands of the run.
Deciding == router.pc \in {"decide", "command"}
NewerOK(g) ==
  /\ \A i \in MessagesOf(g) : i > RouteLast =>
       /\ i <= last_agent_timestamp[g] => TakenCareOf(i)
       /\ Holding(g) /\ i <= RunLast(g) => i \in run[g].missed \/ TakenCareOf(i)
       /\ Answering(g) /\ i <= run[g].previous => TakenCareOf(i)
  /\ Answering(g) => dispatched_through[g] <= RouteLast \/ dispatched_through[g] <= RunLast(g)

\* No cursor is ahead of what was posted.
Posted == 0..Len(posted)
InBounds ==
  /\ last_timestamp \in Posted /\ saved.seen \in Posted
  /\ \A g \in Groups : /\ last_agent_timestamp[g] \in Posted /\ saved.agent[g] \in Posted
                       /\ dispatched_through[g] \in Posted /\ run[g].previous \in Posted

InHand ==
  /\ InBounds /\ RouterOK
  /\ \A g \in Groups : RunOK(g) /\ CursorOK(g)
  /\ Deciding => NewerOK(Current)

PInv == IInv /\ PTypeOK /\ InHand /\ SomebodyLooks

-----------------------------------------------------------------------------
(* Max and Min.                                                            *)

\* A set of numbers that is not empty has a least element, and Min is it.
LEMMA MinIsLeast ==
  ASSUME NEW S, S \subseteq Nat, S # {}
  PROVE  Min(S) \in S /\ \A y \in S : Min(S) <= y
<1> DEFINE Below == {0..x : x \in S}
<1>1. Below \subseteq FiniteSubsetsOf(Nat) /\ Below # {}
  <2>1. \A x \in S : 0..x \subseteq Nat /\ IsFiniteSet(0..x)
    BY FS_Interval
  <2> QED
    BY <2>1 DEF FiniteSubsetsOf
<1>2. IsWellFoundedOn(StrictSubsetOrdering(Nat), FiniteSubsetsOf(Nat))
  BY FS_StrictSubsetOrderingWellFounded
<1>3. \E X \in Below : \A Y \in Below : <<Y, X>> \notin StrictSubsetOrdering(Nat)
  <2> HIDE DEF Below
  <2> QED
    BY <1>1, <1>2, WFMin
<1>4. PICK x \in S : \A y \in S : <<0..y, 0..x>> \notin StrictSubsetOrdering(Nat)
  BY <1>3
<1>5. ASSUME NEW y \in S, y < x
      PROVE  <<0..y, 0..x>> \in StrictSubsetOrdering(Nat)
  <2>1. 0..y \subseteq 0..x /\ 0..x \subseteq Nat /\ x \in 0..x /\ x \notin 0..y
    BY <1>5
  <2> QED
    BY <2>1 DEF StrictSubsetOrdering
<1>6. \A y \in S : ~(y < x)
  <2> HIDE DEF Below
  <2> QED
    BY <1>4, <1>5, Zenon
<1>7. \A y \in S : x <= y
  BY <1>6
<1> QED
  BY <1>7 DEF Min

\* A bounded set of numbers that is not empty has a greatest element, and Max is it: the
\* least of their distances from the bound is its distance.
LEMMA MaxIsGreatest ==
  ASSUME NEW n \in Nat, NEW S, S \subseteq 0..n, S # {}
  PROVE  Max(S) \in S /\ \A y \in S : y <= Max(S)
<1> DEFINE D == {n - x : x \in S}
<1>1. D \subseteq Nat /\ D # {}
  <2>1. \A x \in S : x \in 0..n /\ n - x \in Nat
    OBVIOUS
  <2> QED
    BY <2>1
<1>2. Min(D) \in D /\ \A y \in D : Min(D) <= y
  <2> HIDE DEF D
  <2> QED
    BY <1>1, MinIsLeast
<1>3. PICK x \in S : n - x = Min(D)
  BY <1>2
<1>4. \A y \in S : n - x <= n - y
  BY <1>2, <1>3
<1>5. \A y \in S : x >= y
  BY <1>4
<1> QED
  BY <1>5 DEF Max

\* The larger of two numbers.
LEMMA MaxOfTwo ==
  ASSUME NEW a \in Nat, NEW b \in Nat
  PROVE  Max({a, b}) \in {a, b} /\ Max({a, b}) >= a /\ Max({a, b}) >= b
<1>1. \E x \in {a, b} : \A y \in {a, b} : x >= y
  <2>1. CASE a >= b
    BY <2>1
  <2>2. CASE ~(a >= b)
    BY <2>2
  <2> QED
    BY <2>1, <2>2
<1> QED
  BY <1>1 DEF Max

-----------------------------------------------------------------------------
(* What the queue may do to a group while its message run stays where it is. *)

Fresh(g) == runs[g] # <<Messages>> /\ runs'[g] = <<Messages>>

StillAwaited(g) ==
  pending_messages[g] \/ timers[g] > 0 =>
    pending_messages'[g] \/ timers'[g] > 0 \/ Fresh(g) \/ shutting_down'

NoNewFolder(g) ==
  group_folder'[g] /\ runs'[g] = <<Messages>> => group_folder[g] /\ runs[g] = <<Messages>>

QueueMoves(g) ==
  /\ shutting_down => shutting_down'
  /\ runs[g] = <<Messages>> => runs'[g] = <<Messages>>
  /\ StillAwaited(g)
  /\ NoNewFolder(g)

\* After a message check somebody owes the group a run.
Checked(g) == pending_messages'[g] \/ Fresh(g) \/ shutting_down'

\* A queue whose runs, folders and pending messages are left alone.
LEMMA QuietMoves ==
  ASSUME UNCHANGED <<runs, group_folder, pending_messages, timers>>,
         shutting_down => shutting_down', NEW g \in Groups
  PROVE  QueueMoves(g)
BY DEF QueueMoves, StillAwaited, NoNewFolder

\* A message check leaves the group waiting, or starts its run.
LEMMA MessageCheckMoves ==
  ASSUME IInv, NEW g \in Groups, MessageCheck(g), NEW h \in Groups,
         UNCHANGED <<group_folder, shutting_down>>, h # g => timers'[h] = timers[h]
  PROVE  QueueMoves(h) /\ (h = g => Checked(h))
<1>1. /\ pending_messages \in [Groups -> BOOLEAN] /\ runs \in [Groups -> Seq(Work)]
      /\ \A k \in Groups : ~active[k] => Len(runs[k]) = 0 /\ ~group_folder[k]
  BY DEF IInv, TypeOK, OneRunPerGroup, FolderOfLiveRun
<1>2. CASE UNCHANGED <<pending_messages, runs>> /\ shutting_down
  BY <1>2 DEF QueueMoves, StillAwaited, NoNewFolder, Checked
<1>3. CASE pending_messages' = [pending_messages EXCEPT ![g] = TRUE] /\ UNCHANGED runs
  BY <1>1, <1>3 DEF QueueMoves, StillAwaited, NoNewFolder, Checked
<1>4. CASE /\ ~active[g] /\ pending_messages' = [pending_messages EXCEPT ![g] = FALSE]
           /\ runs' = [runs EXCEPT ![g] = Append(@, Messages)]
  <2>1. ~group_folder[g] /\ runs[g] = <<>> /\ Append(runs[g], Messages) = <<Messages>>
    BY <1>1, <1>4, FirstRun, WorkItems
  <2>2. <<>> # <<Messages>>
    OBVIOUS
  <2>3. CASE h = g
    BY <1>1, <1>4, <2>1, <2>2, <2>3 DEF QueueMoves, StillAwaited, NoNewFolder, Fresh, Checked
  <2>4. CASE h # g
    BY <1>1, <1>4, <2>4 DEF QueueMoves, StillAwaited, NoNewFolder, Fresh
  <2> QED
    BY <2>3, <2>4
<1> QED
  BY <1>2, <1>3, <1>4 DEF MessageCheck

\* enqueue_message_check, by the public name.
LEMMA EnqueueMoves ==
  ASSUME IInv, NEW g \in Groups, EnqueueMessageCheck(g), NEW h \in Groups
  PROVE  QueueMoves(h) /\ (h = g => Checked(h))
BY MessageCheckMoves DEF EnqueueMessageCheck

\* A task starts only where nothing runs.
LEMMA EnqueueTaskMoves ==
  ASSUME IInv, NEW g \in Groups, NEW t \in Tasks, EnqueueTask(g, t), NEW h \in Groups
  PROVE  QueueMoves(h)
<1>1. /\ runs \in [Groups -> Seq(Work)]
      /\ \A k \in Groups : ~active[k] => Len(runs[k]) = 0 /\ ~group_folder[k]
  BY DEF IInv, TypeOK, OneRunPerGroup, FolderOfLiveRun
<1>2. CASE UNCHANGED runs
  BY <1>2, QuietMoves DEF EnqueueTask
<1>3. CASE ~active[g] /\ runs' = [runs EXCEPT ![g] = Append(@, TaskRun(t))]
  <2>1. ~group_folder[g] /\ runs[g] = <<>> /\ Append(runs[g], TaskRun(t)) = <<TaskRun(t)>>
    BY <1>1, <1>3, FirstRun, WorkItems
  <2>2. UNCHANGED <<pending_messages, timers, group_folder, shutting_down>>
    BY DEF EnqueueTask
  <2>3. CASE h = g
    <3>1. <<TaskRun(t)>> # <<Messages>> /\ <<>> # <<Messages>>
      BY WorkItems
    <3> QED
      BY <1>1, <1>3, <2>1, <2>2, <2>3, <3>1 DEF QueueMoves, StillAwaited, NoNewFolder
  <2>4. CASE h # g
    BY <1>1, <1>3, <2>2, <2>4 DEF QueueMoves, StillAwaited, NoNewFolder
  <2> QED
    BY <2>3, <2>4
<1> QED
  BY <1>2, <1>3 DEF EnqueueTask

\* A start from the group's own backlog takes the messages first.
LEMMA StartMoves ==
  ASSUME IInv, NEW g \in Groups, NEW n, StartNextPending(g, <<>>, n), NEW h \in Groups
  PROVE  /\ h # g => UNCHANGED <<pending_messages[h], runs[h]>>
         /\ h = g => \/ runs'[h] = <<Messages>>
                     \/ ~pending_messages[h] /\ UNCHANGED pending_messages[h]
<1>1. pending_messages \in [Groups -> BOOLEAN] /\ runs \in [Groups -> Seq(Work)]
  BY DEF IInv, TypeOK
<1>2. Append(<<>>, Messages) = <<Messages>>
  OBVIOUS
<1> QED
  BY <1>1, <1>2 DEF StartNextPending, MessagesNext

\* The end of a run: what was pending is started, unless the queue shuts down.
LEMMA ReleaseMoves ==
  ASSUME IInv, NEW g \in Groups, NEW i \in 1..Len(runs[g]), ReleaseAndDrain(g, i),
         UNCHANGED shutting_down, NEW h \in Groups, timers[h] > 0 => timers'[h] > 0
  PROVE  /\ (h # g \/ runs[g][i] # Messages) => QueueMoves(h)
         /\ h = g => ~group_folder'[h]
         /\ h = g /\ pending_messages[h] => pending_messages'[h] \/ runs'[h] = <<Messages>>
<1>1. /\ pending_messages \in [Groups -> BOOLEAN] /\ runs \in [Groups -> Seq(Work)]
      /\ group_folder \in [Groups -> BOOLEAN]
      /\ Len(runs[g]) = 1
  BY DEF IInv, TypeOK, OneRunPerGroup
<1>2. i = 1 /\ runs[g] = <<runs[g][1]>> /\ WithoutRun(runs[g], i) = <<>>
  BY <1>1, WithoutOnlyRun
<1>3. runs[g][i] # Messages => runs[g] # <<Messages>>
  BY <1>2
<1>4. group_folder' = [group_folder EXCEPT ![g] = FALSE]
  BY DEF ReleaseAndDrain
<1>5. CASE MayDrain /\ StartNextPending(g, <<>>, active_count - 1)
  BY <1>1, <1>3, <1>4, <1>5, StartMoves DEF QueueMoves, StillAwaited, NoNewFolder, Fresh
<1>6. CASE runs' = [runs EXCEPT ![g] = <<>>] /\ UNCHANGED pending_messages
  <2>1. <<>> # <<Messages>>
    OBVIOUS
  <2> QED
    BY <1>1, <1>3, <1>4, <1>6, <2>1 DEF QueueMoves, StillAwaited, NoNewFolder, Fresh
<1> QED
  BY <1>2, <1>5, <1>6 DEF ReleaseAndDrain

\* The drain loop starts what a waiting group owes, messages first.
LEMMA DrainMoves ==
  ASSUME IInv, DrainWaiting, NEW h \in Groups
  PROVE  QueueMoves(h)
<1> DEFINE g == Head(waiting_groups)
<1>1. /\ waiting_groups \in Seq(Groups) /\ waiting_groups # <<>>
      /\ \A k \in Groups : Queued(waiting_groups, k) => ~active[k]
  BY DEF DrainWaiting, IInv, TypeOK, DrainLoopEntered, WaitingIsIdle
<1>2. g \in Groups /\ ~active[g]
  BY <1>1, HeadQueued
<1>3. runs[g] \in Seq(Work) /\ Len(runs[g]) = 0 /\ ~group_folder[g]
  BY <1>2 DEF IInv, TypeOK, OneRunPerGroup, FolderOfLiveRun
<1>4. runs[g] = <<>> /\ <<>> # <<Messages>>
  BY <1>3
<1>5. UNCHANGED <<group_folder, shutting_down, timers>>
  BY DEF DrainWaiting
<1>6. CASE StartNextPending(g, <<>>, active_count)
  <2> HIDE DEF g
  <2> QED
    BY <1>2, <1>3, <1>4, <1>5, <1>6, StartMoves DEF QueueMoves, StillAwaited, NoNewFolder, Fresh
<1>7. CASE UNCHANGED <<pending_messages, runs>>
  BY <1>5, <1>7, QuietMoves
<1> QED
  BY <1>4, <1>6, <1>7 DEF DrainWaiting

\* The step of the queue that the pipeline leaves to the queue.
LEMMA QueueStepMoves ==
  ASSUME IInv, QueueStep, NEW h \in Groups
  PROVE  IInv' /\ QueueMoves(h)
<1>1. IInv'
  BY NextIInv DEF QueueStep, Next
<1>2. CASE DrainWaiting
  BY <1>1, <1>2, DrainMoves
<1>3. CASE Shutdown
  BY <1>1, <1>3, QuietMoves DEF Shutdown, stateVars
<1>4. ASSUME NEW g \in Groups, NEW t \in Tasks, EnqueueTask(g, t) PROVE QueueMoves(h)
  BY <1>4, EnqueueTaskMoves
<1>5. ASSUME NEW g \in Groups, NEW i \in 1..Len(runs[g]), FinishTask(g, i) PROVE QueueMoves(h)
  BY <1>5, ReleaseMoves DEF FinishTask
<1>6. ASSUME NEW g \in Groups, RetryFires(g) PROVE QueueMoves(h)
  <2>1. h # g => timers'[h] = timers[h]
    BY <1>6 DEF RetryFires, IInv, TypeOK
  <2> QED
    BY <1>6, <2>1, MessageCheckMoves DEF RetryFires
<1>7. ASSUME NEW g \in Groups, ContainerReadsInput(g) PROVE QueueMoves(h)
  BY <1>7, QuietMoves DEF ContainerReadsInput, stateVars
<1> QED
  BY <1>1, <1>2, <1>3, <1>4, <1>5, <1>6, <1>7 DEF QueueStep

\* Follow-ups, registrations and dropped tasks leave the control state alone.
LEMMA CallsMoves ==
  ASSUME IInv, NEW g \in Groups, ~draining,
         SendMessage(g) \/ RegisterProcess(g) \/ ClearPendingTasks(g) \/ UNCHANGED vars
  PROVE  /\ IInv'
         /\ UNCHANGED <<runs, active_is_task, pending_messages, timers, shutting_down>>
         /\ ~RegisterProcess(g) => UNCHANGED group_folder
         /\ \A h \in Groups : ~RegisterProcess(g) => QueueMoves(h)
<1>1. IInv'
  BY NextIInv DEF Next
<1>2. UNCHANGED <<runs, active_is_task, pending_messages, timers, shutting_down>>
  BY DEF SendMessage, RegisterProcess, ClearPendingTasks, vars, stateVars
<1>3. ~RegisterProcess(g) => UNCHANGED group_folder
  BY DEF SendMessage, RegisterProcess, ClearPendingTasks, vars, stateVars
<1> QED
  BY <1>1, <1>2, <1>3, QuietMoves

-----------------------------------------------------------------------------
(* What is known of stored messages, of a run's and of the router's.       *)

RouterStates == [pc : {"idle", "route", "decide", "command", "enqueue", "mark", "reconciled"},
                 batch : SUBSET Ids, pending : SUBSET Ids]
RunStates == [pc : {"idle", "handoff", "fetch", "fetched", "command", "agent", "finalize", "return"},
              missed : SUBSET Ids, sent : BOOLEAN,
              outcome : {"success", "failure", "exception"}, previous : 0..MaxMessages]

\* The types of what the proofs read most.
LEMMA Stored ==
  ASSUME PTypeOK
  PROVE  /\ Len(posted) \in Nat /\ MaxMessages \in Nat /\ Len(posted) <= MaxMessages
         /\ Posted \subseteq 0..MaxMessages /\ Posted \subseteq Nat
         /\ store \subseteq 1..Len(posted) /\ 1..Len(posted) \subseteq Ids /\ Ids \subseteq Nat
         /\ store \subseteq Posted
         /\ \A i \in 1..Len(posted) : Chat(i) \in Groups /\ Kind(i) \in Kinds
         /\ router \in RouterStates /\ run \in [Groups -> RunStates]
<1>1. Len(posted) \in Nat /\ MaxMessages \in Nat /\ Len(posted) <= MaxMessages
  BY PipelineBoundsNat DEF PTypeOK
<1>2. Posted \subseteq 0..MaxMessages /\ Posted \subseteq Nat
      /\ 1..Len(posted) \subseteq Ids /\ Ids \subseteq Nat /\ 1..Len(posted) \subseteq Posted
  BY <1>1 DEF Posted, Ids
<1>3. store \subseteq 1..Len(posted) /\ \A i \in 1..Len(posted) : Chat(i) \in Groups /\ Kind(i) \in Kinds
  <2>1. posted \in Seq([chat : Groups, kind : Kinds]) /\ store \subseteq 1..Len(posted)
    BY DEF PTypeOK
  <2> DEFINE R == [chat : Groups, kind : Kinds]
  <2>2. \A i \in 1..Len(posted) : posted[i] \in R
    <3>1. posted \in Seq(R)
      BY <2>1
    <3> HIDE DEF R
    <3> QED
      BY <3>1
  <2> QED
    BY <2>1, <2>2 DEF Chat, Kind
<1>4. router \in RouterStates /\ run \in [Groups -> RunStates]
  BY DEF PTypeOK, RouterStates, RunStates
<1> QED
  BY <1>1, <1>2, <1>3, <1>4

\* A set of stored messages has a first and a last one.
LEMMA FirstAndLast ==
  ASSUME PTypeOK, NEW S, S \subseteq store, S # {}
  PROVE  /\ Max(S) \in S /\ \A i \in S : i <= Max(S)
         /\ Min(S) \in S /\ \A i \in S : Min(S) <= i
<1>1. S \subseteq Nat /\ S \subseteq 0..Len(posted) /\ Len(posted) \in Nat
  BY Stored DEF Posted
<1> QED
  BY <1>1, MaxIsGreatest, MinIsLeast

\* The last message of a run is one of its group and of its query.
LEMMA RunLastIsLast ==
  ASSUME PTypeOK, NEW g \in Groups, RunOK(g), run[g].missed # {}
  PROVE  /\ RunLast(g) \in run[g].missed /\ RunLast(g) \in MessagesOf(g)
         /\ RunLast(g) \in 1..Len(posted) /\ RunLast(g) \in Ids /\ Chat(RunLast(g)) = g
         /\ \A i \in run[g].missed : i <= RunLast(g)
<1>1. run[g].missed \subseteq MessagesOf(g) /\ MessagesOf(g) \subseteq store
  BY DEF RunOK, MessagesOf
<1>2. RunLast(g) \in run[g].missed /\ \A i \in run[g].missed : i <= RunLast(g)
  BY <1>1, FirstAndLast DEF RunLast
<1> QED
  BY <1>1, <1>2, Stored DEF MessagesOf

\* So is the last message of the router's query.
LEMMA RouteLastIsLast ==
  ASSUME PTypeOK, RouterOK, Routing
  PROVE  /\ RouteLast \in router.pending /\ RouteLast \in MessagesOf(Current)
         /\ RouteLast \in 1..Len(posted) /\ RouteLast \in Ids /\ Chat(RouteLast) = Current
         /\ \A i \in router.pending : i <= RouteLast
<1>1. /\ router.pending # {} /\ router.pending \subseteq MessagesOf(Current)
      /\ MessagesOf(Current) \subseteq store
  BY DEF RouterOK, MessagesOf
<1>2. RouteLast \in router.pending /\ \A i \in router.pending : i <= RouteLast
  BY <1>1, FirstAndLast DEF RouteLast
<1> QED
  BY <1>1, <1>2, Stored DEF MessagesOf

\* The router works on a group of its batch.
LEMMA CurrentIsGroup ==
  ASSUME PTypeOK, RouterOK, router.pc # "idle"
  PROVE  Min(router.batch) \in router.batch /\ Current \in Groups
<1>1. Min(router.batch) \in router.batch /\ router.batch \subseteq store
  BY FirstAndLast DEF RouterOK
<1> QED
  BY <1>1, Stored DEF Current

-----------------------------------------------------------------------------
(* What a step that leaves a part of the state alone keeps.                *)

\* What is taken care of stays so.
LEMMA CareStays ==
  ASSUME posted' = posted, done \subseteq done'
  PROVE  \A i : TakenCareOf(i) => TakenCareOf(i)'
BY DEF TakenCareOf, PassedOver, Chat, Kind

\* A message that nobody saw afterwards was not seen before.
LEMMA UnseenBefore ==
  ASSUME NEW g \in Groups, UNCHANGED messages, done \subseteq done',
         shutting_down => shutting_down',
         \A i \in MessagesOf(g) : i \in piped \cup gave_up => i \in piped' \cup gave_up',
         \A i \in MessagesOf(g) : i > last_agent_timestamp'[g] =>
           i > last_agent_timestamp[g] \/ TakenCareOf(i)'
  PROVE  \A i \in MessagesOf(g)' : Unseen(g, i)' => i \in MessagesOf(g) /\ Unseen(g, i)
<1>1. MessagesOf(g)' = MessagesOf(g) /\ \A i : Wakes(i)' <=> Wakes(i)
  BY DEF messages, MessagesOf, Wakes, Chat, Kind, Visible
<1>2. \A i : TakenCareOf(i) => TakenCareOf(i)'
  BY CareStays DEF messages
<1> QED
  BY <1>1, <1>2 DEF Unseen

\* Messages the polling loop will not bring to a run again, by what it looks at.
Passed(g, i) ==
  \/ i <= last_timestamp \/ i <= dispatched_through[g]
  \/ router.pc = "mark" /\ g = Current /\ i <= RouteLast

\* For a message beyond the cursor the two definitions agree.
LEMMA NotPolled ==
  ASSUME NEW g \in Groups, NEW i \in MessagesOf(g), i > last_agent_timestamp[g]
  PROVE  i \in NotPolledAgain(g) <=> Passed(g, i)
BY DEF MessagesOf, NotPolledAgain, MessagesSince, Passed

\* A message that was handed on stays so while the run of its group stays where it is.
LEMMA HandedOnStays ==
  ASSUME PTypeOK, NEW g \in Groups, NEW i \in MessagesOf(g), UNCHANGED messages,
         QueueMoves(g), ~shutting_down', run'[g] = run[g],
         g \in booting => g \in booting' \/ Checked(g),
         router.pc = "reconciled" /\ i \in router.batch => UNCHANGED router \/ Checked(g),
         i > last_agent_timestamp[g], i > last_agent_timestamp'[g],
         run[g].pc = "return" /\ Passed(g, i) => Passed(g, i)',
         HandedOn(g, i)
  PROVE  HandedOn(g, i)'
<1>1. run[g].pc # "idle" => runs[g] = <<Messages>>
  BY DEF PTypeOK
<1>2. Starting(g) => Starting(g)'
  BY DEF Starting, QueueMoves
<1>3. Fresh(g) => Starting(g)'
  BY <1>1 DEF Fresh, Starting
<1>4. Checked(g) => HandedOn(g, i)'
  BY <1>3 DEF Checked, HandedOn, Awaited
<1>5. pending_messages[g] \/ timers[g] > 0 => HandedOn(g, i)'
  BY <1>3 DEF QueueMoves, StillAwaited, HandedOn, Awaited
<1>6. i \in MessagesOf(g)'
  BY DEF messages, MessagesOf, Chat, Kind, Visible
<1>7. run[g].pc = "return" /\ i \in NotPolledAgain(g) => i \in NotPolledAgain(g)'
  <2>1. run[g].pc = "return" /\ i \in NotPolledAgain(g) => Passed(g, i)'
    BY NotPolled
  <2> QED
    BY <1>6, <2>1 DEF MessagesOf, NotPolledAgain, MessagesSince, Passed
<1> QED
  BY <1>2, <1>4, <1>5, <1>7 DEF HandedOn, Awaited

\* What a step writes into the books: cursors that are not ahead of what was posted,
\* and a history that only grows.
Books ==
  /\ UNCHANGED <<messages, crashes>>
  /\ last_timestamp' \in Posted
  /\ last_agent_timestamp' \in [Groups -> Posted] /\ dispatched_through' \in [Groups -> Posted]
  /\ saved' \in [seen : Posted, agent : [Groups -> Posted]]
  /\ reset_prompt' \in [Groups -> BOOLEAN] /\ executed' \in [Ids -> Nat] /\ booting' \subseteq Groups
  /\ done \subseteq done' /\ done' \subseteq store
  /\ piped' \subseteq store /\ gave_up' \subseteq store

\* The books before a step, in the same form.
LEMMA BooksBefore ==
  ASSUME PTypeOK, InBounds
  PROVE  /\ last_timestamp \in Posted
         /\ last_agent_timestamp \in [Groups -> Posted] /\ dispatched_through \in [Groups -> Posted]
         /\ saved \in [seen : Posted, agent : [Groups -> Posted]]
         /\ reset_prompt \in [Groups -> BOOLEAN] /\ executed \in [Ids -> Nat]
         /\ booting \subseteq Groups
         /\ done \subseteq store /\ piped \subseteq store /\ gave_up \subseteq store
<1>1. saved \in [seen : Posted, agent : [Groups -> Posted]]
  <2>1. saved \in [seen : 0..MaxMessages, agent : [Groups -> 0..MaxMessages]]
        /\ saved.seen \in Posted /\ \A g \in Groups : saved.agent[g] \in Posted
    BY DEF PTypeOK, InBounds
  <2>2. saved = [seen |-> saved.seen, agent |-> saved.agent] /\ saved.agent \in [Groups -> Posted]
    BY <2>1
  <2> QED
    BY <2>1, <2>2
<1>2. last_agent_timestamp \in [Groups -> Posted] /\ dispatched_through \in [Groups -> Posted]
  BY DEF PTypeOK, InBounds
<1> QED
  BY <1>1, <1>2 DEF PTypeOK, InBounds

\* The types follow from the books, the router and the runs.
LEMMA TypesStay ==
  ASSUME PTypeOK, Books, router' \in RouterStates, run' \in [Groups -> RunStates],
         \A g \in Groups : run'[g].pc # "idle" => runs'[g] = <<Messages>>,
         \A g \in Groups : run'[g].previous \in Posted
  PROVE  PTypeOK' /\ InBounds'
<1>1. Posted' = Posted /\ Posted \subseteq 0..MaxMessages
  BY Stored DEF Books, messages, Posted
<1>2. /\ last_agent_timestamp' \in [Groups -> 0..MaxMessages]
      /\ dispatched_through' \in [Groups -> 0..MaxMessages]
      /\ saved' \in [seen : 0..MaxMessages, agent : [Groups -> 0..MaxMessages]]
  BY <1>1 DEF Books
<1>3. PTypeOK'
  BY <1>1, <1>2 DEF PTypeOK, Books, messages, RouterStates, RunStates
<1>4. InBounds'
  <2>1. saved'.seen \in Posted /\ \A g \in Groups : saved'.agent[g] \in Posted
    BY DEF Books
  <2> QED
    BY <1>1, <2>1 DEF InBounds, Books
<1> QED
  BY <1>3, <1>4

\* The router's clause reads only messages and router.
LEMMA RouterOKStays ==
  ASSUME RouterOK, UNCHANGED <<messages, router>>
  PROVE  RouterOK'
BY DEF RouterOK, messages, Routing, MessagesOf, Current, RouteLast, Chat, Kind, Visible

\* The run's clause reads only messages, what is taken care of, and the run.
LEMMA RunOKStays ==
  ASSUME NEW g \in Groups, RunOK(g), UNCHANGED messages, done \subseteq done', run'[g] = run[g],
         NoNewFolder(g)
  PROVE  RunOK(g)'
<1>1. \A i : TakenCareOf(i) => TakenCareOf(i)'
  BY CareStays DEF messages
<1>2. /\ MessagesOf(g)' = MessagesOf(g) /\ RunLast(g)' = RunLast(g)
      /\ \A i : (Kind(i)' = Kind(i)) /\ (Wakes(i)' <=> Wakes(i))
  BY DEF messages, MessagesOf, Wakes, Chat, Kind, Visible, RunLast
<1> QED
  BY <1>1, <1>2 DEF RunOK, NoNewFolder, Holding

\* The cursor's clause stands while the cursor moves only over what is taken care of.
LEMMA CursorOKStays ==
  ASSUME NEW g \in Groups, CursorOK(g), posted' = posted, done \subseteq done', run'[g] = run[g],
         \A i \in 1..Len(posted) : Chat(i) = g /\ i <= last_agent_timestamp'[g] =>
           i <= last_agent_timestamp[g] \/ TakenCareOf(i)'
  PROVE  CursorOK(g)'
<1>1. \A i : TakenCareOf(i) => TakenCareOf(i)'
  BY CareStays
<1>2. RunLast(g)' = RunLast(g) /\ \A i : Chat(i)' = Chat(i)
  BY DEF Chat, RunLast
<1> QED
  BY <1>1, <1>2 DEF CursorOK, Holding, Answering

\* The clause about newer messages, while the cursors stay.
LEMMA NewerOKStays ==
  ASSUME NEW g \in Groups, NewerOK(g), UNCHANGED messages, done \subseteq done',
         router'.pending = router.pending, run'[g] = run[g],
         last_agent_timestamp'[g] = last_agent_timestamp[g],
         dispatched_through'[g] = dispatched_through[g]
  PROVE  NewerOK(g)'
<1>1. \A i : TakenCareOf(i) => TakenCareOf(i)'
  BY CareStays DEF messages
<1>2. MessagesOf(g)' = MessagesOf(g) /\ RunLast(g)' = RunLast(g) /\ RouteLast' = RouteLast
  BY DEF messages, MessagesOf, Chat, Kind, Visible, RunLast, RouteLast
<1> QED
  BY <1>1, <1>2 DEF NewerOK, Holding, Answering

\* A group whose run, cursors and router are left alone.
LEMMA LooksStays ==
  ASSUME PTypeOK, NEW g \in Groups, Looks(g), UNCHANGED messages, done \subseteq done',
         UNCHANGED <<router, last_timestamp>>, g \in booting => g \in booting',
         QueueMoves(g), run'[g] = run[g],
         last_agent_timestamp'[g] = last_agent_timestamp[g],
         dispatched_through'[g] = dispatched_through[g],
         \A i \in MessagesOf(g) : i \in piped \cup gave_up => i \in piped' \cup gave_up'
  PROVE  Looks(g)'
<1> SUFFICES ASSUME NEW i \in MessagesOf(g)', Unseen(g, i)'
             PROVE  /\ i > last_timestamp \/ i \in router.batch \/ HandedOn(g, i)'
                    /\ Behind(g, i)' => HandedOn(g, i)'
  BY DEF Looks
<1>1. i \in MessagesOf(g) /\ Unseen(g, i)
  BY UnseenBefore DEF QueueMoves
<1>2. Passed(g, i) => Passed(g, i)'
  BY DEF messages, Passed, Current, RouteLast, Chat
<1>3. HandedOn(g, i) => HandedOn(g, i)'
  BY <1>1, <1>2, HandedOnStays DEF Unseen
<1>4. Behind(g, i)' => Behind(g, i)
  BY DEF messages, QueueMoves, NoNewFolder, Behind, Current, RouteLast, RunLast, Chat
<1> QED
  BY <1>1, <1>3, <1>4 DEF Looks

-----------------------------------------------------------------------------
(* A step of one run, and a step of the router: what has to be shown.      *)

\* The run of group g goes on to r; nothing else but its own cursors moves.
LEMMA RunMoves ==
  ASSUME PInv, IInv', Books, NEW g \in Groups, NEW r \in RunStates,
         run' = [run EXCEPT ![g] = r], r.previous \in Posted,
         r.pc # "idle" => runs'[g] = <<Messages>>,
         UNCHANGED <<router, last_timestamp, booting>>,
         \A h \in Groups \ {g} :
           /\ QueueMoves(h)
           /\ last_agent_timestamp'[h] = last_agent_timestamp[h]
           /\ dispatched_through'[h] = dispatched_through[h]
           /\ \A i \in MessagesOf(h) : i \in piped \cup gave_up => i \in piped' \cup gave_up',
         RunOK(g)', CursorOK(g)', Deciding /\ Current = g => NewerOK(g)', Looks(g)'
  PROVE  PInv'
<1>1. PTypeOK /\ InBounds /\ RouterOK /\ run \in [Groups -> RunStates]
  BY Stored DEF PInv, InHand
<1>2. /\ run' \in [Groups -> RunStates] /\ run'[g] = r
      /\ \A h \in Groups \ {g} : run'[h] = run[h]
  BY <1>1
<1>3. UNCHANGED messages /\ done \subseteq done' /\ Current' = Current
  BY DEF Books, messages, Current, Chat
<1>4. \A h \in Groups : run'[h].pc # "idle" => runs'[h] = <<Messages>>
  BY <1>1, <1>2 DEF PTypeOK, QueueMoves
<1>5. \A h \in Groups : run'[h].previous \in Posted
  BY <1>1, <1>2 DEF InBounds
<1>6. router' \in RouterStates
  BY <1>1, Stored
<1>7. PTypeOK' /\ InBounds'
  BY <1>1, <1>2, <1>4, <1>5, <1>6, TypesStay
<1>8. RouterOK'
  BY <1>1, <1>3, RouterOKStays
<1>9. ASSUME NEW h \in Groups PROVE RunOK(h)' /\ CursorOK(h)' /\ Looks(h)'
  <2>1. CASE h = g
    BY <2>1
  <2>2. CASE h # g
    <3>1. RunOK(h) /\ CursorOK(h) /\ Looks(h)
      BY DEF PInv, InHand, SomebodyLooks
    <3>2. RunOK(h)'
      BY <1>2, <1>3, <2>2, <3>1, RunOKStays DEF QueueMoves
    <3>3. CursorOK(h)'
      BY <1>2, <1>3, <2>2, <3>1, CursorOKStays DEF messages
    <3>4. Looks(h)'
      BY <1>1, <1>2, <1>3, <2>2, <3>1, LooksStays
    <3> QED
      BY <3>2, <3>3, <3>4
  <2> QED
    BY <2>1, <2>2
<1>10. Deciding' => NewerOK(Current)'
  <2> SUFFICES ASSUME Deciding PROVE NewerOK(Current)'
    BY DEF Deciding
  <2>1. Current \in Groups /\ NewerOK(Current)
    BY <1>1, CurrentIsGroup DEF Deciding, PInv, InHand
  <2>2. CASE Current = g
    BY <1>3, <2>2 DEF NewerOK
  <2>3. CASE Current # g
    <3>1. PICK h \in Groups : h = Current
      BY <2>1
    <3>2. NewerOK(h)'
      BY <1>2, <1>3, <2>1, <2>3, <3>1, NewerOKStays
    <3> QED
      BY <1>3, <3>1, <3>2
  <2> QED
    BY <2>2, <2>3
<1> QED
  BY <1>7, <1>8, <1>9, <1>10 DEF PInv, InHand, SomebodyLooks

\* A step of the router or of the queue: no run moves.
LEMMA RouterMoves ==
  ASSUME PInv, IInv', Books, UNCHANGED run, router' \in RouterStates,
         \A h \in Groups : QueueMoves(h),
         RouterOK', Deciding' => NewerOK(Current)',
         \A h \in Groups : \A i \in 1..Len(posted) :
           Chat(i) = h /\ i <= last_agent_timestamp'[h] =>
             i <= last_agent_timestamp[h] \/ TakenCareOf(i)',
         \A h \in Groups : Looks(h)'
  PROVE  PInv'
<1>1. PTypeOK /\ InBounds /\ run \in [Groups -> RunStates]
  BY Stored DEF PInv, InHand
<1>2. UNCHANGED messages /\ done \subseteq done'
  BY DEF Books
<1>3. \A h \in Groups : run'[h].pc # "idle" => runs'[h] = <<Messages>>
  BY <1>1 DEF PTypeOK, QueueMoves
<1>4. \A h \in Groups : run'[h].previous \in Posted
  BY <1>1 DEF InBounds
<1>5. PTypeOK' /\ InBounds'
  BY <1>1, <1>3, <1>4, TypesStay
<1>6. ASSUME NEW h \in Groups PROVE RunOK(h)' /\ CursorOK(h)'
  <2>1. RunOK(h) /\ CursorOK(h)
    BY DEF PInv, InHand
  <2>2. RunOK(h)'
    BY <1>2, <2>1, RunOKStays DEF QueueMoves
  <2>3. CursorOK(h)'
    BY <1>2, <2>1, CursorOKStays DEF messages
  <2> QED
    BY <2>2, <2>3
<1> QED
  BY <1>5, <1>6 DEF PInv, InHand, SomebodyLooks

\* A step of the queue that the router and the runs do not notice.
LEMMA OnlyQueueMoves ==
  ASSUME PInv, IInv', \A h \in Groups : QueueMoves(h),
         UNCHANGED <<messages, cursors, router, run, booting, crashes, history>>,
         reset_prompt' \in [Groups -> BOOLEAN]
  PROVE  PInv'
<1>1. PTypeOK /\ InBounds /\ RouterOK
  BY DEF PInv, InHand
<1>2. Books
  BY <1>1, BooksBefore DEF Books, cursors, history
<1>3. RouterOK' /\ router' \in RouterStates
  BY <1>1, RouterOKStays, Stored
<1>4. Deciding' => NewerOK(Current)'
  BY DEF PInv, InHand, Deciding, NewerOK, messages, cursors, history, Current, RouteLast, RunLast,
         MessagesOf, Chat, Kind, Visible, Holding, Answering, TakenCareOf, PassedOver
<1>5. \A h \in Groups : Looks(h)'
  BY <1>1, LooksStays DEF PInv, SomebodyLooks, cursors, history
<1> QED
  BY <1>2, <1>3, <1>4, <1>5, RouterMoves DEF cursors

-----------------------------------------------------------------------------
(* The steps of a run.                                                     *)

\* What the invariant says of one group's run, in one place.
LEMMA RunFacts ==
  ASSUME PInv, NEW g \in Groups
  PROVE  /\ IInv /\ PTypeOK /\ InBounds /\ RouterOK /\ RunOK(g) /\ CursorOK(g) /\ Looks(g)
         /\ run \in [Groups -> RunStates] /\ run[g] \in RunStates /\ run[g].previous \in Posted
         /\ run[g].missed \subseteq MessagesOf(g)
         /\ Posted \subseteq Nat /\ Posted \subseteq 0..MaxMessages
         /\ MessagesOf(g) \subseteq 1..Len(posted) /\ MessagesOf(g) \subseteq Posted /\ MessagesOf(g) \subseteq Ids
         /\ last_timestamp \in Posted /\ last_agent_timestamp[g] \in Posted /\ dispatched_through[g] \in Posted
         /\ Deciding /\ Current = g => NewerOK(g)
<1>1. PTypeOK /\ InBounds /\ RunOK(g)
  BY DEF PInv, InHand
<1> QED
  BY <1>1, Stored DEF PInv, InHand, SomebodyLooks, RunOK, InBounds, MessagesOf

\* A step of the run that moves no cursor and keeps what the run has in hand.
LEMMA RunGoesOn ==
  ASSUME PInv, NEW g \in Groups, NEW r \in RunStates, runs[g] = <<Messages>>,
         UNCHANGED <<vars, messages, cursors, router, booting, crashes, done, piped, gave_up>>,
         reset_prompt' \in [Groups -> BOOLEAN], executed' \in [Ids -> Nat],
         run' = [run EXCEPT ![g] = r], r.missed = run[g].missed, r.previous = run[g].previous,
         run[g].pc # "return", r.pc \in {"handoff", "fetch", "command", "agent", "finalize", "return"},
         r.pc \in {"handoff", "fetch"} => Starting(g),
         r.pc \in {"command", "agent", "finalize"} => Holding(g),
         r.pc \in {"agent", "finalize"} => Answering(g),
         Answering(g) => r.pc \in {"agent", "finalize", "return"},
         Starting(g) => r.pc \in {"handoff", "fetch"} \/ (r.pc = "return" /\ r.outcome # "success"),
         r.pc = "command" => Kind(RunLast(g)) = "command",
         r.pc = "return" /\ r.outcome = "success" =>
           \A i \in run[g].missed : ~Wakes(i) \/ TakenCareOf(i)
  PROVE  PInv'
<1>1. /\ IInv /\ PTypeOK /\ InBounds /\ RouterOK /\ RunOK(g) /\ CursorOK(g) /\ Looks(g)
      /\ run \in [Groups -> RunStates] /\ r.previous \in Posted
      /\ Deciding /\ Current = g => NewerOK(g)
  BY RunFacts
<1>2. IInv' /\ \A h \in Groups : QueueMoves(h)
  BY <1>1, NextIInv, QuietMoves DEF vars
<1>3. Books
  BY <1>1, BooksBefore DEF Books, cursors
<1>4. /\ run'[g] = r /\ RunLast(g)' = RunLast(g) /\ MessagesOf(g)' = MessagesOf(g)
      /\ Current' = Current /\ RouteLast' = RouteLast
      /\ \A i : /\ Wakes(i)' <=> Wakes(i)
                /\ TakenCareOf(i)' <=> TakenCareOf(i)
                /\ Kind(i)' = Kind(i) /\ Chat(i)' = Chat(i)
  BY <1>1 DEF RunLast, messages, MessagesOf, Wakes, Chat, Kind, Visible, TakenCareOf, PassedOver,
              Current, RouteLast
<1>5. RunOK(g)'
  BY <1>1, <1>4 DEF RunOK, Holding, Answering, Starting, vars
<1>6. CursorOK(g)'
  BY <1>1, <1>4 DEF CursorOK, Holding, Answering, messages, cursors
<1>7. Deciding /\ Current = g => NewerOK(g)'
  BY <1>1, <1>4 DEF NewerOK, Holding, Answering, cursors
<1>8. Looks(g)'
  <2> SUFFICES ASSUME NEW i \in MessagesOf(g), Unseen(g, i)'
               PROVE  /\ i > last_timestamp \/ i \in router.batch \/ HandedOn(g, i)'
                      /\ Behind(g, i)' => HandedOn(g, i)'
    BY <1>4 DEF Looks, cursors
  <2>1. Unseen(g, i)
    BY <1>4 DEF Unseen, vars, cursors
  <2>2. /\ i > last_timestamp \/ i \in router.batch \/ HandedOn(g, i)
        /\ (Behind(g, i) => HandedOn(g, i))
    BY <1>1, <2>1 DEF Looks
  <2>3. Behind(g, i)' => Behind(g, i)
    BY <1>4 DEF Behind, vars, cursors
  <2>4. CASE Starting(g)
    <3>1. CASE r.pc \in {"handoff", "fetch"}
      BY <1>4, <3>1 DEF HandedOn, Starting, vars
    <3>2. CASE r.pc = "return" /\ r.outcome # "success"
      <4>1. ~Behind(g, i)' \/ Passed(g, i)
        BY <1>1, <1>4, <2>4, <3>2 DEF Behind, Passed, RunOK, Starting, vars, cursors
      <4>2. Passed(g, i) => HandedOn(g, i)'
        <5>1. Passed(g, i) => i \in NotPolledAgain(g)
          BY <2>1, NotPolled DEF Unseen
        <5>2. NotPolledAgain(g)' = NotPolledAgain(g)
          BY <1>4 DEF NotPolledAgain, MessagesSince, messages, cursors, Chat, Kind, Visible
        <5> QED
          BY <1>4, <3>2, <5>1, <5>2 DEF HandedOn
      <4>3. i <= last_timestamp => Passed(g, i)
        BY DEF Passed
      <4>4. i \in Nat /\ last_timestamp \in Nat
        BY RunFacts
      <4> QED
        BY <4>1, <4>2, <4>3, <4>4
    <3> QED
      BY <2>4, <3>1, <3>2
  <2>5. CASE ~Starting(g)
    <3>1. HandedOn(g, i) => HandedOn(g, i)'
      BY <1>4, <2>5 DEF HandedOn, Awaited, vars
    <3> QED
      BY <2>2, <2>3, <3>1
  <2> QED
    BY <2>4, <2>5
<1> QED
  BY <1>1, <1>2, <1>3, <1>5, <1>6, <1>7, <1>8, RunMoves DEF cursors, vars

\* Counting an execution keeps the type of the counter.
LEMMA ExecuteTypes ==
  ASSUME PTypeOK, NEW i
  PROVE  /\ Execute(i) => executed' \in [Ids -> Nat]
         /\ UNCHANGED executed => executed' \in [Ids -> Nat]
         /\ UNCHANGED reset_prompt => reset_prompt' \in [Groups -> BOOLEAN]
<1>1. executed \in [Ids -> Nat] /\ reset_prompt \in [Groups -> BOOLEAN]
  BY DEF PTypeOK
<1> QED
  BY <1>1 DEF Execute

\* The run consumes the handoff prompt.
LEMMA RunHandoffKeeps ==
  ASSUME PInv, NEW g \in Groups, RunHandoff(g)
  PROVE  PInv'
<1> DEFINE r == [run[g] EXCEPT !.pc = "handoff"]
<1>1. PTypeOK /\ run[g] \in RunStates
  BY RunFacts
<1>2. /\ r \in RunStates /\ r.pc = "handoff" /\ r.missed = run[g].missed /\ r.previous = run[g].previous
      /\ run' = [run EXCEPT ![g] = r]
  BY <1>1 DEF RunHandoff, RunStep, RunStates
<1>3. reset_prompt' \in [Groups -> BOOLEAN] /\ executed' \in [Ids -> Nat]
  BY <1>1 DEF RunHandoff, history, PTypeOK
<1>4. runs[g] = <<Messages>> /\ run[g].pc = "idle" /\ Starting(g) /\ ~Answering(g)
  BY DEF RunHandoff, RunOf, Starting, Answering
<1>5. UNCHANGED <<vars, messages, cursors, router, booting, crashes, done, piped, gave_up>>
  BY DEF RunHandoff, history
<1> HIDE DEF r
<1>6. /\ r.pc \in {"handoff", "fetch", "command", "agent", "finalize", "return"}
      /\ r.pc \notin {"command", "agent", "finalize"} /\ run[g].pc # "return"
      /\ ~(r.pc = "return" /\ r.outcome = "success")
      /\ r.pc \in {"handoff", "fetch"} \/ (r.pc = "return" /\ r.outcome # "success")
  BY <1>2, <1>4
<1> QED
  BY <1>2, <1>3, <1>4, <1>5, <1>6, RunGoesOn

\* The run on the handoff prompt ends.
LEMMA HandoffEndsKeeps ==
  ASSUME PInv, NEW g \in Groups, NEW ok \in BOOLEAN, HandoffEnds(g, ok)
  PROVE  PInv'
<1> DEFINE r == IF ok THEN [run[g] EXCEPT !.pc = "fetch"]
                ELSE [run[g] EXCEPT !.pc = "return", !.outcome = "failure"]
<1>1. PTypeOK /\ run[g] \in RunStates
  BY RunFacts
<1>2. /\ r \in RunStates /\ r.missed = run[g].missed /\ r.previous = run[g].previous
      /\ r.pc = "fetch" \/ (r.pc = "return" /\ r.outcome = "failure")
      /\ run' = [run EXCEPT ![g] = r]
  BY <1>1 DEF HandoffEnds, RunStep, RunEnds, RunStates
<1>3. reset_prompt' \in [Groups -> BOOLEAN] /\ executed' \in [Ids -> Nat]
  BY <1>1 DEF HandoffEnds, history, PTypeOK
<1>4. runs[g] = <<Messages>> /\ run[g].pc = "handoff" /\ Starting(g) /\ ~Answering(g)
  BY DEF HandoffEnds, RunOf, Starting, Answering
<1>5. UNCHANGED <<vars, messages, cursors, router, booting, crashes, done, piped, gave_up>>
  BY DEF HandoffEnds, history
<1> HIDE DEF r
<1>6. /\ r.pc \in {"handoff", "fetch", "command", "agent", "finalize", "return"}
      /\ r.pc \notin {"command", "agent", "finalize"} /\ run[g].pc # "return"
      /\ ~(r.pc = "return" /\ r.outcome = "success")
      /\ r.pc \in {"handoff", "fetch"} \/ (r.pc = "return" /\ r.outcome # "success")
  BY <1>2, <1>4
<1> QED
  BY <1>2, <1>3, <1>4, <1>5, <1>6, RunGoesOn

\* A run intercepts a command and executes it.
LEMMA RunCommandKeeps ==
  ASSUME PInv, NEW g \in Groups, RunCommand(g)
  PROVE  PInv'
<1> DEFINE r == [run[g] EXCEPT !.pc = "command"]
<1>1. PTypeOK /\ run[g] \in RunStates /\ RunOK(g)
  BY RunFacts
<1>2. /\ r \in RunStates /\ r.pc = "command" /\ r.missed = run[g].missed /\ r.previous = run[g].previous
      /\ run' = [run EXCEPT ![g] = r]
  BY <1>1 DEF RunCommand, RunStep, RunStates
<1>3. reset_prompt' \in [Groups -> BOOLEAN] /\ executed' \in [Ids -> Nat]
  BY <1>1, ExecuteTypes DEF RunCommand
<1> HIDE DEF r
<1> QED
  BY <1>2, <1>3, RunGoesOn
     DEF RunCommand, RunOf, Starting, Holding, Answering, cursors

\* A run leaves messages without a trigger.
LEMMA RunSkipsKeeps ==
  ASSUME PInv, NEW g \in Groups, RunSkips(g)
  PROVE  PInv'
<1> DEFINE r == [run[g] EXCEPT !.pc = "return", !.outcome = "success"]
<1>1. PTypeOK /\ run[g] \in RunStates
  BY RunFacts
<1>2. /\ r \in RunStates /\ r.pc = "return" /\ r.missed = run[g].missed /\ r.previous = run[g].previous
      /\ run' = [run EXCEPT ![g] = r]
  BY <1>1 DEF RunSkips, RunStep, RunEnds, RunStates
<1>3. reset_prompt' \in [Groups -> BOOLEAN] /\ executed' \in [Ids -> Nat]
  BY <1>1 DEF RunSkips, history, PTypeOK
<1>4. \A i \in run[g].missed : ~Wakes(i)
  BY DEF RunSkips, HasTrigger
<1> HIDE DEF r
<1> QED
  BY <1>2, <1>3, <1>4, RunGoesOn
     DEF RunSkips, ForAgent, RunOf, Starting, Holding, Answering, cursors, history

\* The agent's output reaches the user.
LEMMA AgentSendsKeeps ==
  ASSUME PInv, NEW g \in Groups, AgentSends(g)
  PROVE  PInv'
<1> DEFINE r == [run[g] EXCEPT !.sent = TRUE]
<1>1. PTypeOK /\ run[g] \in RunStates
  BY RunFacts
<1>2. /\ r \in RunStates /\ r.pc = run[g].pc /\ r.missed = run[g].missed /\ r.previous = run[g].previous
      /\ run' = [run EXCEPT ![g] = r]
  BY <1>1 DEF AgentSends, RunStep, RunStates
<1>3. reset_prompt' \in [Groups -> BOOLEAN] /\ executed' \in [Ids -> Nat]
  BY <1>1 DEF AgentSends, history, PTypeOK
<1> HIDE DEF r
<1> QED
  BY <1>2, <1>3, RunGoesOn
     DEF AgentSends, RunOf, Starting, Holding, Answering, cursors, history

\* run_agent returns.
LEMMA AgentEndsKeeps ==
  ASSUME PInv, NEW g \in Groups, NEW outcome \in {"success", "failure"}, AgentEnds(g, outcome)
  PROVE  PInv'
<1> DEFINE r == [run[g] EXCEPT !.pc = "finalize", !.outcome = outcome]
<1>1. PTypeOK /\ run[g] \in RunStates
  BY RunFacts
<1>2. /\ r \in RunStates /\ r.pc = "finalize" /\ r.missed = run[g].missed /\ r.previous = run[g].previous
      /\ run' = [run EXCEPT ![g] = r]
  BY <1>1 DEF AgentEnds, RunStep, RunStates
<1>3. reset_prompt' \in [Groups -> BOOLEAN] /\ executed' \in [Ids -> Nat]
  BY <1>1 DEF AgentEnds, history, PTypeOK
<1> HIDE DEF r
<1> QED
  BY <1>2, <1>3, RunGoesOn
     DEF AgentEnds, RunOf, Starting, Holding, Answering, cursors, history

\* run_agent raises; the marker stays behind.
LEMMA AgentRaisesKeeps ==
  ASSUME PInv, NEW g \in Groups, AgentRaises(g)
  PROVE  PInv'
<1> DEFINE r == [run[g] EXCEPT !.pc = "return", !.outcome = "exception"]
<1>1. PTypeOK /\ run[g] \in RunStates
  BY RunFacts
<1>2. /\ r \in RunStates /\ r.pc = "return" /\ r.outcome = "exception"
      /\ r.missed = run[g].missed /\ r.previous = run[g].previous
      /\ run' = [run EXCEPT ![g] = r]
  BY <1>1 DEF AgentRaises, RunStep, RunEnds, RunStates
<1>3. reset_prompt' \in [Groups -> BOOLEAN] /\ executed' \in [Ids -> Nat]
  BY <1>1 DEF AgentRaises, history, PTypeOK
<1> HIDE DEF r
<1> QED
  BY <1>2, <1>3, RunGoesOn
     DEF AgentRaises, RunOf, Starting, Holding, Answering, cursors, history

\* A run asks for the messages since the processed cursor.
LEMMA RunFetchKeeps ==
  ASSUME PInv, NEW g \in Groups, RunFetch(g)
  PROVE  PInv'
<1> DEFINE missed == MessagesSince(g, last_agent_timestamp[g])
           r == IF missed = {} THEN [run[g] EXCEPT !.pc = "return", !.outcome = "success"]
                ELSE [IdleRun EXCEPT !.pc = "fetched", !.missed = missed]
<1>1. /\ IInv /\ PTypeOK /\ InBounds /\ RouterOK /\ RunOK(g) /\ CursorOK(g) /\ Looks(g)
      /\ run \in [Groups -> RunStates] /\ run[g] \in RunStates /\ run[g].previous \in Posted
      /\ Deciding /\ Current = g => NewerOK(g)
      /\ MessagesOf(g) \subseteq Ids /\ 0 \in Posted /\ Posted \subseteq 0..MaxMessages
      /\ MessagesOf(g) \subseteq Posted /\ Posted \subseteq Nat
      /\ last_timestamp \in Posted /\ last_agent_timestamp[g] \in Posted /\ dispatched_through[g] \in Posted
  BY RunFacts, Stored DEF Posted
<1>2. missed \subseteq MessagesOf(g) /\ Starting(g) /\ run[g].missed = {}
      /\ \A i \in MessagesOf(g) : i > last_agent_timestamp[g] => i \in missed
  BY <1>1 DEF MessagesSince, MessagesOf, RunFetch, RunOf, Starting, RunOK
<1>3. /\ r \in RunStates /\ r.previous \in Posted
      /\ \/ missed = {} /\ r.pc = "return" /\ r.missed = {}
         \/ missed # {} /\ r.pc = "fetched" /\ r.missed = missed
      /\ run' = [run EXCEPT ![g] = r]
  BY <1>1, <1>2 DEF RunFetch, RunStep, RunEnds, RunStates, IdleRun
<1>4. UNCHANGED <<vars, messages, cursors, reset_prompt, router, booting, crashes, history>>
  BY DEF RunFetch
<1>5. IInv' /\ \A h \in Groups : QueueMoves(h)
  BY <1>1, <1>4, NextIInv, QuietMoves DEF vars
<1>6. Books
  BY <1>1, <1>4, BooksBefore DEF Books, cursors, history
<1> HIDE DEF r
<1>7. /\ run'[g] = r /\ MessagesOf(g)' = MessagesOf(g) /\ missed' = missed
      /\ Current' = Current /\ RouteLast' = RouteLast
      /\ \A i : /\ Wakes(i)' <=> Wakes(i)
                /\ TakenCareOf(i)' <=> TakenCareOf(i)
                /\ Kind(i)' = Kind(i) /\ Chat(i)' = Chat(i)
  BY <1>1, <1>3, <1>4 DEF messages, cursors, history, MessagesSince, MessagesOf, Wakes, Chat, Kind, Visible,
     TakenCareOf, PassedOver, Current, RouteLast
<1> HIDE DEF missed
<1>8. RunOK(g)'
  BY <1>1, <1>2, <1>3, <1>4, <1>7 DEF RunOK, Holding, Starting, vars
<1>9. RunLast(g)' \in missed \/ missed = {}
  <2> SUFFICES ASSUME missed # {} PROVE Max(missed) \in missed
    BY <1>3, <1>7 DEF RunLast
  <2> QED
    BY <1>1, <1>2, FirstAndLast DEF MessagesOf
<1>10. CursorOK(g)'
  <2>1. ASSUME NEW i \in 1..Len(posted), Chat(i) = g, i <= last_agent_timestamp[g], missed # {}
        PROVE  ~(i > RunLast(g)')
    <3>1. RunLast(g)' > last_agent_timestamp[g]
      BY <1>9, <2>1 DEF missed, MessagesSince
    <3>2. RunLast(g)' \in Nat /\ last_agent_timestamp[g] \in Nat /\ i \in Nat
      BY <1>1, <1>2, <1>9, <2>1, Stored
    <3> QED
      BY <2>1, <3>1, <3>2
  <2> QED
    BY <1>3, <1>4, <1>7, <2>1 DEF CursorOK, Holding, Answering, messages, cursors
<1>11. Deciding /\ Current = g => NewerOK(g)'
  <2>1. ASSUME Deciding, Current = g, NEW i \in MessagesOf(g), i > RouteLast
        PROVE  (i <= last_agent_timestamp[g] /\ TakenCareOf(i)) \/ i \in missed
    <3>1. i \in Nat /\ last_agent_timestamp[g] \in Nat
      BY <1>1
    <3> QED
      BY <1>1, <1>2, <2>1, <3>1 DEF NewerOK
  <2> QED
    BY <1>1, <1>3, <1>4, <1>7, <2>1 DEF NewerOK, Holding, Answering, cursors
<1>12. Looks(g)'
  <2> SUFFICES ASSUME NEW i \in MessagesOf(g), Unseen(g, i)'
               PROVE  HandedOn(g, i)'
    BY <1>7 DEF Looks
  <2>1. i \in missed
    BY <1>2, <1>4 DEF Unseen, cursors
  <2> QED
    BY <1>3, <1>7, <2>1 DEF HandedOn
<1> QED
  BY <1>1, <1>2, <1>3, <1>4, <1>5, <1>6, <1>8, <1>10, <1>11, <1>12, RunMoves
     DEF cursors, history, Starting, vars

\* A save writes the cursors as they are, or fails and writes nothing.
LEMMA SaveTypes ==
  ASSUME PTypeOK, InBounds, NEW ok, SaveState(ok),
         last_timestamp' \in Posted, last_agent_timestamp' \in [Groups -> Posted]
  PROVE  saved' \in [seen : Posted, agent : [Groups -> Posted]]
<1>1. saved \in [seen : Posted, agent : [Groups -> Posted]]
  BY BooksBefore
<1> QED
  BY <1>1 DEF SaveState

\* A command answers for all of its group up to itself.
LEMMA CommandCovers ==
  ASSUME PTypeOK, NEW g \in Groups, NEW j \in store, Chat(j) = g,
         Kind(j) \in {"command", "reset", "redeploy"},
         UNCHANGED messages, done' = done \cup {j}
  PROVE  \A i \in 1..Len(posted) : Chat(i) = g /\ i <= j => TakenCareOf(i)'
<1> SUFFICES ASSUME NEW i \in 1..Len(posted), Chat(i) = g, i <= j PROVE TakenCareOf(i)'
  OBVIOUS
<1>1. i \in Nat /\ j \in Nat /\ j \in done'
  BY Stored
<1>2. Chat(j)' = Chat(i)' /\ Kind(j)' \in {"command", "reset", "redeploy"}
  BY DEF messages, Chat, Kind
<1> QED
  BY <1>1, <1>2 DEF TakenCareOf, PassedOver

\* A run marks its messages as dispatched.
LEMMA RunAgentKeeps ==
  ASSUME PInv, NEW g \in Groups, RunAgent(g)
  PROVE  PInv'
<1> DEFINE r == [run[g] EXCEPT !.pc = "agent", !.previous = last_agent_timestamp[g]]
<1>1. /\ IInv /\ PTypeOK /\ InBounds /\ RouterOK /\ RunOK(g) /\ CursorOK(g) /\ Looks(g)
      /\ run \in [Groups -> RunStates] /\ run[g] \in RunStates
      /\ Deciding /\ Current = g => NewerOK(g)
      /\ last_agent_timestamp[g] \in Posted /\ Posted \subseteq 0..MaxMessages
      /\ Posted \subseteq Nat /\ MessagesOf(g) \subseteq Posted
  BY RunFacts
<1>2. run[g].pc = "fetched" /\ runs[g] = <<Messages>> /\ run[g].missed # {} /\ RunLast(g) \in MessagesOf(g)
  BY <1>1, RunLastIsLast DEF RunAgent, ForAgent, RunOf, RunOK, Holding
<1>3. /\ r \in RunStates /\ r.pc = "agent" /\ r.missed = run[g].missed
      /\ r.previous = last_agent_timestamp[g] /\ r.previous \in Posted
      /\ run' = [run EXCEPT ![g] = r]
  BY <1>1 DEF RunAgent, RunStep, RunStates
<1>4. /\ UNCHANGED <<vars, messages, last_timestamp, last_agent_timestamp, saved, reset_prompt,
                     router, booting, crashes, done, piped, gave_up, executed>>
      /\ dispatched_through' = [dispatched_through EXCEPT ![g] = RunLast(g)]
  BY DEF RunAgent, history
<1>5. IInv' /\ \A h \in Groups : QueueMoves(h)
  BY <1>1, <1>4, NextIInv, QuietMoves DEF vars
<1>6. /\ dispatched_through \in [Groups -> Posted] /\ dispatched_through'[g] = RunLast(g)
      /\ dispatched_through' \in [Groups -> Posted]
      /\ \A h \in Groups \ {g} : dispatched_through'[h] = dispatched_through[h]
  BY <1>1, <1>2, <1>4, BooksBefore
<1>7. Books
  BY <1>1, <1>4, <1>6, BooksBefore DEF Books
<1> HIDE DEF r
<1>8. /\ run'[g] = r /\ RunLast(g)' = RunLast(g) /\ MessagesOf(g)' = MessagesOf(g)
      /\ Current' = Current /\ RouteLast' = RouteLast
      /\ \A i : /\ Wakes(i)' <=> Wakes(i)
                /\ TakenCareOf(i)' <=> TakenCareOf(i)
                /\ Kind(i)' = Kind(i) /\ Chat(i)' = Chat(i)
  BY <1>1, <1>3, <1>4 DEF RunLast, messages, MessagesOf, Wakes, Chat, Kind, Visible, TakenCareOf,
     PassedOver, Current, RouteLast
<1>9. RunOK(g)'
  BY <1>1, <1>2, <1>3, <1>8 DEF RunOK, Holding
<1>10. CursorOK(g)'
  <2> SUFFICES ASSUME NEW i \in 1..Len(posted), Chat(i) = g, i <= last_agent_timestamp[g]
               PROVE  /\ i > RunLast(g) => TakenCareOf(i)
                      /\ ~(i > r.previous)
    BY <1>4, <1>8 DEF CursorOK, messages
  <2>1. i \in Nat /\ last_agent_timestamp[g] \in Nat
    BY <1>1, Stored
  <2> QED
    BY <1>1, <1>2, <1>3, <2>1 DEF CursorOK, Holding
<1>11. Deciding /\ Current = g => NewerOK(g)'
  <2>1. RunLast(g) \in Nat
    BY <1>1, <1>2
  <2> QED
    BY <1>1, <1>2, <1>3, <1>4, <1>6, <1>8, <2>1 DEF NewerOK, Holding, Answering
<1>12. Looks(g)'
  <2> SUFFICES ASSUME NEW i \in MessagesOf(g), Unseen(g, i)'
               PROVE  /\ i > last_timestamp \/ i \in router.batch \/ HandedOn(g, i)'
                      /\ Behind(g, i)' => HandedOn(g, i)'
    BY <1>4, <1>8 DEF Looks
  <2>1. Unseen(g, i)
    BY <1>4, <1>8 DEF Unseen, vars
  <2>2. /\ i > last_timestamp \/ i \in router.batch \/ HandedOn(g, i)
        /\ Behind(g, i) => HandedOn(g, i)
    BY <1>1, <2>1 DEF Looks
  <2>3. HandedOn(g, i) => HandedOn(g, i)'
    BY <1>2, <1>3, <1>4, <1>8 DEF HandedOn, Starting, Awaited, vars
  <2>4. Behind(g, i)' => Behind(g, i)
    BY <1>2, <1>3, <1>4, <1>6, <1>8 DEF Behind, vars
  <2> QED
    BY <2>2, <2>3, <2>4
<1> QED
  BY <1>1, <1>2, <1>3, <1>4, <1>5, <1>6, <1>7, <1>9, <1>10, <1>11, <1>12, RunMoves DEF vars

\* A command in the hands of the run moves the cursor over everything before it.
LEMMA RunCursorTo ==
  ASSUME PInv, IInv', NEW g \in Groups, NEW r \in RunStates, NEW ok,
         \A h \in Groups : QueueMoves(h), runs[g] = <<Messages>>,
         run[g].pc \in {"fetched", "command"},
         Kind(RunLast(g)) \in {"command", "reset", "redeploy"}, CursorTo(g, RunLast(g), ok),
         run' = [run EXCEPT ![g] = r], r.pc = "return",
         r.missed = run[g].missed, r.previous = run[g].previous,
         executed' \in [Ids -> Nat],
         UNCHANGED <<messages, reset_prompt, router, booting, crashes, piped, gave_up>>
  PROVE  PInv'
<1>1. /\ IInv /\ PTypeOK /\ InBounds /\ RouterOK /\ RunOK(g) /\ CursorOK(g) /\ Looks(g)
      /\ run \in [Groups -> RunStates] /\ run[g] \in RunStates
      /\ Deciding /\ Current = g => NewerOK(g)
      /\ last_agent_timestamp[g] \in Posted /\ r.previous \in Posted
      /\ Posted \subseteq Nat /\ MessagesOf(g) \subseteq Posted
      /\ MessagesOf(g) \subseteq 1..Len(posted)
  BY RunFacts
<1>2. /\ Holding(g) /\ run[g].missed # {}
      /\ RunLast(g) \in MessagesOf(g) /\ RunLast(g) \in store /\ Chat(RunLast(g)) = g
      /\ \A i \in run[g].missed : i <= RunLast(g)
  BY <1>1, RunLastIsLast DEF RunOK, Holding, MessagesOf
<1>3. /\ done' = done \cup {RunLast(g)} /\ UNCHANGED <<last_timestamp, dispatched_through>>
      /\ last_agent_timestamp' = [last_agent_timestamp EXCEPT ![g] = RunLast(g)]
      /\ SaveState(ok)
  BY DEF CursorTo
<1>4. /\ last_agent_timestamp' \in [Groups -> Posted] /\ last_agent_timestamp'[g] = RunLast(g)
      /\ \A h \in Groups \ {g} : last_agent_timestamp'[h] = last_agent_timestamp[h]
  BY <1>1, <1>2, <1>3, BooksBefore
<1>5. Books
  <2>1. last_timestamp' \in Posted
    BY <1>1, <1>3, BooksBefore
  <2>2. saved' \in [seen : Posted, agent : [Groups -> Posted]]
    BY <1>1, <1>3, <1>4, <2>1, SaveTypes
  <2> QED
    BY <1>1, <1>2, <1>3, <1>4, <2>1, <2>2, BooksBefore DEF Books
<1>6. /\ \A i \in 1..Len(posted) : Chat(i) = g /\ i <= RunLast(g) => TakenCareOf(i)'
      /\ \A i : TakenCareOf(i) => TakenCareOf(i)'
  BY <1>1, <1>2, <1>3, CommandCovers, CareStays DEF messages
<1>7. /\ run'[g] = r /\ RunLast(g)' = RunLast(g) /\ MessagesOf(g)' = MessagesOf(g)
      /\ Current' = Current /\ RouteLast' = RouteLast
      /\ \A i : /\ Wakes(i)' <=> Wakes(i)
                /\ Kind(i)' = Kind(i) /\ Chat(i)' = Chat(i)
  BY <1>1 DEF RunLast, messages, MessagesOf, Wakes, Chat, Kind, Visible, Current, RouteLast
<1>8. RunOK(g)'
  <2>1. \A i \in run[g].missed : TakenCareOf(i)'
    BY <1>1, <1>2, <1>6 DEF RunOK, MessagesOf
  <2> QED
    BY <1>1, <1>7, <2>1 DEF RunOK, Holding
<1>9. CursorOK(g)'
  BY <1>7 DEF CursorOK, Holding, Answering
<1>10. Deciding /\ Current = g => NewerOK(g)'
  <2>1. ASSUME NEW i \in MessagesOf(g), i <= RunLast(g) PROVE TakenCareOf(i)'
    BY <1>1, <1>6, <2>1 DEF MessagesOf
  <2> QED
    BY <1>4, <1>7, <2>1 DEF NewerOK, Holding, Answering
<1>11. Looks(g)'
  <2>1. ASSUME NEW i \in MessagesOf(g), i > last_agent_timestamp'[g]
        PROVE  i > last_agent_timestamp[g] \/ TakenCareOf(i)'
    <3>1. i \in Nat /\ RunLast(g) \in Nat /\ last_agent_timestamp[g] \in Nat /\ i \in 1..Len(posted) /\ Chat(i) = g
      BY <1>1, <1>2 DEF MessagesOf
    <3> QED
      BY <1>1, <1>2, <1>4, <1>6, <2>1, <3>1 DEF CursorOK
  <2> SUFFICES ASSUME NEW i \in MessagesOf(g), Unseen(g, i)'
               PROVE  /\ i > last_timestamp \/ i \in router.batch \/ HandedOn(g, i)'
                      /\ Behind(g, i)' => HandedOn(g, i)'
    BY <1>3, <1>7 DEF Looks
  <2>2. Unseen(g, i)
    BY <1>3, <1>7, <2>1, UnseenBefore DEF QueueMoves
  <2>3. /\ i > last_timestamp \/ i \in router.batch \/ HandedOn(g, i)
        /\ Behind(g, i) => HandedOn(g, i)
    BY <1>1, <2>2 DEF Looks
  <2>4. HandedOn(g, i) => HandedOn(g, i)'
    <3>1. ~Starting(g) /\ run[g].pc # "return" /\ ~shutting_down'
      BY DEF Starting, Unseen
    <3>2. ~Fresh(g)
      BY DEF Fresh
    <3> QED
      BY <1>7, <3>1, <3>2 DEF HandedOn, Awaited, QueueMoves, StillAwaited
  <2>5. Behind(g, i)' => Behind(g, i)
    BY <1>3, <1>7 DEF Behind, QueueMoves, NoNewFolder
  <2> QED
    BY <2>3, <2>4, <2>5
<1>12. runs'[g] = <<Messages>>
  BY DEF QueueMoves
<1>13. \A h \in Groups \ {g} :
         /\ QueueMoves(h)
         /\ last_agent_timestamp'[h] = last_agent_timestamp[h]
         /\ dispatched_through'[h] = dispatched_through[h]
         /\ \A i \in MessagesOf(h) : i \in piped \cup gave_up => i \in piped' \cup gave_up'
  BY <1>3, <1>4
<1> QED
  BY <1>1, <1>3, <1>5, <1>8, <1>9, <1>10, <1>11, <1>12, <1>13, RunMoves

\* A run intercepts a magic command.
LEMMA RunMagicKeeps ==
  ASSUME PInv, NEW g \in Groups, NEW ok \in BOOLEAN, RunMagic(g, ok), ~draining
  PROVE  PInv'
<1> DEFINE r == [run[g] EXCEPT !.pc = "return", !.outcome = IF ok THEN "success" ELSE "exception"]
<1>1. IInv /\ PTypeOK /\ run[g] \in RunStates
  BY RunFacts
<1>2. /\ r \in RunStates /\ r.pc = "return" /\ r.missed = run[g].missed /\ r.previous = run[g].previous
      /\ run' = [run EXCEPT ![g] = r]
  BY <1>1 DEF RunMagic, RunStep, RunEnds, RunStates
<1>3. /\ runs[g] = <<Messages>> /\ run[g].pc = "fetched" /\ Kind(RunLast(g)) \in {"reset", "redeploy"}
      /\ ClearPendingTasks(g) \/ UNCHANGED vars
      /\ CursorTo(g, RunLast(g), ok)
      /\ UNCHANGED <<messages, reset_prompt, router, booting, crashes, piped, gave_up>>
      /\ Execute(RunLast(g)) \/ UNCHANGED executed
  BY DEF RunMagic, RunOf, InterceptMagic, Magic
<1>4. executed' \in [Ids -> Nat]
  BY <1>1, <1>3, ExecuteTypes
<1>5. IInv' /\ \A h \in Groups : QueueMoves(h)
  <2>2. IInv' /\ UNCHANGED <<runs, pending_messages, timers, shutting_down>>
    BY <1>1, <1>3, CallsMoves
  <2>3. UNCHANGED group_folder
    BY <1>3 DEF ClearPendingTasks, vars
  <2> QED
    BY <2>2, <2>3, QuietMoves
<1> HIDE DEF r
<1> QED
  BY <1>2, <1>3, <1>4, <1>5, RunCursorTo

\* A run moves the cursor to the command it has executed.
LEMMA RunCommandDoneKeeps ==
  ASSUME PInv, NEW g \in Groups, NEW ok \in BOOLEAN, RunCommandDone(g, ok)
  PROVE  PInv'
<1> DEFINE r == [run[g] EXCEPT !.pc = "return", !.outcome = IF ok THEN "success" ELSE "exception"]
<1>1. IInv /\ PTypeOK /\ RunOK(g) /\ run[g] \in RunStates
  BY RunFacts
<1>2. /\ r \in RunStates /\ r.pc = "return" /\ r.missed = run[g].missed /\ r.previous = run[g].previous
      /\ run' = [run EXCEPT ![g] = r]
  BY <1>1 DEF RunCommandDone, RunStep, RunEnds, RunStates
<1>3. /\ runs[g] = <<Messages>> /\ run[g].pc = "command" /\ Kind(RunLast(g)) = "command"
      /\ UNCHANGED vars /\ CursorTo(g, RunLast(g), ok)
      /\ UNCHANGED <<messages, reset_prompt, router, booting, crashes, piped, gave_up, executed>>
  BY <1>1 DEF RunCommandDone, RunOf, RunOK
<1>4. executed' \in [Ids -> Nat]
  BY <1>1, <1>3, ExecuteTypes
<1>5. IInv' /\ \A h \in Groups : QueueMoves(h)
  BY <1>1, <1>3, NextIInv, QuietMoves DEF vars
<1> HIDE DEF r
<1> QED
  BY <1>2, <1>3, <1>4, <1>5, RunCursorTo

\* A run moves the cursor over what it answered, or back when the save fails.
LEMMA RunAdvancesKeeps ==
  ASSUME PInv, NEW g \in Groups, NEW ok \in BOOLEAN, RunAdvances(g, ok)
  PROVE  PInv'
<1> DEFINE r == [run[g] EXCEPT !.pc = "return", !.outcome = IF ok THEN "success" ELSE "exception"]
           new == IF ok THEN FinalCursor(g) ELSE run[g].previous
<1>1. /\ IInv /\ PTypeOK /\ InBounds /\ RouterOK /\ RunOK(g) /\ CursorOK(g) /\ Looks(g)
      /\ run \in [Groups -> RunStates] /\ run[g] \in RunStates /\ run[g].previous \in Posted
      /\ Deciding /\ Current = g => NewerOK(g)
      /\ last_agent_timestamp[g] \in Posted /\ dispatched_through[g] \in Posted
      /\ Posted \subseteq Nat /\ MessagesOf(g) \subseteq Posted
      /\ MessagesOf(g) \subseteq 1..Len(posted)
  BY RunFacts
<1>2. /\ run[g].pc = "finalize" /\ runs[g] = <<Messages>> /\ run[g].missed # {}
      /\ RunLast(g) \in MessagesOf(g) /\ \A i \in run[g].missed : i <= RunLast(g)
      /\ run[g].missed \subseteq MessagesOf(g)
  BY <1>1, RunLastIsLast DEF RunAdvances, RunOf, RunOK, Holding
<1>3. /\ r \in RunStates /\ r.pc = "return" /\ r.missed = run[g].missed
      /\ r.outcome = "success" => ok
      /\ r.previous = run[g].previous /\ run' = [run EXCEPT ![g] = r]
  BY <1>1 DEF RunAdvances, RunStep, RunEnds, RunStates
<1>4. /\ UNCHANGED <<vars, messages, last_timestamp, reset_prompt, router, booting, crashes,
                     piped, gave_up, executed>>
      /\ dispatched_through' = [dispatched_through EXCEPT ![g] = 0]
      /\ last_agent_timestamp' = [last_agent_timestamp EXCEPT ![g] = new]
      /\ SaveState(ok)
      /\ done \subseteq done' /\ (ok => run[g].missed \subseteq done')
      /\ done' \subseteq done \cup run[g].missed \cup piped
  BY DEF RunAdvances, Processed, Answered, Own
<1>5. IInv' /\ \A h \in Groups : QueueMoves(h)
  BY <1>1, <1>4, NextIInv, QuietMoves DEF vars
<1>6. FinalCursor(g) \in Posted /\ FinalCursor(g) \in {RunLast(g), dispatched_through[g]}
      /\ FinalCursor(g) >= RunLast(g) /\ FinalCursor(g) >= dispatched_through[g]
  BY <1>1, <1>2, MaxOfTwo DEF FinalCursor
<1>7. new \in Posted /\ 0 \in Posted
  BY <1>1, <1>6, Stored DEF Posted
<1> HIDE DEF r, new
<1>8. /\ last_agent_timestamp' \in [Groups -> Posted] /\ last_agent_timestamp'[g] = new
      /\ dispatched_through' \in [Groups -> Posted] /\ dispatched_through'[g] = 0
      /\ \A h \in Groups \ {g} : /\ last_agent_timestamp'[h] = last_agent_timestamp[h]
                                 /\ dispatched_through'[h] = dispatched_through[h]
  BY <1>1, <1>4, <1>7, BooksBefore
<1>9. Books
  <2>1. last_timestamp' \in Posted
    BY <1>1, <1>4, BooksBefore
  <2>2. saved' \in [seen : Posted, agent : [Groups -> Posted]]
    BY <1>1, <1>4, <1>8, <2>1, SaveTypes
  <2>3. done' \subseteq store
    BY <1>1, <1>2, <1>4, BooksBefore DEF MessagesOf
  <2> QED
    BY <1>1, <1>4, <1>8, <2>1, <2>2, <2>3, BooksBefore DEF Books
<1>10. /\ run'[g] = r /\ RunLast(g)' = RunLast(g) /\ MessagesOf(g)' = MessagesOf(g)
       /\ Current' = Current /\ RouteLast' = RouteLast
       /\ \A i : /\ Wakes(i)' <=> Wakes(i)
                 /\ TakenCareOf(i) => TakenCareOf(i)'
                 /\ Kind(i)' = Kind(i) /\ Chat(i)' = Chat(i)
  BY <1>1, <1>3, <1>4, CareStays DEF RunLast, messages, MessagesOf, Wakes, Chat, Kind, Visible,
     Current, RouteLast
<1>11. ok => \A i \in run[g].missed : TakenCareOf(i)'
  BY <1>4 DEF TakenCareOf
<1>12. RunOK(g)'
  BY <1>1, <1>2, <1>3, <1>10, <1>11 DEF RunOK, Holding
<1>13. CursorOK(g)'
  BY <1>3, <1>10 DEF CursorOK, Holding, Answering
\* What the cursor leaves behind is taken care of, also when it is moved back.
<1>14. ASSUME NEW i \in MessagesOf(g), i > new
       PROVE  i > last_agent_timestamp[g] \/ TakenCareOf(i)'
  <2>1. /\ i \in Nat /\ i \in 1..Len(posted) /\ Chat(i) = g
        /\ RunLast(g) \in Nat /\ last_agent_timestamp[g] \in Nat /\ run[g].previous \in Nat
        /\ FinalCursor(g) \in Nat
    BY <1>1, <1>2, <1>6 DEF MessagesOf
  <2>2. i <= last_agent_timestamp[g] =>
          /\ i > RunLast(g) => TakenCareOf(i)
          /\ i > run[g].previous => TakenCareOf(i)
    BY <1>1, <1>2, <2>1 DEF CursorOK, Holding, Answering
  <2>3. i > RunLast(g) \/ i > run[g].previous
    BY <1>6, <1>14, <2>1 DEF new
  <2> QED
    BY <1>10, <2>1, <2>2, <2>3
<1>15. Deciding /\ Current = g => NewerOK(g)'
  <2> SUFFICES ASSUME Deciding, Current = g PROVE NewerOK(g)'
    OBVIOUS
  <2>1. ASSUME NEW i \in MessagesOf(g), i > RouteLast, i <= new
        PROVE  TakenCareOf(i)'
    <3>1. /\ i <= RunLast(g) => i \in run[g].missed \/ TakenCareOf(i)
          /\ i <= run[g].previous => TakenCareOf(i)
          /\ dispatched_through[g] <= RouteLast \/ dispatched_through[g] <= RunLast(g)
      BY <1>1, <1>2, <2>1 DEF NewerOK, Holding, Answering
    <3>2. /\ i \in Nat /\ RunLast(g) \in Nat /\ dispatched_through[g] \in Nat /\ FinalCursor(g) \in Nat
          /\ RouteLast \in Nat
      <4>1. RouteLast \in Ids
        BY <1>1, RouteLastIsLast DEF Deciding, Routing
      <4> QED
        BY <1>1, <1>2, <1>6, <4>1, Stored
    <3>3. CASE ok
      <4>1. i <= RunLast(g)
        BY <1>6, <2>1, <3>1, <3>2, <3>3 DEF new
      <4> QED
        BY <1>10, <1>11, <3>1, <3>3, <4>1
    <3>4. CASE ~ok
      BY <1>10, <2>1, <3>1, <3>4 DEF new
    <3> QED
      BY <3>3, <3>4
  <2> QED
    BY <1>3, <1>8, <1>10, <2>1 DEF NewerOK, Holding, Answering
<1>16. Looks(g)'
  <2> SUFFICES ASSUME NEW i \in MessagesOf(g), Unseen(g, i)'
               PROVE  /\ i > last_timestamp \/ i \in router.batch \/ HandedOn(g, i)'
                      /\ Behind(g, i)' => HandedOn(g, i)'
    BY <1>4, <1>10 DEF Looks
  <2>1. Unseen(g, i)
    BY <1>4, <1>8, <1>10, <1>14, UnseenBefore DEF vars
  <2>2. /\ i > last_timestamp \/ i \in router.batch \/ HandedOn(g, i)
        /\ Behind(g, i) => HandedOn(g, i)
    BY <1>1, <2>1 DEF Looks
  <2>3. HandedOn(g, i) => HandedOn(g, i)'
    BY <1>2, <1>3, <1>4, <1>10 DEF HandedOn, Starting, Awaited, vars
  <2>4. Behind(g, i)' => Behind(g, i)
    <3>1. i \in Nat /\ dispatched_through[g] \in Nat
      BY <1>1
    <3> QED
      BY <1>3, <1>4, <1>8, <1>10, <3>1 DEF Behind, vars
  <2> QED
    BY <2>2, <2>3, <2>4
<1>17. \A h \in Groups \ {g} :
         /\ QueueMoves(h)
         /\ last_agent_timestamp'[h] = last_agent_timestamp[h]
         /\ dispatched_through'[h] = dispatched_through[h]
         /\ \A i \in MessagesOf(h) : i \in piped \cup gave_up => i \in piped' \cup gave_up'
  BY <1>4, <1>5, <1>8
<1> QED
  BY <1>1, <1>2, <1>3, <1>4, <1>5, <1>9, <1>12, <1>13, <1>15, <1>16, <1>17, RunMoves DEF vars

\* A run without an answer leaves the cursor to the retry.
LEMMA RunFailsKeeps ==
  ASSUME PInv, NEW g \in Groups, RunFails(g)
  PROVE  PInv'
<1> DEFINE r == [run[g] EXCEPT !.pc = "return", !.outcome = "failure"]
<1>1. /\ IInv /\ PTypeOK /\ InBounds /\ RouterOK /\ RunOK(g) /\ CursorOK(g) /\ Looks(g)
      /\ run \in [Groups -> RunStates] /\ run[g] \in RunStates /\ run[g].previous \in Posted
      /\ Deciding /\ Current = g => NewerOK(g)
      /\ dispatched_through[g] \in Posted /\ 0 \in Posted
      /\ Posted \subseteq Nat /\ MessagesOf(g) \subseteq Posted
  BY RunFacts, Stored DEF Posted
<1>2. run[g].pc = "finalize" /\ runs[g] = <<Messages>>
  BY DEF RunFails, RunOf
<1>3. /\ r \in RunStates /\ r.pc = "return" /\ r.missed = run[g].missed /\ r.outcome = "failure"
      /\ r.previous = run[g].previous /\ run' = [run EXCEPT ![g] = r]
  BY <1>1 DEF RunFails, RunStep, RunEnds, RunStates
<1>4. /\ UNCHANGED <<vars, messages, last_timestamp, last_agent_timestamp, saved, reset_prompt,
                     router, booting, crashes, done, piped, gave_up, executed>>
      /\ dispatched_through' = [dispatched_through EXCEPT ![g] = 0]
  BY DEF RunFails, history
<1>5. IInv' /\ \A h \in Groups : QueueMoves(h)
  BY <1>1, <1>4, NextIInv, QuietMoves DEF vars
<1>6. /\ dispatched_through' \in [Groups -> Posted] /\ dispatched_through'[g] = 0
      /\ \A h \in Groups \ {g} : dispatched_through'[h] = dispatched_through[h]
  BY <1>1, <1>4, BooksBefore
<1>7. Books
  BY <1>1, <1>4, <1>6, BooksBefore DEF Books
<1> HIDE DEF r
<1>8. /\ run'[g] = r /\ RunLast(g)' = RunLast(g) /\ MessagesOf(g)' = MessagesOf(g)
      /\ Current' = Current /\ RouteLast' = RouteLast
      /\ \A i : /\ Wakes(i)' <=> Wakes(i)
                /\ TakenCareOf(i)' <=> TakenCareOf(i)
                /\ Kind(i)' = Kind(i) /\ Chat(i)' = Chat(i)
  BY <1>1, <1>3, <1>4 DEF RunLast, messages, MessagesOf, Wakes, Chat, Kind, Visible, TakenCareOf,
     PassedOver, Current, RouteLast
<1>9. RunOK(g)'
  BY <1>1, <1>2, <1>3, <1>8 DEF RunOK, Holding
<1>10. CursorOK(g)'
  BY <1>3, <1>8 DEF CursorOK, Holding, Answering
<1>11. Deciding /\ Current = g => NewerOK(g)'
  BY <1>1, <1>2, <1>3, <1>4, <1>8 DEF NewerOK, Holding, Answering
<1>12. Looks(g)'
  <2> SUFFICES ASSUME NEW i \in MessagesOf(g), Unseen(g, i)'
               PROVE  /\ i > last_timestamp \/ i \in router.batch \/ HandedOn(g, i)'
                      /\ Behind(g, i)' => HandedOn(g, i)'
    BY <1>4, <1>8 DEF Looks
  <2>1. Unseen(g, i)
    BY <1>4, <1>8 DEF Unseen, vars
  <2>2. /\ i > last_timestamp \/ i \in router.batch \/ HandedOn(g, i)
        /\ Behind(g, i) => HandedOn(g, i)
    BY <1>1, <2>1 DEF Looks
  <2>3. HandedOn(g, i) => HandedOn(g, i)'
    BY <1>2, <1>3, <1>4, <1>8 DEF HandedOn, Starting, Awaited, vars
  <2>4. Behind(g, i)' => Behind(g, i)
    <3>1. i \in Nat /\ dispatched_through[g] \in Nat
      BY <1>1
    <3> QED
      BY <1>3, <1>4, <1>6, <1>8, <3>1 DEF Behind, vars
  <2> QED
    BY <2>2, <2>3, <2>4
<1> QED
  BY <1>1, <1>2, <1>3, <1>4, <1>5, <1>6, <1>7, <1>9, <1>10, <1>11, <1>12, RunMoves DEF vars

\* The queue's part of the end of a run: a failed run is retried unless its retries are
\* used up, and a message check that waited is started or still waits.
LEMMA FinishMoves ==
  ASSUME IInv, NEW g \in Groups, NEW outcome, outcome \in {"success", "failure", "exception"},
         runs[g] = <<Messages>>, FinishMessages(g, 1, outcome)
  PROVE  /\ IInv'
         /\ \A h \in Groups \ {g} : QueueMoves(h)
         /\ ~group_folder'[g] /\ (shutting_down => shutting_down')
         /\ pending_messages[g] => pending_messages'[g] \/ runs'[g] = <<Messages>>
         /\ timers[g] > 0 => timers'[g] > 0
         /\ outcome # "success" /\ retry_count[g] + 1 <= MaxRetries => timers'[g] > 0
<1>1. 1 \in 1..Len(runs[g]) /\ outcome \in Outcome
  BY DEF FinishMessages, Outcome
<1>2. IInv'
  BY <1>1, FinishMessagesIInv
<1>3. /\ timers \in [Groups -> 0..MaxTimers] /\ retry_count[g] \in Nat /\ MaxRetries \in Nat
      /\ MaxTimers \in Nat
  BY MaxTimersNat, MaxRetriesNat DEF IInv, TypeOK
<1>4. /\ \A h \in Groups : timers[h] > 0 => timers'[h] > 0
      /\ outcome # "success" /\ retry_count[g] + 1 <= MaxRetries => timers'[g] > 0
  BY <1>3 DEF FinishMessages, ScheduleRetry
<1>5. ReleaseAndDrain(g, 1) /\ UNCHANGED shutting_down
  BY DEF FinishMessages
<1>6. \A h \in Groups :
        /\ h # g => QueueMoves(h)
        /\ h = g => ~group_folder'[h]
        /\ h = g /\ pending_messages[h] => pending_messages'[h] \/ runs'[h] = <<Messages>>
  BY <1>1, <1>4, <1>5, ReleaseMoves
<1> QED
  BY <1>2, <1>4, <1>5, <1>6

\* The queue takes over from the run: done, a retry, or given up.
LEMMA RunReturnsKeeps ==
  ASSUME PInv, NEW g \in Groups, RunReturns(g)
  PROVE  PInv'
<1> DEFINE failed == run[g].outcome # "success"
           exhausted == retry_count[g] + 1 > MaxRetries
           tried == run[g].missed \cup Own(g) \cup NotPolledAgain(g)
<1>1. /\ IInv /\ PTypeOK /\ InBounds /\ RouterOK /\ RunOK(g) /\ CursorOK(g) /\ Looks(g)
      /\ run \in [Groups -> RunStates] /\ run[g] \in RunStates
      /\ Deciding /\ Current = g => NewerOK(g)
      /\ run[g].missed \subseteq MessagesOf(g) /\ MessagesOf(g) \subseteq store
      /\ MessagesOf(g) \subseteq Posted /\ Posted \subseteq Nat
      /\ last_timestamp \in Posted /\ dispatched_through[g] \in Posted
  BY RunFacts DEF MessagesOf
<1>2. /\ runs[g] = <<Messages>> /\ run[g].pc = "return"
      /\ FinishMessages(g, 1, run[g].outcome)
      /\ run' = [run EXCEPT ![g] = IdleRun]
      /\ piped' = IF failed THEN piped \ Own(g) ELSE piped
      /\ gave_up' = IF failed /\ exhausted THEN gave_up \cup tried ELSE gave_up
      /\ UNCHANGED <<messages, last_timestamp, last_agent_timestamp, dispatched_through, saved,
                     reset_prompt, router, booting, crashes, done, executed>>
  BY DEF RunReturns, RunOf, RunStep, cursors
<1>3. run[g].outcome \in {"success", "failure", "exception"}
  BY <1>1 DEF RunStates
<1>4. /\ IInv'
      /\ \A h \in Groups \ {g} : QueueMoves(h)
      /\ ~group_folder'[g] /\ (shutting_down => shutting_down')
      /\ pending_messages[g] => pending_messages'[g] \/ runs'[g] = <<Messages>>
      /\ timers[g] > 0 => timers'[g] > 0
      /\ failed /\ ~exhausted => timers'[g] > 0
  <2>1. retry_count[g] \in Nat /\ MaxRetries \in Nat
    BY <1>1, MaxRetriesNat DEF IInv, TypeOK
  <2> QED
    BY <1>1, <1>2, <1>3, <2>1, FinishMoves
<1>5. /\ IdleRun \in RunStates /\ IdleRun.previous \in Posted /\ IdleRun.pc = "idle"
      /\ IdleRun.missed = {}
  BY <1>1, Stored DEF IdleRun, RunStates, Posted
<1>6. tried \subseteq store /\ \A i \in tried : Chat(i) = g
  BY <1>1, BooksBefore DEF Own, NotPolledAgain, MessagesSince, MessagesOf
<1>7. Books
  <2>1. piped' \subseteq store /\ gave_up' \subseteq store
    <3> HIDE DEF tried
    <3> QED
      BY <1>1, <1>2, <1>6, BooksBefore
  <2> QED
    BY <1>1, <1>2, <2>1, BooksBefore DEF Books
<1>8. \A h \in Groups \ {g} : \A i \in MessagesOf(h) : i \in piped \cup gave_up => i \in piped' \cup gave_up'
  BY <1>2 DEF MessagesOf, Own
<1>9. /\ run'[g] = IdleRun /\ MessagesOf(g)' = MessagesOf(g)
      /\ Current' = Current /\ RouteLast' = RouteLast
      /\ \A i : /\ Wakes(i)' <=> Wakes(i)
                /\ TakenCareOf(i)' <=> TakenCareOf(i)
                /\ Kind(i)' = Kind(i) /\ Chat(i)' = Chat(i)
  BY <1>1, <1>2 DEF messages, MessagesOf, Wakes, Chat, Kind, Visible, TakenCareOf,
     PassedOver, Current, RouteLast
<1> HIDE DEF failed, exhausted
<1>10. RunOK(g)'
  BY <1>4, <1>5, <1>9 DEF RunOK, Holding
<1>11. CursorOK(g)'
  BY <1>5, <1>9 DEF CursorOK, Holding, Answering
<1>12. Deciding /\ Current = g => NewerOK(g)'
  BY <1>1, <1>2, <1>5, <1>9 DEF NewerOK, Holding, Answering
<1>13. Looks(g)'
  <2> SUFFICES ASSUME NEW i \in MessagesOf(g), Unseen(g, i)'
               PROVE  /\ i > last_timestamp \/ i \in router.batch \/ HandedOn(g, i)'
                      /\ Behind(g, i)' => HandedOn(g, i)'
    BY <1>2, <1>9 DEF Looks
  <2>1. CASE failed /\ ~exhausted
    BY <1>4, <2>1 DEF HandedOn, Awaited
  <2>2. CASE ~failed \/ exhausted
    <3>1. i \notin piped \/ ~failed
      BY <1>2, <2>2 DEF Unseen
    <3>2. Unseen(g, i)
      BY <1>2, <1>4, <1>9, <3>1 DEF Unseen
    <3>3. /\ i > last_timestamp \/ i \in router.batch \/ HandedOn(g, i)
          /\ Behind(g, i) => HandedOn(g, i)
      BY <1>1, <3>2 DEF Looks
    <3>4. i \notin run[g].missed
      <4>1. CASE ~failed
        BY <1>1, <1>2, <3>2, <4>1 DEF RunOK, Unseen, failed
      <4>2. CASE failed
        BY <1>2, <2>2, <4>2 DEF Unseen
      <4> QED
        BY <4>1, <4>2
    <3>5. ~failed \/ i \notin NotPolledAgain(g)
      BY <1>2, <2>2 DEF Unseen
    <3>6. HandedOn(g, i) => HandedOn(g, i)'
      BY <1>2, <1>4, <1>5, <1>9, <3>4, <3>5 DEF HandedOn, Starting, Awaited, failed
    <3>7. Behind(g, i)' => Behind(g, i)
      BY <1>2, <1>4, <1>5, <1>9 DEF Behind
    <3> QED
      BY <3>3, <3>6, <3>7
  <2> QED
    BY <2>1, <2>2
<1> QED
  BY <1>1, <1>2, <1>4, <1>5, <1>7, <1>8, <1>10, <1>11, <1>12, <1>13, RunMoves

\* One step of a run.
LEMMA RunCoroutineKeeps ==
  ASSUME PInv, NEW g \in Groups, RunCoroutine(g), ~draining
  PROVE  PInv'
<1>1. SaveOutcomes \subseteq BOOLEAN
  BY DEF SaveOutcomes
<1> QED
  BY <1>1, RunHandoffKeeps, HandoffEndsKeeps, RunFetchKeeps, RunCommandKeeps, RunCommandDoneKeeps,
     RunMagicKeeps, RunSkipsKeeps, RunAgentKeeps, AgentEndsKeeps, AgentRaisesKeeps, RunAdvancesKeeps,
     RunFailsKeeps, RunReturnsKeeps DEF RunCoroutine

-----------------------------------------------------------------------------
(* The steps of the router.                                                *)

\* What the invariant says of the router, in one place.
LEMMA RouterFacts ==
  ASSUME PInv
  PROVE  /\ IInv /\ PTypeOK /\ InBounds /\ RouterOK /\ router \in RouterStates
         /\ router.pc # "idle" => Current \in Groups
         /\ Routing => /\ RouteLast \in router.pending /\ RouteLast \in MessagesOf(Current)
                       /\ RouteLast \in store /\ RouteLast \in 1..Len(posted) /\ RouteLast \in Posted
                       /\ RouteLast \in Nat /\ Chat(RouteLast) = Current
                       /\ \A i \in router.pending : i <= RouteLast
<1>1. PTypeOK /\ RouterOK
  BY DEF PInv, InHand
<1> QED
  BY <1>1, Stored, CurrentIsGroup, RouteLastIsLast DEF PInv, InHand, MessagesOf

\* The end of an iteration, or the next chat of it.
LEMMA RouteDoneOK ==
  ASSUME PTypeOK, RouterOK, router.pc \notin {"idle", "reconciled"}, UNCHANGED messages,
         RouteDone \/ router' = IdleRouter
  PROVE  /\ RouterOK' /\ router' \in RouterStates /\ router'.pc \in {"idle", "route"}
         /\ RouteDone => \A i \in router.batch : Chat(i) # Current => i \in router'.batch
<1> DEFINE rest == {i \in router.batch : Chat(i) # Current}
<1>1. router \in RouterStates /\ rest \subseteq router.batch /\ router.batch \subseteq store
  BY Stored DEF RouterOK
<1>2. rest \subseteq Ids /\ \A i \in rest : Visible(i) /\ i \in store
  BY <1>1 DEF RouterOK, RouterStates
<1>3. CASE router' = IdleRouter /\ ~RouteDone
  BY <1>3 DEF RouterOK, Routing, IdleRouter, RouterStates
<1>4. CASE RouteDone
  <2>1. router' = [pc |-> IF rest = {} THEN "idle" ELSE "route", batch |-> rest, pending |-> {}]
    BY <1>4 DEF RouteDone
  <2>2. router' \in RouterStates /\ router'.batch = rest /\ router'.pc \in {"idle", "route"}
    BY <1>2, <2>1 DEF RouterStates
  <2>3. RouterOK'
    <3>1. CASE rest = {}
      <4>1. router' = IdleRouter
        BY <2>1, <3>1 DEF IdleRouter
      <4> QED
        BY <4>1 DEF RouterOK, Routing, IdleRouter
    <3>2. CASE rest # {}
      <4>1. router'.pc = "route" /\ store' = store /\ \A i : Visible(i)' <=> Visible(i)
        BY <2>1, <3>2 DEF messages, Visible, Kind
      <4> QED
        BY <1>2, <2>2, <3>2, <4>1 DEF RouterOK, Routing
    <3> QED
      BY <3>1, <3>2
  <2> QED
    BY <2>2, <2>3
<1> QED
  BY <1>3, <1>4

\* What a step of the router has to keep for the messages of a group.
LEMMA RouterLooks ==
  ASSUME PInv, NEW h \in Groups, UNCHANGED <<messages, run, last_timestamp>>, done \subseteq done',
         QueueMoves(h), router.pc # "reconciled", h \in booting => h \in booting',
         \A i \in MessagesOf(h) : i \in piped \cup gave_up => i \in piped' \cup gave_up',
         \A i \in MessagesOf(h) : i > last_agent_timestamp'[h] =>
           i > last_agent_timestamp[h] \/ TakenCareOf(i)',
         \A i \in MessagesOf(h) : Unseen(h, i) /\ Unseen(h, i)' =>
           /\ Passed(h, i) => Passed(h, i)'
           /\ i \in router.batch => i \in router'.batch \/ HandedOn(h, i) \/ HandedOn(h, i)'
           /\ Behind(h, i)' => Behind(h, i) \/ HandedOn(h, i) \/ HandedOn(h, i)'
  PROVE  Looks(h)'
<1>1. PTypeOK /\ Looks(h)
  BY DEF PInv, SomebodyLooks
<1> SUFFICES ASSUME NEW i \in MessagesOf(h)', Unseen(h, i)'
             PROVE  /\ i > last_timestamp \/ i \in router'.batch \/ HandedOn(h, i)'
                    /\ Behind(h, i)' => HandedOn(h, i)'
  BY DEF Looks
<1>2. i \in MessagesOf(h) /\ Unseen(h, i)
  BY UnseenBefore DEF QueueMoves
<1>3. HandedOn(h, i) => HandedOn(h, i)'
  BY <1>1, <1>2, HandedOnStays DEF Unseen
<1>4. /\ i > last_timestamp \/ i \in router.batch \/ HandedOn(h, i)
      /\ Behind(h, i) => HandedOn(h, i)
  BY <1>1, <1>2 DEF Looks
<1> QED
  BY <1>2, <1>3, <1>4

\* The router asks the database, or leaves a chat without a trigger.
LEMMA RouteQueryKeeps ==
  ASSUME PInv, RouteQuery
  PROVE  PInv'
<1> DEFINE g == Current
           new == {i \in router.batch : Chat(i) = g}
           triggered == HasTrigger(new) \/ Magic(Kind(Max(new)))
           pending == MessagesSince(g, RouteCursor(g))
<1>1. /\ IInv /\ PTypeOK /\ InBounds /\ RouterOK /\ router \in RouterStates /\ router.pc = "route"
      /\ g \in Groups /\ router.batch \subseteq store /\ \A i \in router.batch : Visible(i)
      /\ Posted \subseteq Nat /\ store \subseteq Nat /\ store \subseteq Ids /\ store \subseteq Posted
  BY RouterFacts, Stored DEF RouteQuery, RouterOK
<1>2. /\ last_agent_timestamp[g] \in Nat /\ dispatched_through[g] \in Nat
      /\ RouteCursor(g) \in Nat /\ RouteCursor(g) \in {last_agent_timestamp[g], dispatched_through[g]}
      /\ RouteCursor(g) >= last_agent_timestamp[g] /\ RouteCursor(g) >= dispatched_through[g]
  <2>1. last_agent_timestamp[g] \in Nat /\ dispatched_through[g] \in Nat
    BY <1>1 DEF InBounds
  <2> QED
    BY <2>1, MaxOfTwo DEF RouteCursor
<1>3. UNCHANGED <<vars, messages, cursors, reset_prompt, run, booting, crashes, history>>
  BY DEF RouteQuery
<1>4. IInv' /\ \A h \in Groups : QueueMoves(h)
  BY <1>1, <1>3, NextIInv, QuietMoves DEF vars
<1>5. Books
  BY <1>1, <1>3, BooksBefore DEF Books, cursors, history
<1>6. \A i \in MessagesOf(g) : i \notin pending => i <= last_agent_timestamp[g] \/ i <= dispatched_through[g]
  <2> SUFFICES ASSUME NEW i \in MessagesOf(g), i \notin pending
               PROVE  i <= last_agent_timestamp[g] \/ i <= dispatched_through[g]
    OBVIOUS
  <2>1. i \in Nat /\ ~(i > RouteCursor(g))
    BY <1>1 DEF MessagesOf, MessagesSince
  <2> QED
    BY <1>2, <2>1
<1>7. pending \subseteq MessagesOf(g) /\ pending \subseteq store
      /\ \A i \in pending : i > last_agent_timestamp[g] /\ i > dispatched_through[g]
  BY <1>1, <1>2 DEF MessagesOf, MessagesSince
<1>8. CASE triggered /\ pending # {}
  <2>1. router' = [router EXCEPT !.pc = "decide", !.pending = pending]
    BY <1>8 DEF RouteQuery
  <2>2. /\ router'.pc = "decide" /\ router'.batch = router.batch /\ router'.pending = pending
        /\ router' \in RouterStates
    BY <1>1, <1>7, <2>1 DEF RouterStates
  <2>3. /\ RouteLast' = Max(pending) /\ Max(pending) \in pending /\ Max(pending) \in Nat
        /\ \A i \in pending : i <= Max(pending)
    BY <1>1, <1>3, <1>7, <1>8, <2>2, FirstAndLast DEF RouteLast
  <2>4. /\ Current' = g /\ \A h : MessagesOf(h)' = MessagesOf(h)
        /\ \A i : (Visible(i)' <=> Visible(i)) /\ Chat(i)' = Chat(i)
    BY <1>3, <2>2 DEF messages, Current, MessagesOf, Chat, Visible, Kind
  <2>5. \A i \in MessagesOf(g) : i <= Max(pending)
    <3> SUFFICES ASSUME NEW i \in MessagesOf(g), i \notin pending PROVE i <= Max(pending)
      BY <2>3
    <3>1. i \in Nat
      BY <1>1 DEF MessagesOf
    <3>2. Max(pending) > last_agent_timestamp[g] /\ Max(pending) > dispatched_through[g]
      BY <1>7, <2>3
    <3> QED
      BY <1>2, <1>6, <2>3, <3>1, <3>2
  <2> HIDE DEF pending
  <2>6. RouterOK'
    <3>1. \A i \in router.batch : Chat(i) = g => i <= Max(pending)
      BY <1>1, <2>5 DEF MessagesOf
    <3>2. store' = store
      BY <1>3 DEF messages
    <3> HIDE DEF g
    <3>3. MessagesOf(Current)' = MessagesOf(g)
      BY <2>4 DEF g
    <3> QED
      BY <1>1, <1>7, <1>8, <2>2, <2>3, <2>4, <3>1, <3>2, <3>3 DEF RouterOK, Routing
  <2>7. NewerOK(Current)'
    <3>1. PICK h \in Groups : h = Current
      BY <1>1
    <3>2. dispatched_through[h] <= Max(pending)
      BY <1>2, <1>7, <2>3, <3>1
    <3>3. NewerOK(h)'
      <4>1. \A i \in MessagesOf(h) : ~(i > Max(pending))
        <5>1. \A i \in MessagesOf(h) : i \in Nat
          BY <1>1 DEF MessagesOf
        <5> QED
          BY <2>3, <2>5, <3>1, <5>1
      <4> QED
        BY <1>3, <2>3, <2>4, <3>2, <4>1 DEF NewerOK, cursors
    <3> QED
      BY <2>4, <3>1, <3>3
  <2>8. ASSUME NEW h \in Groups PROVE Looks(h)'
    <3>1. ASSUME NEW i \in MessagesOf(h), Unseen(h, i), Behind(h, i)'
          PROVE  Behind(h, i)
      <4>1. CASE h = g /\ i <= RouteLast' /\ i \notin pending
        <5>1. i \in Nat /\ i > last_agent_timestamp[g] /\ i \in MessagesOf(g)
          BY <1>1, <3>1, <4>1 DEF Unseen, MessagesOf
        <5>2. i <= dispatched_through[h]
          BY <1>2, <1>6, <4>1, <5>1
        <5> QED
          BY <5>2 DEF Behind
      <4> QED
        BY <1>3, <2>2, <2>4, <3>1, <4>1 DEF Behind, vars, cursors, RunLast
    <3>2. \A i \in MessagesOf(h) : Passed(h, i) => Passed(h, i)'
      BY <1>1, <1>3 DEF Passed, cursors
    <3> QED
      BY <1>1, <1>3, <1>4, <2>2, <3>1, <3>2, RouterLooks DEF cursors, history
  <2> QED
    BY <1>3, <1>4, <1>5, <2>2, <2>6, <2>7, <2>8, RouterMoves DEF cursors
<1>9. CASE ~triggered \/ pending = {}
  <2>1. RouteDone
    BY <1>9 DEF RouteQuery
  <2>2. /\ RouterOK' /\ router' \in RouterStates /\ router'.pc \in {"idle", "route"}
        /\ \A i \in router.batch : Chat(i) # Current => i \in router'.batch
    BY <1>1, <1>3, <2>1, RouteDoneOK
  <2>3. ASSUME NEW h \in Groups PROVE Looks(h)'
    <3>1. \A i \in MessagesOf(h) : Passed(h, i) => Passed(h, i)'
      BY <1>1, <1>3 DEF Passed, cursors
    <3>2. \A i \in MessagesOf(h) : Behind(h, i)' => Behind(h, i)
      BY <1>3, <2>2 DEF Behind, vars, cursors, RunLast
    <3>3. ASSUME NEW i \in MessagesOf(h), Unseen(h, i), i \in router.batch
          PROVE  i \in router'.batch \/ HandedOn(h, i)
      <4>1. CASE h # g
        BY <2>2, <3>3, <4>1 DEF MessagesOf
      <4>2. CASE h = g
        <5>1. i \in new /\ Wakes(i)
          BY <3>3, <4>2 DEF MessagesOf, Unseen
        <5>2. i \notin pending
          BY <1>9, <5>1 DEF HasTrigger
        <5>3. i <= dispatched_through[g]
          <6>1. i \in Nat /\ i > last_agent_timestamp[g]
            BY <1>1, <3>3, <4>2 DEF MessagesOf, Unseen
          <6> QED
            BY <1>2, <1>6, <3>3, <4>2, <5>2, <6>1
        <5>4. Behind(h, i)
          BY <4>2, <5>3 DEF Behind
        <5> QED
          BY <3>3, <5>4 DEF PInv, SomebodyLooks, Looks
      <4> QED
        BY <4>1, <4>2
    <3> QED
      BY <1>1, <1>3, <1>4, <3>1, <3>2, <3>3, RouterLooks DEF cursors, history
  <2> QED
    BY <1>3, <1>4, <1>5, <2>2, <2>3, RouterMoves DEF cursors, Deciding
<1> QED
  BY <1>8, <1>9

\* A command in the hands of the router moves the cursor over everything before it.
LEMMA RouterCursorTo ==
  ASSUME PInv, IInv', NEW ok \in BOOLEAN, \A h \in Groups : QueueMoves(h),
         router.pc \in {"decide", "command"},
         Kind(RouteLast) \in {"command", "reset", "redeploy"},
         CursorTo(Current, RouteLast, ok), RouteNext(ok),
         executed' \in [Ids -> Nat],
         UNCHANGED <<messages, reset_prompt, run, booting, crashes, piped>>
  PROVE  PInv'
<1>1. PICK g \in Groups : g = Current
  BY RouterFacts
<1>2. /\ IInv /\ PTypeOK /\ InBounds /\ RouterOK /\ router \in RouterStates
      /\ RouteLast \in store /\ RouteLast \in MessagesOf(g) /\ RouteLast \in Posted /\ RouteLast \in Nat
      /\ Chat(RouteLast) = g /\ router.batch \subseteq store
      /\ \A i \in router.batch : Chat(i) = g => i <= RouteLast
      /\ NewerOK(g) /\ store \subseteq Nat /\ store \subseteq 1..Len(posted) /\ Posted \subseteq Nat
  BY <1>1, RouterFacts, Stored DEF Routing, RouterOK, PInv, InHand, Deciding
<1>3. /\ done' = done \cup {RouteLast} /\ UNCHANGED <<last_timestamp, dispatched_through>>
      /\ last_agent_timestamp' = [last_agent_timestamp EXCEPT ![g] = RouteLast]
      /\ SaveState(ok)
  BY <1>1 DEF CursorTo
<1>4. /\ last_agent_timestamp' \in [Groups -> Posted] /\ last_agent_timestamp'[g] = RouteLast
      /\ \A h \in Groups \ {g} : last_agent_timestamp'[h] = last_agent_timestamp[h]
      /\ \A h \in Groups : last_agent_timestamp[h] \in Nat
  BY <1>2, <1>3, BooksBefore
<1>5. /\ RouteDone \/ router' = IdleRouter
      /\ gave_up \subseteq gave_up' /\ gave_up' \subseteq store
      /\ RouteDone \/ router.batch \subseteq gave_up'
  BY <1>2, BooksBefore DEF RouteNext
<1>6. Books
  <2>1. last_timestamp' \in Posted
    BY <1>2, <1>3, BooksBefore
  <2>2. saved' \in [seen : Posted, agent : [Groups -> Posted]]
    BY <1>2, <1>3, <1>4, <2>1, SaveTypes
  <2> QED
    BY <1>2, <1>3, <1>4, <1>5, <2>1, <2>2, BooksBefore DEF Books
<1>7. /\ RouterOK' /\ router' \in RouterStates /\ router'.pc \in {"idle", "route"}
      /\ RouteDone => \A i \in router.batch : Chat(i) # Current => i \in router'.batch
  BY <1>2, <1>5, RouteDoneOK
<1>8. /\ \A i \in 1..Len(posted) : Chat(i) = g /\ i <= RouteLast => TakenCareOf(i)'
      /\ \A i : TakenCareOf(i) => TakenCareOf(i)'
  BY <1>2, <1>3, CommandCovers, CareStays DEF messages
<1>9. ASSUME NEW h \in Groups PROVE Looks(h)'
  <2>1. ASSUME NEW i \in MessagesOf(h), i > last_agent_timestamp'[h]
        PROVE  i > last_agent_timestamp[h] \/ TakenCareOf(i)'
    <3>1. CASE h # g
      BY <1>4, <2>1, <3>1
    <3>2. CASE h = g
      <4>1. i \in Nat /\ i > RouteLast /\ i \in MessagesOf(g)
        BY <1>2, <1>4, <2>1, <3>2 DEF MessagesOf
      <4>2. i <= last_agent_timestamp[g] => TakenCareOf(i)
        BY <1>2, <4>1 DEF NewerOK
      <4> QED
        BY <1>4, <1>8, <3>2, <4>1, <4>2
    <3> QED
      BY <3>1, <3>2
  <2>2. \A i \in MessagesOf(h) : Passed(h, i) => Passed(h, i)'
    BY <1>3 DEF Passed
  <2>3. \A i \in MessagesOf(h) : Behind(h, i)' => Behind(h, i)
    BY <1>3, <1>7 DEF Behind, QueueMoves, NoNewFolder, messages, RunLast
  <2>4. ASSUME NEW i \in MessagesOf(h), Unseen(h, i)', i \in router.batch
        PROVE  i \in router'.batch
    <3>1. h # g
      <4>1. i \in Nat /\ Chat(i) = h /\ i > last_agent_timestamp'[h]
        BY <1>2, <2>4 DEF Unseen, MessagesOf
      <4> QED
        BY <1>2, <1>4, <2>4, <4>1
    <3>2. RouteDone
      BY <1>5, <2>4 DEF Unseen
    <3> QED
      BY <1>1, <1>7, <2>4, <3>1, <3>2 DEF MessagesOf
  <2> QED
    BY <1>2, <1>3, <1>5, <2>1, <2>2, <2>3, <2>4, RouterLooks
<1>10. ASSUME NEW h \in Groups, NEW i \in 1..Len(posted), Chat(i) = h, i <= last_agent_timestamp'[h]
       PROVE  i <= last_agent_timestamp[h] \/ TakenCareOf(i)'
  BY <1>4, <1>8, <1>10
<1> QED
  BY <1>2, <1>3, <1>6, <1>7, <1>9, <1>10, RouterMoves DEF Deciding

\* The router intercepts a magic command.
LEMMA RouteMagicKeeps ==
  ASSUME PInv, NEW ok \in BOOLEAN, RouteMagic(ok), ~draining
  PROVE  PInv'
<1>1. IInv /\ PTypeOK /\ router.pc = "decide" /\ Current \in Groups
  BY RouterFacts DEF RouteMagic
<1>2. /\ Kind(RouteLast) \in {"reset", "redeploy"}
      /\ ClearPendingTasks(Current) \/ UNCHANGED vars
      /\ CursorTo(Current, RouteLast, ok) /\ RouteNext(ok)
      /\ UNCHANGED <<messages, reset_prompt, run, booting, crashes, piped>>
      /\ Execute(RouteLast) \/ UNCHANGED executed
  BY DEF RouteMagic, InterceptMagic, Magic
<1>3. executed' \in [Ids -> Nat]
  BY <1>1, <1>2, ExecuteTypes
<1>4. IInv' /\ \A h \in Groups : QueueMoves(h)
  <2>1. PICK g \in Groups : g = Current
    BY <1>1
  <2>2. ClearPendingTasks(g) \/ UNCHANGED vars
    BY <1>2, <2>1
  <2>3. IInv' /\ UNCHANGED <<runs, pending_messages, timers, shutting_down>>
    BY <1>1, <2>2, CallsMoves
  <2>4. UNCHANGED group_folder
    BY <2>2 DEF ClearPendingTasks, vars
  <2> QED
    BY <2>3, <2>4, QuietMoves
<1> QED
  BY <1>1, <1>2, <1>3, <1>4, RouterCursorTo

\* The router moves the cursor to the command it has executed.
LEMMA RouteCommandDoneKeeps ==
  ASSUME PInv, NEW ok \in BOOLEAN, RouteCommandDone(ok)
  PROVE  PInv'
<1>1. IInv /\ PTypeOK /\ RouterOK /\ router.pc = "command"
  BY RouterFacts DEF RouteCommandDone
<1>2. /\ Kind(RouteLast) = "command"
      /\ CursorTo(Current, RouteLast, ok) /\ RouteNext(ok)
      /\ UNCHANGED <<vars, messages, reset_prompt, run, booting, crashes, piped, executed>>
  BY <1>1 DEF RouteCommandDone, RouterOK
<1>3. executed' \in [Ids -> Nat]
  BY <1>1, <1>2, ExecuteTypes
<1>4. IInv' /\ \A h \in Groups : QueueMoves(h)
  BY <1>1, <1>2, NextIInv, QuietMoves DEF vars
<1> QED
  BY <1>1, <1>2, <1>3, <1>4, RouterCursorTo

\* The router keeps its batch and its query, and goes on with the chat.
LEMMA RouteOnOK ==
  ASSUME PInv, UNCHANGED messages, Routing, NEW pc,
         pc \in {"command", "enqueue", "mark"}, router' = [router EXCEPT !.pc = pc],
         pc = "command" => Kind(RouteLast) = "command"
  PROVE  /\ RouterOK' /\ router' \in RouterStates
         /\ router'.pc = pc /\ router'.batch = router.batch /\ router'.pending = router.pending
         /\ Current' = Current /\ RouteLast' = RouteLast
<1>1. RouterOK /\ router \in RouterStates
  BY RouterFacts
<1>2. /\ router' \in RouterStates
      /\ router'.pc = pc /\ router'.batch = router.batch /\ router'.pending = router.pending
  BY <1>1 DEF RouterStates
<1>3. /\ Current' = Current /\ RouteLast' = RouteLast /\ \A h : MessagesOf(h)' = MessagesOf(h)
      /\ \A i : (Visible(i)' <=> Visible(i)) /\ Chat(i)' = Chat(i) /\ Kind(i)' = Kind(i)
      /\ store' = store
  BY <1>2 DEF messages, Current, RouteLast, MessagesOf, Chat, Visible, Kind
<1>4. MessagesOf(Current)' = MessagesOf(Current)
  BY <1>3
<1>5. RouterOK'
  BY <1>1, <1>2, <1>3, <1>4 DEF RouterOK, Routing
<1> QED
  BY <1>2, <1>3, <1>5

\* The router executes a command before it moves the cursor.
LEMMA RouteCommandKeeps ==
  ASSUME PInv, RouteCommand
  PROVE  PInv'
<1>1. /\ IInv /\ PTypeOK /\ InBounds /\ router.pc = "decide" /\ Routing
  BY RouterFacts DEF RouteCommand, Routing
<1>2. /\ UNCHANGED <<vars, messages, cursors, reset_prompt, run, booting, crashes, done, piped, gave_up>>
      /\ router' = [router EXCEPT !.pc = "command"] /\ Kind(RouteLast) = "command"
      /\ Execute(RouteLast)
  BY DEF RouteCommand
<1>3. executed' \in [Ids -> Nat]
  BY <1>1, <1>2, ExecuteTypes
<1>4. IInv' /\ \A h \in Groups : QueueMoves(h)
  BY <1>1, <1>2, NextIInv, QuietMoves DEF vars
<1>5. Books
  BY <1>1, <1>2, <1>3, BooksBefore DEF Books, cursors
<1>6. /\ RouterOK' /\ router' \in RouterStates
      /\ router'.pc = "command" /\ router'.batch = router.batch /\ router'.pending = router.pending
      /\ Current' = Current /\ RouteLast' = RouteLast
  BY <1>1, <1>2, RouteOnOK
<1>7. NewerOK(Current)'
  <2>1. PICK g \in Groups : g = Current
    BY <1>1, RouterFacts
  <2>2. NewerOK(g)
    BY <1>1, <2>1 DEF PInv, InHand, Deciding
  <2>3. NewerOK(g)'
    BY <1>2, <1>6, <2>2, NewerOKStays DEF cursors
  <2> QED
    BY <1>6, <2>1, <2>3
<1>8. ASSUME NEW h \in Groups PROVE Looks(h)'
  <2>1. \A i \in MessagesOf(h) : Passed(h, i) => Passed(h, i)'
    BY <1>1, <1>2 DEF Passed, cursors
  <2>2. \A i \in MessagesOf(h) : Behind(h, i)' => Behind(h, i)
    BY <1>2, <1>6 DEF Behind, vars, cursors, RunLast
  <2> QED
    BY <1>1, <1>2, <1>4, <1>6, <2>1, <2>2, RouterLooks DEF cursors
<1> QED
  BY <1>2, <1>4, <1>5, <1>6, <1>7, <1>8, RouterMoves DEF cursors

\* Work is added or dropped, and input written, behind a running task.
LEMMA BehindTask ==
  ASSUME IInv, NEW g \in Groups, active[g], active_is_task[g],
         pending_messages' \in [Groups -> BOOLEAN], pending_tasks' \in [Groups -> Seq(Tasks)],
         \A h \in Groups \ {g} :
           pending_messages'[h] = pending_messages[h] /\ pending_tasks'[h] = pending_tasks[h],
         \/ UNCHANGED ipc_input
         \/ group_folder[g] /\ ipc_input' = [ipc_input EXCEPT ![g] = @ \cup {"task"}],
         UNCHANGED <<active, active_is_task, retry_count, group_folder, active_count, waiting_groups,
                     shutting_down, runs, timers, draining>>
  PROVE  IInv'
<1>1. ipc_input' \in [Groups -> SUBSET {"messages", "task"}]
      /\ \A h \in Groups : "task" \in ipc_input'[h] => "task" \in ipc_input[h] \/ (h = g /\ group_folder[g])
  <2>1. ipc_input \in [Groups -> SUBSET {"messages", "task"}]
    BY DEF IInv, TypeOK
  <2>2. (ipc_input[g] \cup {"task"}) \in SUBSET {"messages", "task"}
    BY <2>1
  <2> QED
    BY <2>1, <2>2
<1>2. TypeOK'
  BY <1>1 DEF IInv, TypeOK
<1>3. ConcurrencyLimit'
  BY SameActiveSameCount DEF IInv, ConcurrencyLimit
<1>4. OneRunPerGroup' /\ NoStaleTaskInput' /\ FolderOfLiveRun' /\ DrainLoopEntered'
  BY <1>1 DEF IInv, OneRunPerGroup, NoStaleTaskInput, FolderOfLiveRun, DrainLoopEntered
<1>5. WaitingIsIdle' /\ WorkConserving'
  BY DEF IInv, WaitingIsIdle, Queued, Unique, WorkConserving
<1>6. NoLostWork'
  <2> SUFFICES ASSUME NEW h \in Groups, HasPending(h)', ~shutting_down'
               PROVE  active'[h] \/ Queued(waiting_groups', h)
    BY DEF NoLostWork
  <2>1. CASE h # g
    <3>1. HasPending(h)
      BY <2>1 DEF HasPending
    <3> QED
      BY <3>1 DEF IInv, NoLostWork, Queued
  <2> QED
    BY <2>1
<1> QED
  BY <1>2, <1>3, <1>4, <1>5, <1>6 DEF IInv

\* A message during a task is marked pending behind it.
LEMMA RouteTodoOrInterruptKeeps ==
  ASSUME PInv, RouteTodoOrInterrupt
  PROVE  PInv'
<1>1. PICK g \in Groups : g = Current
  BY RouterFacts DEF RouteTodoOrInterrupt, ToAgent
<1>2. /\ IInv /\ TypeOK /\ PTypeOK /\ InBounds /\ RouterOK /\ router.pc = "decide"
      /\ active[g] /\ active_is_task[g] /\ RouteDone
  BY <1>1, RouterFacts DEF RouteTodoOrInterrupt, ToAgent, ActiveTask, IInv
<1>3. /\ UNCHANGED <<active, active_is_task, retry_count, group_folder, active_count, waiting_groups,
                     shutting_down, runs, timers, draining>>
      /\ UNCHANGED <<messages, cursors, reset_prompt, run, booting, crashes, history>>
      /\ pending_messages' = [pending_messages EXCEPT ![g] = @ \/ ~shutting_down]
      /\ \/ UNCHANGED ipc_input
         \/ group_folder[g] /\ ipc_input' = [ipc_input EXCEPT ![g] = @ \cup {"task"}]
      /\ \/ UNCHANGED pending_tasks
         \/ pending_tasks' = [pending_tasks EXCEPT ![g] = <<>>]
  BY <1>1 DEF RouteTodoOrInterrupt, MarkPending
<1>4. /\ pending_messages' \in [Groups -> BOOLEAN]
      /\ pending_messages'[g] \/ shutting_down
      /\ \A h \in Groups : pending_messages[h] => pending_messages'[h]
      /\ \A h \in Groups \ {g} : pending_messages'[h] = pending_messages[h]
  <2>1. pending_messages \in [Groups -> BOOLEAN]
    BY <1>2 DEF TypeOK
  <2>2. (pending_messages[g] \/ ~shutting_down) \in BOOLEAN
    OBVIOUS
  <2> QED
    BY <1>3, <2>1, <2>2
<1>5. /\ pending_tasks' \in [Groups -> Seq(Tasks)]
      /\ \A h \in Groups \ {g} : pending_tasks'[h] = pending_tasks[h]
  <2>1. pending_tasks \in [Groups -> Seq(Tasks)] /\ <<>> \in Seq(Tasks)
    BY <1>2 DEF TypeOK
  <2> QED
    BY <1>3, <2>1
<1>6. IInv'
  BY <1>2, <1>3, <1>4, <1>5, BehindTask
<1>7. \A h \in Groups : QueueMoves(h)
  BY <1>3, <1>4 DEF QueueMoves, StillAwaited, NoNewFolder
<1>8. Books
  BY <1>2, <1>3, BooksBefore DEF Books, cursors, history
<1>9. /\ RouterOK' /\ router' \in RouterStates /\ router'.pc \in {"idle", "route"}
      /\ \A i \in router.batch : Chat(i) # Current => i \in router'.batch
  BY <1>2, <1>3, RouteDoneOK
<1>10. ASSUME NEW h \in Groups PROVE Looks(h)'
  <2>1. \A i \in MessagesOf(h) : Passed(h, i) => Passed(h, i)'
    BY <1>2, <1>3 DEF Passed, cursors
  <2>2. \A i \in MessagesOf(h) : Behind(h, i)' => Behind(h, i)
    BY <1>3, <1>9 DEF Behind, cursors, RunLast
  <2>3. ASSUME NEW i \in MessagesOf(h), Unseen(h, i), i \in router.batch
        PROVE  i \in router'.batch \/ HandedOn(h, i)'
    BY <1>1, <1>3, <1>4, <1>9, <2>3 DEF MessagesOf, Unseen, HandedOn, Awaited
  <2> QED
    BY <1>2, <1>3, <1>7, <2>1, <2>2, <2>3, RouterLooks DEF cursors, history
<1> QED
  BY <1>3, <1>6, <1>7, <1>8, <1>9, <1>10, RouterMoves DEF cursors, Deciding

\* A message is forwarded or left to a new run: the router goes on to the message check.
LEMMA RouteOnKeeps ==
  ASSUME PInv, IInv', \A h \in Groups : QueueMoves(h), router.pc = "decide",
         router' = [router EXCEPT !.pc = "enqueue"],
         UNCHANGED <<messages, cursors, reset_prompt, run, booting, crashes, history>>
  PROVE  PInv'
<1>1. /\ IInv /\ PTypeOK /\ InBounds /\ Routing
  BY RouterFacts DEF Routing
<1>2. Books
  BY <1>1, BooksBefore DEF Books, cursors, history
<1>3. /\ RouterOK' /\ router' \in RouterStates
      /\ router'.pc = "enqueue" /\ router'.batch = router.batch
  BY <1>1, RouteOnOK
<1>4. ASSUME NEW h \in Groups PROVE Looks(h)'
  <2>1. \A i \in MessagesOf(h) : Passed(h, i) => Passed(h, i)'
    BY DEF Passed, cursors
  <2>2. \A i \in MessagesOf(h) : Behind(h, i)' => Behind(h, i)
    BY <1>3 DEF Behind, cursors, RunLast
  <2> QED
    BY <1>1, <1>3, <2>1, <2>2, RouterLooks DEF cursors, history
<1> QED
  BY <1>2, <1>3, <1>4, RouterMoves DEF cursors, Deciding

\* A btw is forwarded and checked again later.
LEMMA RouteForwardKeeps ==
  ASSUME PInv, RouteForward, ~draining
  PROVE  PInv'
<1>1. PICK g \in Groups : g = Current
  BY RouterFacts DEF RouteForward, ToAgent
<1>2. SendMessage(g) \/ UNCHANGED vars
  BY <1>1 DEF RouteForward
<1>3. ~RegisterProcess(g) \/ UNCHANGED group_folder
  BY <1>2 DEF SendMessage, vars
<1>4. IInv /\ router.pc = "decide"
  BY RouterFacts DEF RouteForward, ToAgent
<1>5. IInv' /\ UNCHANGED <<runs, pending_messages, timers, shutting_down>>
  BY <1>2, <1>4, CallsMoves
<1>6. \A h \in Groups : QueueMoves(h)
  BY <1>2, <1>5, QuietMoves DEF SendMessage, vars
<1> QED
  BY <1>4, <1>5, <1>6, RouteOnKeeps DEF RouteForward

\* Without a container to pipe to, the router goes on to the message check.
LEMMA RouteWakeKeeps ==
  ASSUME PInv, RouteWake
  PROVE  PInv'
<1>1. IInv /\ router.pc = "decide"
  BY RouterFacts DEF RouteWake, ToAgent
<1>2. IInv' /\ \A h \in Groups : QueueMoves(h)
  BY <1>1, NextIInv, QuietMoves DEF RouteWake, vars
<1> QED
  BY <1>1, <1>2, RouteOnKeeps DEF RouteWake

\* What is piped to the active run counts as piped; what its marker will cover although
\* the query did not bring it up was behind already.
LEMMA RoutePipeKeeps ==
  ASSUME PInv, RoutePipe, ~draining
  PROVE  PInv'
<1>1. PICK g \in Groups : g = Current
  BY RouterFacts DEF RoutePipe, ToAgent
<1>2. /\ IInv /\ PTypeOK /\ InBounds /\ RouterOK /\ router.pc = "decide" /\ Routing
      /\ router.pending \subseteq MessagesOf(g)
  BY <1>1, RouterFacts DEF RoutePipe, ToAgent, Routing, RouterOK
<1>3. /\ SendMessage(g) /\ active[g] /\ ~active_is_task[g] /\ group_folder[g]
      /\ piped' = piped \cup router.pending /\ router' = [router EXCEPT !.pc = "mark"]
      /\ UNCHANGED <<messages, cursors, reset_prompt, run, booting, crashes, done, gave_up, executed>>
  BY <1>1 DEF RoutePipe, ActiveTask, SendMessage
<1>4. runs[g] = <<Messages>>
  BY <1>2, <1>3 DEF IInv, OneRunPerGroup
<1>5. IInv' /\ \A h \in Groups : QueueMoves(h)
  <2>1. IInv' /\ UNCHANGED <<runs, pending_messages, timers, shutting_down>>
    BY <1>2, <1>3, CallsMoves
  <2> QED
    BY <1>3, <2>1, QuietMoves DEF SendMessage
<1>6. piped' \subseteq store
  BY <1>2, <1>3, BooksBefore DEF MessagesOf
<1>7. Books
  BY <1>2, <1>3, <1>6, BooksBefore DEF Books, cursors
<1>8. /\ RouterOK' /\ router' \in RouterStates
      /\ router'.pc = "mark" /\ router'.batch = router.batch /\ router'.pending = router.pending
      /\ Current' = Current /\ RouteLast' = RouteLast
  BY <1>2, <1>3, RouteOnOK
<1>9. ASSUME NEW h \in Groups PROVE Looks(h)'
  <2>1. \A i \in MessagesOf(h) : Passed(h, i) => Passed(h, i)'
    BY <1>2, <1>3 DEF Passed, cursors
  <2>2. ASSUME NEW i \in MessagesOf(h), Unseen(h, i)', Behind(h, i)' PROVE Behind(h, i)
    <3>1. CASE Current = h /\ i <= RouteLast
      <4>1. i \notin router.pending
        BY <1>3, <2>2 DEF Unseen
      <4> QED
        BY <1>1, <1>2, <1>3, <1>4, <3>1, <4>1 DEF Behind
    <3>2. CASE ~(Current = h /\ i <= RouteLast)
      BY <1>3, <1>8, <2>2, <3>2 DEF Behind, cursors, RunLast
    <3> QED
      BY <3>1, <3>2
  <2> QED
    BY <1>2, <1>3, <1>5, <1>8, <2>1, <2>2, RouterLooks DEF cursors
<1> QED
  BY <1>3, <1>5, <1>7, <1>8, <1>9, RouterMoves DEF cursors, Deciding

\* The marker is written; it may move back, over messages nobody has polled past.
LEMMA RouteMarkKeeps ==
  ASSUME PInv, RouteMark
  PROVE  PInv'
<1>1. PICK g \in Groups : g = Current
  BY RouterFacts DEF RouteMark
<1>2. /\ IInv /\ PTypeOK /\ InBounds /\ RouterOK /\ router.pc = "mark" /\ Routing
      /\ RouteLast \in Posted /\ RouteLast \in Nat /\ Posted \subseteq Nat
      /\ dispatched_through[g] \in Nat
      /\ \A i \in router.batch : Chat(i) = g => i <= RouteLast
  BY <1>1, RouterFacts, Stored DEF RouteMark, Routing, RouterOK, InBounds
<1>3. /\ UNCHANGED <<vars, messages, last_timestamp, last_agent_timestamp, saved, reset_prompt,
                     run, booting, crashes, done, piped, gave_up, executed>>
      /\ dispatched_through' = [dispatched_through EXCEPT ![g] = RouteLast] /\ RouteDone
  BY <1>1 DEF RouteMark, history
<1>4. IInv' /\ \A h \in Groups : QueueMoves(h)
  BY <1>2, <1>3, NextIInv, QuietMoves DEF vars
<1>5. /\ dispatched_through' \in [Groups -> Posted] /\ dispatched_through'[g] = RouteLast
      /\ \A h \in Groups \ {g} : dispatched_through'[h] = dispatched_through[h]
  BY <1>2, <1>3, BooksBefore
<1>6. Books
  BY <1>2, <1>3, <1>5, BooksBefore DEF Books
<1>7. /\ RouterOK' /\ router' \in RouterStates /\ router'.pc \in {"idle", "route"}
      /\ \A i \in router.batch : Chat(i) # Current => i \in router'.batch
  BY <1>2, <1>3, RouteDoneOK
<1>8. ASSUME NEW h \in Groups, h # g PROVE Looks(h)'
  <2>1. \A i \in MessagesOf(h) : Passed(h, i) => Passed(h, i)'
    BY <1>1, <1>3, <1>5, <1>8 DEF Passed
  <2>2. \A i \in MessagesOf(h) : Behind(h, i)' => Behind(h, i)
    BY <1>3, <1>5, <1>7, <1>8 DEF Behind, vars, RunLast
  <2>3. \A i \in MessagesOf(h) : i \in router.batch => i \in router'.batch
    BY <1>1, <1>7, <1>8 DEF MessagesOf
  <2> QED
    BY <1>2, <1>3, <1>4, <2>1, <2>2, <2>3, RouterLooks
<1>9. Looks(g)'
  <2> SUFFICES ASSUME NEW i \in MessagesOf(g)', Unseen(g, i)'
               PROVE  /\ i > last_timestamp \/ i \in router'.batch \/ HandedOn(g, i)'
                      /\ Behind(g, i)' => HandedOn(g, i)'
    BY <1>3 DEF Looks
  <2>1. i \in MessagesOf(g) /\ Unseen(g, i)
    BY <1>3, <1>4, UnseenBefore DEF QueueMoves
  <2>2. /\ i > last_timestamp \/ i \in router.batch \/ HandedOn(g, i)
        /\ Behind(g, i) => HandedOn(g, i)
    BY <2>1 DEF PInv, SomebodyLooks, Looks
  <2>3. /\ i \in router.batch => Behind(g, i)
        /\ Behind(g, i)' => Behind(g, i)
    BY <1>1, <1>2, <1>3, <1>5, <1>7, <2>1 DEF Behind, vars, RunLast, MessagesOf
  <2>4. CASE Passed(g, i)' \/ run[g].pc # "return"
    <3>1. HandedOn(g, i) => HandedOn(g, i)'
      BY <1>2, <1>3, <1>4, <2>1, <2>4, HandedOnStays DEF Unseen
    <3> QED
      BY <2>2, <2>3, <3>1
  <2>5. CASE ~Passed(g, i)' /\ run[g].pc = "return"
    <3>1. i \in Nat /\ last_timestamp \in Nat
      BY <1>2, <2>1, Stored DEF MessagesOf, InBounds
    <3>2. i > last_timestamp /\ ~(i <= dispatched_through'[g])
      BY <1>3, <2>5, <3>1 DEF Passed
    <3>3. ~Behind(g, i)'
      BY <1>3, <1>7, <2>5, <3>2 DEF Behind
    <3> QED
      BY <3>2, <3>3
  <2> QED
    BY <2>4, <2>5
<1> QED
  BY <1>3, <1>4, <1>6, <1>7, <1>8, <1>9, RouterMoves DEF Deciding

\* A message check is somebody who will look at the messages of its group.
LEMMA CheckedIsHandedOn ==
  ASSUME PTypeOK, NEW g \in Groups, run'[g] = run[g], Checked(g), ~shutting_down'
  PROVE  \A i : HandedOn(g, i)'
<1>1. Fresh(g) => Starting(g)'
  BY DEF PTypeOK, Fresh, Starting
<1> QED
  BY <1>1 DEF Checked, HandedOn, Awaited

\* The router's message check puts the group into the queue's hands.
LEMMA RouteEnqueueKeeps ==
  ASSUME PInv, RouteEnqueue, ~draining
  PROVE  PInv'
<1>1. PICK g \in Groups : g = Current
  BY RouterFacts DEF RouteEnqueue
<1>2. /\ IInv /\ PTypeOK /\ InBounds /\ RouterOK /\ router.pc = "enqueue"
      /\ EnqueueMessageCheck(g) /\ RouteDone
      /\ UNCHANGED <<messages, cursors, reset_prompt, run, booting, crashes, history>>
  BY <1>1, RouterFacts DEF RouteEnqueue
<1>3. IInv' /\ \A h \in Groups : QueueMoves(h) /\ (h = g => Checked(h))
  BY <1>2, NextIInv, EnqueueMoves DEF Next
<1>4. Books
  BY <1>2, BooksBefore DEF Books, cursors, history
<1>5. /\ RouterOK' /\ router' \in RouterStates /\ router'.pc \in {"idle", "route"}
      /\ \A i \in router.batch : Chat(i) # g => i \in router'.batch
  BY <1>1, <1>2, RouteDoneOK
<1>6. ASSUME NEW h \in Groups PROVE Looks(h)'
  <2>1. \A i \in MessagesOf(h) : Passed(h, i) => Passed(h, i)'
    BY <1>2 DEF Passed, cursors
  <2>2. \A i \in MessagesOf(h) : Behind(h, i)' => Behind(h, i)
    BY <1>2, <1>3, <1>5 DEF Behind, cursors, RunLast
  <2>3. ASSUME NEW i \in MessagesOf(h), Unseen(h, i)', i \in router.batch
        PROVE  i \in router'.batch \/ HandedOn(h, i)'
    <3>1. CASE h # g
      BY <1>5, <2>3, <3>1 DEF MessagesOf
    <3>2. CASE h = g
      BY <1>2, <1>3, <2>3, <3>2, CheckedIsHandedOn DEF Unseen
    <3> QED
      BY <3>1, <3>2
  <2> QED
    BY <1>2, <1>3, <2>1, <2>2, <2>3, RouterLooks DEF cursors, history
<1> QED
  BY <1>2, <1>3, <1>4, <1>5, <1>6, RouterMoves DEF cursors, Deciding

\* The polling loop takes what is new into its hands, or leaves it when the save fails.
LEMMA PollKeeps ==
  ASSUME PInv, NEW ok \in BOOLEAN, Poll(ok)
  PROVE  PInv'
<1> DEFINE new == NewMessages(last_timestamp)
<1>1. /\ IInv /\ PTypeOK /\ InBounds /\ RouterOK /\ router.pc = "idle" /\ router.batch = {}
      /\ new # {} /\ new \subseteq store /\ \A i \in new : Visible(i)
      /\ last_timestamp' = Max(new)
      /\ SaveState(ok)
      /\ router' = IF ok THEN [pc |-> "route", batch |-> new, pending |-> {}] ELSE IdleRouter
      /\ gave_up' = IF ok THEN gave_up ELSE gave_up \cup new
      /\ UNCHANGED <<vars, messages, reset_prompt, run, booting, crashes, done, piped, executed>>
      /\ UNCHANGED <<last_agent_timestamp, dispatched_through>>
  BY RouterFacts DEF Poll, NewMessages, RouterOK, IdleRouter
<1>2. /\ store \subseteq Nat /\ store \subseteq Ids /\ store \subseteq Posted /\ Posted \subseteq Nat
  BY <1>1, Stored
<1>3. Max(new) \in store /\ Max(new) > last_timestamp /\ last_timestamp \in Nat
  <2>1. Max(new) \in new
    BY <1>1, FirstAndLast
  <2> QED
    BY <1>1, <1>2, <2>1 DEF NewMessages, InBounds
<1>4. IInv' /\ \A h \in Groups : QueueMoves(h)
  BY <1>1, NextIInv, QuietMoves DEF vars
<1>5. Books
  <2>1. last_timestamp' \in Posted /\ gave_up' \subseteq store
    BY <1>1, <1>2, <1>3, BooksBefore
  <2>2. saved' \in [seen : Posted, agent : [Groups -> Posted]]
    BY <1>1, <2>1, BooksBefore, SaveTypes
  <2> QED
    BY <1>1, <2>1, <2>2, BooksBefore DEF Books
<1>6. router' \in RouterStates /\ router'.pc \in {"idle", "route"} /\ RouterOK'
  <2> HIDE DEF new
  <2>1. CASE ok
    <3>1. /\ router' = [pc |-> "route", batch |-> new, pending |-> {}]
          /\ router'.pc = "route" /\ router'.batch = new /\ router'.pending = {}
      BY <1>1, <2>1
    <3>2. new \subseteq Ids
      BY <1>1, <1>2
    <3>3. store' = store /\ \A i : Visible(i)' <=> Visible(i)
      BY <1>1 DEF messages, Visible, Kind
    <3>4. router' \in RouterStates
      BY <3>1, <3>2 DEF RouterStates
    <3> QED
      BY <1>1, <3>1, <3>3, <3>4 DEF RouterOK, Routing
  <2>2. CASE ~ok
    BY <1>1, <2>2 DEF RouterOK, Routing, IdleRouter, RouterStates
  <2> QED
    BY <2>1, <2>2
<1>7. ASSUME NEW h \in Groups PROVE Looks(h)'
  <2> SUFFICES ASSUME NEW i \in MessagesOf(h)', Unseen(h, i)'
               PROVE  /\ i > last_timestamp' \/ i \in router'.batch \/ HandedOn(h, i)'
                      /\ Behind(h, i)' => HandedOn(h, i)'
    BY DEF Looks
  <2>1. i \in MessagesOf(h) /\ Unseen(h, i)
    BY <1>1, <1>4, UnseenBefore DEF QueueMoves
  <2>2. i \in Nat /\ i \in store /\ Visible(i)
    BY <1>2, <2>1 DEF MessagesOf
  <2>3. Passed(h, i) => Passed(h, i)'
    <3>1. last_timestamp' \in Nat /\ last_timestamp < last_timestamp'
      BY <1>1, <1>2, <1>3
    <3>2. i <= last_timestamp => i <= last_timestamp'
      BY <1>3, <2>2, <3>1
    <3> QED
      BY <1>1, <3>2 DEF Passed
  <2>4. HandedOn(h, i) => HandedOn(h, i)'
    BY <1>1, <1>4, <2>1, <2>3, HandedOnStays DEF Unseen
  <2>5. Behind(h, i)' => Behind(h, i)
    BY <1>1, <1>6 DEF Behind, vars, RunLast
  <2>6. i > last_timestamp => i \in router'.batch
    BY <1>1, <2>2 DEF Unseen, NewMessages
  <2> QED
    BY <1>1, <2>1, <2>4, <2>5, <2>6 DEF PInv, SomebodyLooks, Looks
<1> QED
  BY <1>1, <1>4, <1>5, <1>6, <1>7, RouterMoves DEF Deciding

\* Every step of the polling loop and its router keeps the invariant.
LEMMA RouterStepKeeps ==
  ASSUME PInv, RouterStep, ~draining
  PROVE  PInv'
<1>1. SaveOutcomes \subseteq BOOLEAN
  BY DEF SaveOutcomes
<1> QED
  BY <1>1, PollKeeps, RouteMagicKeeps, RouteCommandDoneKeeps, RouteQueryKeeps, RouteCommandKeeps,
     RouteTodoOrInterruptKeeps, RouteForwardKeeps, RoutePipeKeeps, RouteMarkKeeps, RouteWakeKeeps,
     RouteEnqueueKeeps DEF RouterStep

-----------------------------------------------------------------------------
(* The reconciler, the recovery, the agent's calls and the rest of the queue. *)

\* The reconciler hands its message to the queue.
LEMMA ReconcileEnqueueKeeps ==
  ASSUME PInv, ReconcileEnqueue, ~draining
  PROVE  PInv'
<1>1. PICK g \in Groups : g = Current
  BY RouterFacts DEF ReconcileEnqueue
<1>2. /\ IInv /\ PTypeOK /\ InBounds /\ RouterOK /\ router.pc = "reconciled"
      /\ EnqueueMessageCheck(g) /\ router' = IdleRouter
      /\ UNCHANGED <<messages, cursors, reset_prompt, run, booting, crashes, history>>
  BY <1>1, RouterFacts DEF ReconcileEnqueue, Current
<1>3. IInv' /\ \A h \in Groups : QueueMoves(h) /\ (h = g => Checked(h))
  BY <1>2, NextIInv, EnqueueMoves DEF Next
<1>4. Books
  BY <1>2, BooksBefore DEF Books, cursors, history
<1>5. RouterOK' /\ router' \in RouterStates /\ router'.pc = "idle"
  BY <1>2 DEF RouterOK, Routing, IdleRouter, RouterStates
<1>6. \A i \in router.batch : Chat(i) = g
  <2>1. Min(router.batch) \in router.batch
    BY <1>2, CurrentIsGroup
  <2> QED
    BY <1>1, <1>2, <2>1 DEF RouterOK, Current
<1>7. ASSUME NEW h \in Groups PROVE Looks(h)'
  <2> SUFFICES ASSUME NEW i \in MessagesOf(h)', Unseen(h, i)'
               PROVE  /\ i > last_timestamp' \/ HandedOn(h, i)'
                      /\ Behind(h, i)' => HandedOn(h, i)'
    BY DEF Looks
  <2>1. i \in MessagesOf(h) /\ Unseen(h, i)
    BY <1>2, <1>3, UnseenBefore DEF QueueMoves, cursors, history
  <2>2. Passed(h, i) => Passed(h, i)'
    BY <1>2 DEF Passed, cursors
  <2>3. i \in router.batch => Checked(h)
    BY <1>3, <1>6, <2>1 DEF MessagesOf
  <2>4. HandedOn(h, i) => HandedOn(h, i)'
    BY <1>2, <1>3, <2>1, <2>2, <2>3, HandedOnStays DEF Unseen
  <2>5. i \in router.batch => HandedOn(h, i)'
    BY <1>2, <2>3, CheckedIsHandedOn DEF Unseen
  <2>6. Behind(h, i)' => Behind(h, i)
    BY <1>2, <1>3, <1>5 DEF Behind, QueueMoves, NoNewFolder, cursors, RunLast
  <2> QED
    BY <1>2, <2>1, <2>4, <2>5, <2>6 DEF PInv, SomebodyLooks, Looks, cursors
<1> QED
  BY <1>2, <1>3, <1>4, <1>5, <1>7, RouterMoves DEF cursors, Deciding

\* The recovery enqueues a check for a group that owes an answer; one that owes none has
\* nothing that somebody would have to look at.
LEMMA RecoverKeeps ==
  ASSUME PInv, NEW g \in Groups, Recover(g), ~draining
  PROVE  PInv'
<1>1. /\ IInv /\ PTypeOK /\ InBounds /\ RouterOK /\ router \in RouterStates
      /\ router.pc = "idle" /\ booting' = booting \ {g}
      /\ UNCHANGED <<messages, cursors, reset_prompt, router, run, crashes, history>>
  BY RouterFacts DEF Recover
<1>2. \/ EnqueueMessageCheck(g)
      \/ UNCHANGED vars /\ MessagesSince(g, last_agent_timestamp[g]) = {}
  BY DEF Recover
<1>3. IInv' /\ \A h \in Groups : QueueMoves(h)
  BY <1>1, <1>2, NextIInv, EnqueueMoves, QuietMoves DEF Next, vars
<1>4. Checked(g) \/ MessagesSince(g, last_agent_timestamp[g]) = {}
  BY <1>1, <1>2, EnqueueMoves
<1>5. Books
  BY <1>1, BooksBefore DEF Books, cursors, history
<1>6. RouterOK' /\ ~Deciding'
  BY <1>1, RouterOKStays DEF Deciding
<1>7. ASSUME NEW h \in Groups PROVE Looks(h)'
  <2> SUFFICES ASSUME NEW i \in MessagesOf(h)', Unseen(h, i)'
               PROVE  /\ i > last_timestamp' \/ i \in router'.batch \/ HandedOn(h, i)'
                      /\ Behind(h, i)' => HandedOn(h, i)'
    BY DEF Looks
  <2>1. i \in MessagesOf(h) /\ Unseen(h, i)
    BY <1>1, <1>3, UnseenBefore DEF QueueMoves, cursors, history
  <2>2. Passed(h, i) => Passed(h, i)'
    BY <1>1 DEF Passed, cursors
  <2>3. h \in booting => h \in booting' \/ Checked(h)
    BY <1>1, <1>4, <2>1 DEF Unseen, MessagesOf, MessagesSince
  <2>4. HandedOn(h, i) => HandedOn(h, i)'
    BY <1>1, <1>3, <2>1, <2>2, <2>3, HandedOnStays DEF Unseen
  <2>5. Behind(h, i)' => Behind(h, i)
    BY <1>1, <1>3 DEF Behind, QueueMoves, NoNewFolder, cursors, RunLast
  <2> QED
    BY <1>1, <2>1, <2>4, <2>5 DEF PInv, SomebodyLooks, Looks, cursors
<1> QED
  BY <1>1, <1>3, <1>5, <1>6, <1>7, RouterMoves DEF cursors

\* A reset of the context enqueues the run that reads the prompt.
LEMMA AgentResetsKeeps ==
  ASSUME PInv, NEW g \in Groups, AgentResets(g), ~draining
  PROVE  PInv'
<1>1. IInv /\ EnqueueMessageCheck(g) /\ reset_prompt \in [Groups -> BOOLEAN]
  BY RouterFacts DEF AgentResets, PTypeOK
<1>2. IInv' /\ \A h \in Groups : QueueMoves(h)
  BY <1>1, NextIInv, EnqueueMoves DEF Next
<1>3. reset_prompt' \in [Groups -> BOOLEAN]
  BY <1>1 DEF AgentResets
<1> QED
  BY <1>2, <1>3, OnlyQueueMoves DEF AgentResets

\* The queue's own steps touch nothing of the pipeline.
LEMMA QueueStepKeeps ==
  ASSUME PInv, QueueStep
  PROVE  PInv'
<1>1. IInv /\ reset_prompt \in [Groups -> BOOLEAN]
  BY RouterFacts DEF PTypeOK
<1>2. IInv' /\ \A h \in Groups : QueueMoves(h)
  <2>1. IInv'
    BY <1>1, NextIInv DEF QueueStep, Next
  <2> QED
    BY <1>1, <2>1, QueueStepMoves
<1> QED
  BY <1>1, <1>2, OnlyQueueMoves DEF QueueStep, pvars

\* A container is registered while the router decides about no group, and for a message
\* run only while its agent is at work.
LEMMA AgentRegistersKeeps ==
  ASSUME PInv, NEW g \in Groups, AgentRegisters(g), ~draining
  PROVE  PInv'
<1>1. /\ IInv /\ PTypeOK /\ InHand /\ RegisterProcess(g) /\ router.pc # "decide"
      /\ RunOf(g, "agent") \/ active_is_task[g]
      /\ UNCHANGED pvars
  BY DEF PInv, AgentRegisters
<1>2. /\ IInv' /\ UNCHANGED <<runs, pending_messages, timers, shutting_down>>
      /\ group_folder' = [group_folder EXCEPT ![g] = TRUE]
  BY <1>1, CallsMoves DEF RegisterProcess
<1>3. PTypeOK'
  BY <1>1, <1>2 DEF PTypeOK, pvars, messages, cursors, history
<1>4. InBounds' /\ RouterOK'
  BY <1>1, RouterOKStays DEF InHand, InBounds, Posted, pvars, messages, cursors
<1>5. ASSUME NEW h \in Groups PROVE RunOK(h)' /\ CursorOK(h)'
  <2>1. group_folder'[h] /\ runs'[h] = <<Messages>> => run[h].pc \in {"agent", "finalize", "return"}
    <3>1. CASE h # g
      BY <1>1, <1>2, <3>1 DEF InHand, RunOK, IInv, TypeOK
    <3>2. CASE h = g /\ RunOf(g, "agent")
      BY <3>2 DEF RunOf
    <3>3. CASE h = g /\ active_is_task[g]
      BY <1>1, <1>2, <3>3 DEF IInv, OneRunPerGroup
    <3> QED
      BY <1>1, <3>1, <3>2, <3>3
  <2>2. RunOK(h)'
    BY <1>1, <2>1 DEF InHand, RunOK, pvars, messages, history, MessagesOf, Holding, Kind, Chat, Visible,
                      RunLast, Wakes, TakenCareOf, PassedOver
  <2>3. CursorOK(h)'
    BY <1>1 DEF InHand, CursorOK, pvars, messages, cursors, history, Holding, Answering, Chat, Kind,
                RunLast, TakenCareOf, PassedOver
  <2> QED
    BY <2>2, <2>3
<1>6. Deciding' => NewerOK(Current)'
  BY <1>1 DEF InHand, Deciding, NewerOK, pvars, messages, cursors, history, Current, RouteLast, RunLast,
              MessagesOf, Chat, Kind, Visible, Holding, Answering, TakenCareOf, PassedOver
<1>7. ASSUME NEW h \in Groups PROVE Looks(h)'
  <2>1. MessagesOf(h)' = MessagesOf(h)
    BY <1>1 DEF pvars, messages, MessagesOf, Chat, Kind, Visible
  <2>2. \A i : Unseen(h, i)' => Unseen(h, i)
    BY <1>1, <1>2 DEF pvars, messages, cursors, history, Unseen, Wakes, Chat, Kind, TakenCareOf, PassedOver
  <2>3. \A i : HandedOn(h, i)' <=> HandedOn(h, i)
    BY <1>1, <1>2 DEF pvars, messages, cursors, HandedOn, Starting, Awaited, NotPolledAgain, MessagesSince,
                      Chat, Kind, Visible, Current, RouteLast
  <2>4. \A i : Behind(h, i)' => Behind(h, i)
    BY <1>1, <1>2 DEF pvars, messages, cursors, Behind, Current, RouteLast, RunLast, Chat
  <2> QED
    BY <1>1, <2>1, <2>2, <2>3, <2>4 DEF PInv, SomebodyLooks, Looks, pvars, cursors
<1> QED
  BY <1>2, <1>3, <1>4, <1>5, <1>6, <1>7 DEF PInv, InHand, SomebodyLooks

-----------------------------------------------------------------------------
(* Messages arrive.                                                        *)

\* What was known of the messages so far stays known when another one is posted.
LEMMA OlderStays ==
  ASSUME PTypeOK, NEW m, NEW n, n = Len(posted) + 1, posted' = Append(posted, m), done' = done
  PROVE  /\ \A i \in 1..Len(posted) : /\ Chat(i)' = Chat(i) /\ Kind(i)' = Kind(i)
                                      /\ Visible(i)' <=> Visible(i)
                                      /\ Wakes(i)' <=> Wakes(i)
                                      /\ TakenCareOf(i)' <=> TakenCareOf(i)
         /\ Len(posted') = n /\ Chat(n)' = m.chat
<1>1. /\ posted \in Seq([chat : Groups, kind : Kinds]) /\ done \subseteq 1..Len(posted)
  BY Stored DEF PTypeOK
<1>2. /\ \A i \in 1..Len(posted) : posted'[i] = posted[i]
      /\ Len(posted') = n /\ posted'[n] = m
  BY <1>1
<1>3. \A i \in 1..Len(posted) : Chat(i)' = Chat(i) /\ Kind(i)' = Kind(i)
  BY <1>2 DEF Chat, Kind
<1>4. \A i \in 1..Len(posted) : PassedOver(i)' <=> PassedOver(i)
  BY <1>1, <1>3 DEF PassedOver
<1>5. \A i \in 1..Len(posted) : TakenCareOf(i)' <=> TakenCareOf(i)
  BY <1>4 DEF TakenCareOf
<1>6. \A i \in 1..Len(posted) : (Visible(i)' <=> Visible(i)) /\ (Wakes(i)' <=> Wakes(i))
  BY <1>3 DEF Visible, Wakes
<1>7. Len(posted') = n /\ Chat(n)' = m.chat
  BY <1>2 DEF Chat
<1> QED
  BY <1>3, <1>5, <1>6, <1>7

\* A new message is beyond every cursor and marker, so nobody has passed it.
LEMMA PostKeeps ==
  ASSUME PInv, NEW g \in Groups, NEW k \in Kinds, Post(g, k)
  PROVE  PInv'
<1>0. PICK n : n = Len(posted) + 1
  OBVIOUS
<1> DEFINE m == [chat |-> g, kind |-> k]
<1>1. /\ IInv /\ PTypeOK /\ InBounds /\ RouterOK
      /\ Len(posted) < MaxMessages /\ posted' = Append(posted, m)
      /\ store \subseteq store' /\ store' \subseteq store \cup {n}
      /\ UNCHANGED <<vars, cursors, reset_prompt, router, run, booting, crashes, history>>
  BY <1>0, RouterFacts DEF Post
<1>2. /\ Len(posted) \in Nat /\ MaxMessages \in Nat /\ n \in Nat
      /\ store \subseteq 1..Len(posted) /\ store \subseteq Nat
      /\ router \in RouterStates /\ run \in [Groups -> RunStates]
      /\ n = Len(posted) + 1
  BY <1>0, <1>1, Stored
<1>3. /\ \A i \in 1..Len(posted) : /\ Chat(i)' = Chat(i) /\ Kind(i)' = Kind(i)
                                   /\ Visible(i)' <=> Visible(i)
                                   /\ Wakes(i)' <=> Wakes(i)
                                   /\ TakenCareOf(i)' <=> TakenCareOf(i)
      /\ Len(posted') = n /\ Chat(n)' = g
  BY <1>0, <1>1, OlderStays DEF history
<1>4. IInv'
  BY <1>1, NextIInv
<1>5. PTypeOK'
  <2>1. posted' \in Seq([chat : Groups, kind : Kinds]) /\ Len(posted') <= MaxMessages
    BY <1>1, <1>2, <1>3 DEF PTypeOK
  <2>2. store' \subseteq 1..Len(posted)'
    BY <1>1, <1>2, <1>3
  <2> QED
    BY <1>1, <2>1, <2>2 DEF PTypeOK, vars, cursors, history
<1>6. InBounds'
  <2>1. Posted \subseteq Posted'
    BY <1>2, <1>3 DEF Posted
  <2> QED
    BY <1>1, <2>1 DEF InBounds, cursors
<1>7. ASSUME NEW h \in Groups
      PROVE  /\ MessagesOf(h) \subseteq MessagesOf(h)'
             /\ \A i \in MessagesOf(h)' : i \in MessagesOf(h) \/ (i = n /\ h = g)
  <2>1. store' \subseteq 1..Len(posted) \cup {n}
    BY <1>1, <1>2
  <2>2. \A i \in store : i \in 1..Len(posted) /\ i \in store'
    BY <1>1, <1>2
  <2>3. \A i \in store' : i \in store \/ i = n
    BY <1>1
  <2>4. MessagesOf(h) \subseteq MessagesOf(h)'
    BY <1>3, <2>2 DEF MessagesOf
  <2>5. ASSUME NEW i \in MessagesOf(h)' PROVE i \in MessagesOf(h) \/ (i = n /\ h = g)
    BY <1>3, <2>2, <2>3, <2>5 DEF MessagesOf
  <2> QED
    BY <2>4, <2>5
<1>8. router.pc # "idle" => Current \in Groups /\ Current' = Current
  <2>1. ASSUME router.pc # "idle" PROVE Min(router.batch) \in 1..Len(posted) /\ Current \in Groups
    BY <1>1, <1>2, <2>1, CurrentIsGroup DEF RouterOK
  <2> QED
    BY <1>1, <1>3, <2>1 DEF Current
<1>9. /\ RouteLast' = RouteLast /\ (Routing => RouteLast \in 1..Len(posted))
      /\ \A h \in Groups : RunLast(h)' = RunLast(h)
      /\ \A h \in Groups : run[h].missed # {} => RunLast(h) \in 1..Len(posted)
  <2>1. Routing => RouteLast \in 1..Len(posted)
    BY RouterFacts
  <2>2. \A h \in Groups : run[h].missed # {} => RunLast(h) \in 1..Len(posted)
    BY <1>1, RunLastIsLast DEF PInv, InHand
  <2> QED
    BY <1>1, <2>1, <2>2 DEF RouteLast, RunLast
<1>10. RouterOK'
  <2>1. \A i \in router.batch : /\ Chat(i)' = Chat(i)
                                /\ Visible(i)' <=> Visible(i)
    <3>1. router.batch \subseteq 1..Len(posted)
      <4>1. router.batch \subseteq store
        BY <1>1 DEF RouterOK, IdleRouter
      <4> QED
        BY <1>2, <4>1
    <3> QED
      BY <1>3, <3>1
  <2>2. Routing => /\ router.pending \subseteq MessagesOf(Current)'
                   /\ Kind(RouteLast)' = Kind(RouteLast)
    BY <1>1, <1>3, <1>7, <1>8, <1>9 DEF RouterOK, Routing
  <2> QED
    BY <1>1, <1>8, <1>9, <2>1, <2>2 DEF RouterOK, Routing
<1>11. ASSUME NEW h \in Groups PROVE RunOK(h)' /\ CursorOK(h)'
  <2>1. /\ RunOK(h) /\ CursorOK(h) /\ run[h].missed \subseteq MessagesOf(h)
        /\ run[h].missed \subseteq 1..Len(posted)
    BY <1>2 DEF PInv, InHand, RunOK, MessagesOf
  <2>2. RunOK(h)'
    BY <1>1, <1>3, <1>7, <1>9, <2>1 DEF RunOK, Holding, vars
  <2>3. CursorOK(h)'
    <3>1. \A i \in 1..n : i \in 1..Len(posted) \/ i = n
      BY <1>2
    <3>2. ~(n <= last_agent_timestamp[h])
      BY <1>1, <1>2 DEF InBounds, Posted
    <3> QED
      BY <1>1, <1>3, <1>9, <2>1, <3>1, <3>2 DEF CursorOK, Holding, Answering, cursors
  <2> QED
    BY <2>2, <2>3
<1>12. Deciding' => NewerOK(Current)'
  <2> SUFFICES ASSUME Deciding PROVE NewerOK(Current)'
    BY <1>1 DEF Deciding
  <2>1. PICK h \in Groups : h = Current /\ h = Current'
    BY <1>8 DEF Deciding
  <2>2. NewerOK(h)
    BY <2>1 DEF PInv, InHand
  <2>3. NewerOK(h)'
    <3>1. /\ ~(n <= last_agent_timestamp[h]) /\ ~(n <= run[h].previous)
          /\ Holding(h) => ~(n <= RunLast(h))
      <4>1. Holding(h) => RunLast(h) \in 1..Len(posted)
        BY <1>9 DEF PInv, InHand, RunOK
      <4> QED
        BY <1>1, <1>2, <4>1 DEF InBounds, Posted
    <3>2. MessagesOf(h) \subseteq 1..Len(posted)
      BY <1>2 DEF MessagesOf
    <3> QED
      BY <1>1, <1>3, <1>7, <1>9, <2>2, <3>1, <3>2 DEF NewerOK, Holding, Answering, cursors
  <2> QED
    BY <2>1, <2>3
<1>13. ASSUME NEW h \in Groups PROVE Looks(h)'
  <2> SUFFICES ASSUME NEW i \in MessagesOf(h)', Unseen(h, i)'
               PROVE  /\ i > last_timestamp \/ i \in router.batch \/ HandedOn(h, i)'
                      /\ Behind(h, i)' => HandedOn(h, i)'
    BY <1>1 DEF Looks, cursors
  <2>1. Behind(h, i)' => Behind(h, i)
    BY <1>1, <1>8, <1>9 DEF Behind, vars, cursors
  <2>2. CASE i \in MessagesOf(h)
    <3>1. Unseen(h, i) /\ i \in 1..Len(posted)
      BY <1>1, <1>2, <1>3, <2>2 DEF Unseen, MessagesOf, vars, cursors, history
    <3>2. i \in NotPolledAgain(h) => i \in NotPolledAgain(h)'
      <4>1. i \in store' /\ Visible(i)' /\ Chat(i)' = h
        BY <1>1, <1>3, <2>2, <3>1 DEF MessagesOf
      <4> QED
        BY <1>1, <1>8, <1>9, <4>1 DEF NotPolledAgain, MessagesSince, cursors
    <3>3. HandedOn(h, i) => HandedOn(h, i)'
      BY <1>1, <3>2 DEF HandedOn, Starting, Awaited, vars
    <3> QED
      BY <2>1, <2>2, <3>1, <3>3 DEF PInv, SomebodyLooks, Looks
  <2>3. CASE i = n
    <3>1. i > last_timestamp /\ ~(i <= dispatched_through[h])
      BY <1>1, <1>2, <2>3 DEF InBounds, Posted
    <3>2. Routing => ~(i <= RouteLast)
      BY <1>2, <1>9, <2>3
    <3>3. run[h].pc = "fetched" => ~(i <= RunLast(h))
      <4>1. run[h].pc = "fetched" => RunLast(h) \in 1..Len(posted)
        BY <1>9 DEF PInv, InHand, RunOK, Holding
      <4> QED
        BY <1>2, <2>3, <4>1
    <3>4. ~Behind(h, i)
      BY <3>1, <3>2, <3>3 DEF Behind, Routing
    <3> QED
      BY <2>1, <3>1, <3>4
  <2> QED
    BY <1>7, <2>2, <2>3
<1> QED
  BY <1>4, <1>5, <1>6, <1>10, <1>11, <1>12, <1>13 DEF PInv, InHand, SomebodyLooks

\* The reconciler stores a message under its old timestamp and keeps it in hand until the
\* message check.
LEMMA ReconcileIngestKeeps ==
  ASSUME PInv, NEW m \in 1..Len(posted), ReconcileIngest(m)
  PROVE  PInv'
<1>1. /\ IInv /\ PTypeOK /\ InBounds /\ RouterOK /\ router.pc = "idle"
      /\ store' = store \cup {m}
      /\ router' = [pc |-> "reconciled", batch |-> {m}, pending |-> {}]
      /\ UNCHANGED <<vars, posted, cursors, reset_prompt, run, booting, crashes, history>>
  BY RouterFacts DEF ReconcileIngest
<1>2. m \in Ids /\ m \in 1..Len(posted) /\ store \subseteq 1..Len(posted)
  BY <1>1, Stored
<1>3. IInv'
  BY <1>1, NextIInv
<1>4. /\ router'.pc = "reconciled" /\ router'.batch = {m} /\ router' \in RouterStates
  BY <1>1, <1>2 DEF RouterStates
<1>5. PTypeOK'
  BY <1>1, <1>2, <1>4 DEF PTypeOK, vars, cursors, history, RouterStates
<1>6. InBounds' /\ RouterOK'
  BY <1>1, <1>4 DEF InBounds, Posted, cursors, RouterOK, Routing
<1>7. /\ \A h \in Groups : /\ MessagesOf(h) \subseteq MessagesOf(h)'
                           /\ \A i \in MessagesOf(h)' : i \in MessagesOf(h) \/ i = m
                           /\ RunLast(h)' = RunLast(h)
      /\ \A i : /\ Chat(i)' = Chat(i) /\ Kind(i)' = Kind(i)
                /\ Wakes(i)' <=> Wakes(i)
                /\ TakenCareOf(i)' <=> TakenCareOf(i)
  BY <1>1 DEF MessagesOf, Chat, Kind, Visible, Wakes, TakenCareOf, PassedOver, RunLast, history
<1>8. ASSUME NEW h \in Groups PROVE RunOK(h)' /\ CursorOK(h)'
  <2>1. RunOK(h) /\ CursorOK(h)
    BY DEF PInv, InHand
  <2>2. RunOK(h)'
    BY <1>1, <1>7, <2>1 DEF RunOK, Holding, vars
  <2>3. CursorOK(h)'
    BY <1>1, <1>7, <2>1 DEF CursorOK, Holding, Answering, cursors
  <2> QED
    BY <2>2, <2>3
<1>9. ASSUME NEW h \in Groups PROVE Looks(h)'
  <2> SUFFICES ASSUME NEW i \in MessagesOf(h)', Unseen(h, i)' PROVE HandedOn(h, i)' \/ (i > last_timestamp' /\ ~Behind(h, i)')
    BY DEF Looks
  <2>1. CASE i = m
    BY <1>4, <2>1 DEF HandedOn
  <2>2. CASE i \in MessagesOf(h)
    <3>1. Unseen(h, i)
      BY <1>1, <1>7 DEF Unseen, vars, cursors, history
    <3>2. i \in NotPolledAgain(h) => i \in NotPolledAgain(h)'
      BY <1>1 DEF NotPolledAgain, MessagesSince, cursors, Chat, Kind, Visible
    <3>3. HandedOn(h, i) => HandedOn(h, i)'
      BY <1>1, <3>2 DEF HandedOn, Starting, Awaited, vars
    <3>4. Behind(h, i)' => Behind(h, i)
      BY <1>1, <1>4, <1>7 DEF Behind, vars, cursors
    <3>5. i \notin router.batch
      BY <1>1 DEF RouterOK, IdleRouter
    <3> QED
      BY <1>1, <2>2, <3>1, <3>3, <3>4, <3>5 DEF PInv, SomebodyLooks, Looks, cursors
  <2> QED
    BY <1>7, <2>1, <2>2
<1> QED
  BY <1>3, <1>4, <1>5, <1>6, <1>8, <1>9 DEF PInv, InHand, SomebodyLooks, Deciding

-----------------------------------------------------------------------------
(* Crashes, and the theorems.                                              *)

\* After a restart every group awaits the recovery.
LEMMA CrashKeeps ==
  ASSUME PInv, Crash, IInv'
  PROVE  PInv'
<1>1. /\ PTypeOK /\ InBounds /\ MaxCrashes \in Nat
      /\ crashes < MaxCrashes /\ crashes' = crashes + 1
      /\ runs' = [g \in Groups |-> <<>>]
      /\ group_folder' = [g \in Groups |-> FALSE]
      /\ last_timestamp' = saved.seen /\ last_agent_timestamp' = saved.agent
      /\ dispatched_through' = Zero
      /\ router' = IdleRouter /\ run' = [g \in Groups |-> IdleRun]
      /\ booting' = Groups
      /\ piped' = {} /\ gave_up' = {}
      /\ UNCHANGED <<messages, saved, reset_prompt, done, executed>>
  BY RouterFacts, PipelineBoundsNat DEF Crash, RecoverAll
<1>2. Len(posted) \in Nat /\ MaxMessages \in Nat /\ 0 \in Posted /\ 0 \in 0..MaxMessages
  BY <1>1, Stored DEF Posted
<1>3. /\ router' \in RouterStates /\ IdleRun \in RunStates
      /\ \A g \in Groups : run'[g] = IdleRun
  BY <1>1, <1>2 DEF RouterStates, RunStates, IdleRouter, IdleRun
<1>4. PTypeOK'
  <2>1. /\ last_timestamp' \in 0..MaxMessages
        /\ last_agent_timestamp' \in [Groups -> 0..MaxMessages]
        /\ dispatched_through' \in [Groups -> 0..MaxMessages]
    BY <1>1, <1>2 DEF PTypeOK, Zero
  <2>2. crashes' \in 0..MaxCrashes
    BY <1>1 DEF PTypeOK
  <2>3. router' \in RouterStates /\ run' \in [Groups -> RunStates]
    BY <1>1, <1>3
  <2>4. \A g \in Groups : run'[g].pc = "idle"
    BY <1>3 DEF IdleRun
  <2> QED
    BY <1>1, <2>1, <2>2, <2>3, <2>4 DEF PTypeOK, messages, RouterStates, RunStates
<1>5. InBounds'
  BY <1>1, <1>2, <1>3 DEF InBounds, Posted, messages, Zero, IdleRun
<1>6. RouterOK' /\ ~Deciding'
  BY <1>1 DEF RouterOK, Routing, IdleRouter, Deciding
<1>7. ASSUME NEW g \in Groups PROVE RunOK(g)' /\ CursorOK(g)' /\ Looks(g)'
  <2>1. run'[g].pc = "idle" /\ run'[g].missed = {} /\ ~group_folder'[g]
    BY <1>1, <1>3 DEF IdleRun
  <2>2. RunOK(g)'
    BY <2>1 DEF RunOK, Holding
  <2>3. CursorOK(g)'
    BY <2>1 DEF CursorOK, Holding, Answering
  <2>4. Looks(g)'
    BY <1>1 DEF Looks, HandedOn, Awaited
  <2> QED
    BY <2>2, <2>3, <2>4
<1> QED
  BY <1>4, <1>5, <1>6, <1>7 DEF PInv, InHand, SomebodyLooks

\* The state a restart finds is an initial state of the queue.
LEMMA CrashInit == Crash => Init'
BY DEF Crash, Init, Zero

\* Nothing was posted, so nothing is owed.
LEMMA InitPInv == PInit => PInv
<1> SUFFICES ASSUME PInit PROVE PInv
  OBVIOUS
<1>1. IInv
  BY InitIInv DEF PInit
<1>2. /\ MaxMessages \in Nat /\ MaxCrashes \in Nat /\ 0 \in 0..MaxMessages
      /\ posted = <<>> /\ Len(posted) = 0 /\ store = {}
      /\ IdleRun \in RunStates /\ IdleRouter \in RouterStates
  BY PipelineBoundsNat DEF PInit, RunStates, RouterStates, IdleRun, IdleRouter
<1>3. PTypeOK
  <2>1. <<>> \in Seq([chat : Groups, kind : Kinds])
    OBVIOUS
  <2>2. router \in RouterStates /\ run \in [Groups -> RunStates] /\ \A g \in Groups : run[g].pc = "idle"
    BY <1>2 DEF PInit, IdleRun
  <2>3. /\ saved \in [seen : 0..MaxMessages, agent : [Groups -> 0..MaxMessages]]
        /\ last_agent_timestamp \in [Groups -> 0..MaxMessages]
        /\ dispatched_through \in [Groups -> 0..MaxMessages]
    BY <1>2 DEF PInit, Zero
  <2> QED
    BY <1>2, <2>1, <2>2, <2>3 DEF PInit, PTypeOK, RouterStates, RunStates
<1>4. InBounds
  BY <1>2 DEF PInit, InBounds, Posted, Zero, IdleRun
<1>5. RouterOK /\ ~Deciding
  BY DEF PInit, RouterOK, Routing, Deciding, IdleRouter
<1>6. \A g \in Groups : RunOK(g) /\ CursorOK(g) /\ Looks(g)
  BY <1>2 DEF PInit, Init, RunOK, CursorOK, Looks, Holding, Answering, IdleRun, MessagesOf
<1> QED
  BY <1>1, <1>3, <1>4, <1>5, <1>6 DEF PInv, InHand, SomebodyLooks

\* A stuttering step.
LEMMA StutterKeeps ==
  ASSUME PInv, UNCHANGED allvars
  PROVE  PInv'
<1>1. IInv /\ reset_prompt \in [Groups -> BOOLEAN]
  BY RouterFacts DEF PTypeOK
<1>2. UNCHANGED vars /\ UNCHANGED pvars
  BY DEF allvars
<1>3. IInv' /\ \A h \in Groups : QueueMoves(h)
  BY <1>1, <1>2, NextIInv, QuietMoves DEF vars
<1> QED
  BY <1>1, <1>2, <1>3, OnlyQueueMoves DEF pvars

\* Every step but a crash, whose queue starts anew, keeps the inductive invariant.
LEMMA StepKeeps == PInv /\ (PNext \/ UNCHANGED allvars) /\ ~Crash => PInv'
<1> SUFFICES ASSUME PInv, PNext \/ UNCHANGED allvars, ~Crash PROVE PInv'
  OBVIOUS
<1>1. CASE UNCHANGED allvars
  BY <1>1, StutterKeeps
<1>2. CASE QueueStep
  BY <1>2, QueueStepKeeps
<1>3. ASSUME NEW g \in Groups, NEW k \in Kinds, Post(g, k) PROVE PInv'
  BY <1>3, PostKeeps
<1>4. ASSUME NEW i \in 1..Len(posted), ReconcileIngest(i) PROVE PInv'
  BY <1>4, ReconcileIngestKeeps
<1>5. ASSUME ~draining, ReconcileEnqueue PROVE PInv'
  BY <1>5, ReconcileEnqueueKeeps
<1>6. ASSUME ~draining, RouterStep PROVE PInv'
  BY <1>6, RouterStepKeeps
<1>7. ASSUME ~draining, NEW g \in Groups,
             \/ Recover(g) \/ RunCoroutine(g)
             \/ AgentRegisters(g) \/ AgentSends(g) \/ AgentResets(g)
      PROVE  PInv'
  BY <1>7, RecoverKeeps, RunCoroutineKeeps, AgentRegistersKeeps, AgentSendsKeeps, AgentResetsKeeps
<1> QED
  BY <1>1, <1>2, <1>3, <1>4, <1>5, <1>6, <1>7 DEF PNext

\* The inductive invariant holds in every state the pipeline reaches: what the cursors,
\* the markers, the router and the runs cover, and who looks at the rest.
THEOREM PipelineInvariant == PSpec => []PInv
<1>1. PInv /\ [PNext]_allvars => PInv'
  <2>1. Init' => IInv'
    BY InitIInv, PTL
  <2>2. PInv /\ Crash => PInv'
    BY <2>1, CrashInit, CrashKeeps
  <2> QED
    BY <2>2, StepKeeps
<1> QED
  BY <1>1, InitPInv, PTL DEF PSpec

\* Cursors, router and runs keep their types, and a coroutine is at work only in a group
\* whose queue runs its messages.
THEOREM PipelineTypes == PSpec => []PTypeOK
BY PipelineInvariant, PTL DEF PInv

\* Whatever router, runs, queue, reconciler, failing saves and crashes do: a stored message
\* that wakes the agent and is not processed is one somebody still looks at, or it was
\* piped, given up after the last retry, or passed over by a later command.
THEOREM NobodyIsForgotten == PSpec => []NoMessageStranded
<1>1. PInv => NoMessageStranded
  <2> SUFFICES ASSUME PInv, NEW i \in store, Unprocessed(i), Wakes(i), ~shutting_down,
                      i \notin piped \cup gave_up, ~PassedOver(i)
               PROVE  LookedAtLater(Chat(i), i)
    BY DEF NoMessageStranded
  <2>1. PICK g \in Groups : g = Chat(i)
    BY RouterFacts, Stored
  <2>2. i \in MessagesOf(g) /\ Unseen(g, i)
    BY <2>1 DEF Unprocessed, MessagesOf, Unseen, TakenCareOf
  <2>3. i > last_timestamp \/ i \in router.batch \/ HandedOn(g, i)
    BY <2>2 DEF PInv, SomebodyLooks, Looks
  <2> QED
    BY <2>1, <2>3 DEF LookedAtLater, HandedOn, Starting, Awaited
<1> QED
  BY <1>1, PipelineInvariant, PTL

\* The queue keeps its guarantees under the calls the pipeline makes: one run per group,
\* the limit, no lost work and no stale input, also across a crash.
THEOREM QueueStaysSound == PSpec => []QueueStaysSafe
<1>1. PInv => QueueStaysSafe
  BY DEF PInv, IInv, QueueStaysSafe
<1> QED
  BY <1>1, PipelineInvariant, PTL

\* No message is forgotten, and the queue that would have to know stays sound.
THEOREM PipelineIsSafe == PSpec => []PipelineSafe
<1>1. NoMessageStranded /\ QueueStaysSafe => PipelineSafe
  BY DEF PipelineSafe
<1> QED
  BY <1>1, NobodyIsForgotten, QueueStaysSound, PTL

-----------------------------------------------------------------------------
(* The cursors and what was answered, where no command moves a cursor and  *)
(* no message arrives late: the other two ways are findings of the runs    *)
(* (RedeployCursorDurable, RecoveredIsProcessed).                          *)

OnlyMessages == LateArrivals = FALSE /\ Kinds \cap {"command", "reset", "redeploy"} = {}

\* While a run is at work: what is beyond the cursor is in its hands, or came after its
\* query and is below a marker, or about to be, only when it was piped.
Covered(g, i) ==
  \/ i \in run[g].missed
  \/ /\ i > RunLast(g)
     /\ i <= dispatched_through[g] => i \in piped
     /\ router.pc = "mark" /\ Current = g /\ i <= RouteLast => i \in piped
     /\ router.pc = "decide" /\ Current = g /\ i <= RouteLast => i \in router.pending \cup piped

CursorOfRun(g) ==
  /\ Answering(g) => run[g].previous = last_agent_timestamp[g]
  /\ Holding(g) => /\ \A i \in run[g].missed : i > last_agent_timestamp[g]
                   /\ \A i \in MessagesOf(g) : i > last_agent_timestamp[g] => Covered(g, i)

\* The cursor of a group covers exactly what was answered, on disk and in memory.
CursorIsExact(g) ==
  /\ saved.agent[g] = last_agent_timestamp[g]
  /\ \A i \in MessagesOf(g) : i <= last_agent_timestamp[g] => i \in done
  /\ \A i \in store : Chat(i) = g /\ i \in done => i <= last_agent_timestamp[g]

CInv == /\ store = 1..Len(posted)
        /\ \A g \in Groups : CursorOfRun(g) /\ CursorIsExact(g)

\* No command reaches the router or a run.
LEMMA NoCommand ==
  ASSUME OnlyMessages, PInv, NEW i \in 1..Len(posted)
  PROVE  Kind(i) \notin {"command", "reset", "redeploy"}
<1>1. PTypeOK
  BY DEF PInv
<1> QED
  BY <1>1, Stored DEF OnlyMessages

\* A cursor that stays is as exact as it was.
LEMMA ExactStays ==
  ASSUME NEW g \in Groups, CursorIsExact(g), UNCHANGED messages, done' = done,
         last_agent_timestamp'[g] = last_agent_timestamp[g], saved'.agent[g] = saved.agent[g]
  PROVE  CursorIsExact(g)'
BY DEF CursorIsExact, messages, MessagesOf, Chat, Kind, Visible

\* What a run covers stays covered while run, marker and router leave it alone.
LEMMA CoveredStays ==
  ASSUME NEW g \in Groups, CursorOfRun(g), UNCHANGED messages,
         last_agent_timestamp'[g] = last_agent_timestamp[g],
         run'[g].missed = run[g].missed, run'[g].previous = run[g].previous,
         Holding(g)' => Holding(g) /\ dispatched_through'[g] = dispatched_through[g],
         Answering(g)' => Answering(g),
         \A i \in MessagesOf(g) : Holding(g)' /\ i \in piped => i \in piped',
         UNCHANGED router \/ router'.pc \notin {"mark", "decide"} \/ Current' # g
  PROVE  CursorOfRun(g)'
<1>1. MessagesOf(g)' = MessagesOf(g) /\ RunLast(g)' = RunLast(g)
      /\ (UNCHANGED router => Current' = Current /\ RouteLast' = RouteLast)
  BY DEF messages, MessagesOf, Chat, Kind, Visible, RunLast, Current, RouteLast
<1>2. \A i \in MessagesOf(g) : Holding(g)' /\ Covered(g, i) => Covered(g, i)'
  BY <1>1 DEF Covered
<1> QED
  BY <1>1, <1>2 DEF CursorOfRun

\* A step that moves neither cursors nor what runs and router have in hand.
LEMMA QuietCursors ==
  ASSUME CInv, UNCHANGED <<messages, cursors, done, piped>>,
         UNCHANGED router \/ router'.pc \notin {"mark", "decide"},
         \A g \in Groups : /\ run'[g].missed = run[g].missed /\ run'[g].previous = run[g].previous
                           /\ Holding(g)' => Holding(g)
                           /\ Answering(g)' => Answering(g)
  PROVE  CInv'
<1>1. ASSUME NEW g \in Groups PROVE CursorOfRun(g)' /\ CursorIsExact(g)'
  BY ExactStays, CoveredStays DEF CInv, cursors
<1> QED
  BY <1>1 DEF CInv, messages

\* A step of the run of g, seen from the other groups.
LEMMA OtherCursors ==
  ASSUME CInv, UNCHANGED <<messages, router>>, NEW g \in Groups, NEW h \in Groups, h # g,
         NEW r, run' = [run EXCEPT ![g] = r], run \in [Groups -> RunStates],
         last_agent_timestamp'[h] = last_agent_timestamp[h],
         saved'.agent[h] = saved.agent[h],
         dispatched_through'[h] = dispatched_through[h],
         \A i \in MessagesOf(h) : i \in piped => i \in piped',
         \A i \in store : Chat(i) = h => (i \in done' <=> i \in done)
  PROVE  CursorOfRun(h)' /\ CursorIsExact(h)'
<1>1. run'[h] = run[h]
  OBVIOUS
<1>2. CursorOfRun(h)'
  BY <1>1, CoveredStays DEF CInv, Holding, Answering
<1>3. CursorIsExact(h)'
  BY DEF CInv, CursorIsExact, messages, MessagesOf, Chat, Kind, Visible
<1> QED
  BY <1>2, <1>3

\* A run asks for what is beyond the cursor: all of it is in its hands.
LEMMA FetchCursors ==
  ASSUME PInv, CInv, NEW g \in Groups, RunFetch(g)
  PROVE  CInv'
<1> DEFINE missed == MessagesSince(g, last_agent_timestamp[g])
           r == IF missed = {} THEN [run[g] EXCEPT !.pc = "return", !.outcome = "success"]
                ELSE [IdleRun EXCEPT !.pc = "fetched", !.missed = missed]
<1>1. /\ run \in [Groups -> RunStates] /\ run[g] \in RunStates /\ run' = [run EXCEPT ![g] = r]
      /\ UNCHANGED <<messages, cursors, router, done, piped>>
  BY RunFacts DEF RunFetch, RunEnds, RunStep, history
<1>2. run'[g] = r
  BY <1>1
<1>3. ~Answering(g)'
  <2>1. r.pc \in {"return", "fetched"}
    BY <1>1 DEF RunStates, IdleRun
  <2> QED
    BY <1>2, <2>1 DEF Answering
<1>4. CursorOfRun(g)'
  <2>1. CASE missed = {}
    <3>1. r.pc = "return"
      BY <1>1, <2>1 DEF RunStates
    <3> QED
      BY <1>2, <1>3, <3>1 DEF CursorOfRun, Holding
  <2>2. CASE missed # {}
    <3>1. run'[g].missed = missed
      BY <1>2, <2>2 DEF IdleRun
    <3>2. /\ \A i \in MessagesOf(g)' : i > last_agent_timestamp'[g] => i \in missed
          /\ \A i \in missed : i > last_agent_timestamp'[g]
      BY <1>1 DEF MessagesOf, MessagesSince, messages, cursors, Chat, Kind, Visible
    <3> QED
      BY <1>3, <3>1, <3>2 DEF CursorOfRun, Covered
  <2> QED
    BY <2>1, <2>2
<1>5. CursorIsExact(g)'
  BY <1>1, ExactStays DEF CInv, cursors
<1> HIDE DEF r
<1>6. ASSUME NEW h \in Groups, h # g PROVE CursorOfRun(h)' /\ CursorIsExact(h)'
  BY <1>1, <1>6, OtherCursors DEF cursors
<1> QED
  BY <1>1, <1>4, <1>5, <1>6 DEF CInv, messages

\* The run marks what it has in hand; nothing beyond it is below the marker.
LEMMA AgentCursors ==
  ASSUME PInv, CInv, NEW g \in Groups, RunAgent(g)
  PROVE  CInv'
<1> DEFINE r == [run[g] EXCEPT !.pc = "agent", !.previous = last_agent_timestamp[g]]
<1>1. /\ run \in [Groups -> RunStates] /\ run[g] \in RunStates /\ run' = [run EXCEPT ![g] = r]
      /\ dispatched_through' = [dispatched_through EXCEPT ![g] = RunLast(g)]
      /\ UNCHANGED <<messages, last_agent_timestamp, saved, router, done, piped>>
      /\ PTypeOK /\ RunOK(g) /\ Holding(g) /\ dispatched_through \in [Groups -> 0..MaxMessages]
  BY RunFacts DEF RunAgent, ForAgent, RunOf, RunStep, history, Holding, PTypeOK
<1>2. /\ run'[g].missed = run[g].missed /\ run'[g].previous = last_agent_timestamp[g]
      /\ dispatched_through'[g] = RunLast(g) /\ RunLast(g)' = RunLast(g)
      /\ \A h \in Groups \ {g} : dispatched_through'[h] = dispatched_through[h]
  BY <1>1 DEF RunStates, RunLast
<1>3. RunLast(g) \in Nat /\ MessagesOf(g) \subseteq Nat
  <2>1. run[g].missed # {}
    BY <1>1 DEF RunOK
  <2> QED
    BY <1>1, <2>1, RunLastIsLast, Stored DEF MessagesOf
<1>4. CursorOfRun(g)'
  <2>1. ASSUME NEW i \in MessagesOf(g), Covered(g, i) PROVE Covered(g, i)'
    <3>1. i > RunLast(g) => ~(i <= RunLast(g))
      BY <1>3
    <3> QED
      BY <1>1, <1>2, <2>1, <3>1 DEF Covered, Current, RouteLast, Chat, messages
  <2>2. MessagesOf(g)' = MessagesOf(g)
    BY <1>1 DEF messages, MessagesOf, Chat, Kind, Visible
  <2> QED
    BY <1>1, <1>2, <2>1, <2>2 DEF CInv, CursorOfRun
<1>5. CursorIsExact(g)'
  BY <1>1, ExactStays DEF CInv
<1> HIDE DEF r
<1>6. ASSUME NEW h \in Groups, h # g PROVE CursorOfRun(h)' /\ CursorIsExact(h)'
  BY <1>1, <1>2, <1>6, OtherCursors
<1> QED
  BY <1>1, <1>4, <1>5, <1>6 DEF CInv, messages

\* The run moves the cursor over what it had in hand and over what was piped to it below
\* the marker, or leaves it where it was when the save fails.
LEMMA AdvanceCursors ==
  ASSUME PInv, CInv, NEW g \in Groups, NEW ok \in BOOLEAN, RunAdvances(g, ok)
  PROVE  CInv'
<1> DEFINE r == [run[g] EXCEPT !.pc = "return", !.outcome = IF ok THEN "success" ELSE "exception"]
           to == IF ok THEN FinalCursor(g) ELSE run[g].previous
<1>1. /\ run \in [Groups -> RunStates] /\ run[g] \in RunStates /\ run' = [run EXCEPT ![g] = r]
      /\ dispatched_through' = [dispatched_through EXCEPT ![g] = 0]
      /\ last_agent_timestamp' = [last_agent_timestamp EXCEPT ![g] = to]
      /\ SaveState(ok)
      /\ done' = IF ok THEN done \cup run[g].missed \cup {i \in Own(g) : i <= dispatched_through[g]}
                 ELSE done
      /\ UNCHANGED <<messages, router, piped>>
      /\ PTypeOK /\ RunOK(g) /\ Answering(g) /\ Holding(g) /\ CursorOfRun(g) /\ CursorIsExact(g)
      /\ run[g].missed \subseteq MessagesOf(g) /\ piped \subseteq store
  BY RunFacts DEF RunAdvances, RunOf, RunEnds, RunStep, Holding, Answering, PTypeOK, CInv, Processed, Answered
<1>2. /\ last_agent_timestamp \in [Groups -> Nat] /\ dispatched_through \in [Groups -> Nat]
      /\ RunLast(g) \in Nat /\ MessagesOf(g) \subseteq Nat /\ store \subseteq Nat
      /\ run[g].previous = last_agent_timestamp[g]
      /\ \A i \in run[g].missed : i <= RunLast(g)
      /\ RunLast(g) > last_agent_timestamp[g]
  <2>1. run[g].missed # {}
    BY <1>1 DEF RunOK
  <2>2. /\ RunLast(g) \in Nat /\ MessagesOf(g) \subseteq Nat /\ store \subseteq Nat
        /\ \A i \in run[g].missed : i <= RunLast(g)
        /\ RunLast(g) \in run[g].missed
    BY <1>1, <2>1, RunLastIsLast, Stored DEF MessagesOf
  <2>3. last_agent_timestamp \in [Groups -> Nat] /\ dispatched_through \in [Groups -> Nat]
    BY <1>1, RunFacts, BooksBefore
  <2>4. /\ run[g].previous = last_agent_timestamp[g]
        /\ \A i \in run[g].missed : i > last_agent_timestamp[g]
    BY <1>1 DEF CursorOfRun
  <2> QED
    BY <2>2, <2>3, <2>4
<1>3. /\ FinalCursor(g) \in {RunLast(g), dispatched_through[g]} /\ FinalCursor(g) \in Nat
      /\ FinalCursor(g) >= RunLast(g) /\ FinalCursor(g) >= dispatched_through[g]
  <2>1. dispatched_through[g] \in Nat
    BY <1>2
  <2> QED
    BY <1>2, <2>1, MaxOfTwo DEF FinalCursor
<1>4. /\ last_agent_timestamp'[g] = to
      /\ \A h \in Groups \ {g} : /\ last_agent_timestamp'[h] = last_agent_timestamp[h]
                                 /\ dispatched_through'[h] = dispatched_through[h]
      /\ run'[g].pc = "return"
  BY <1>1, <1>2 DEF RunStates
<1>5. \A h \in Groups : saved'.agent[h] = last_agent_timestamp'[h]
  <2>1. CASE ok
    BY <1>1, <2>1 DEF SaveState
  <2>2. CASE ~ok
    BY <1>1, <1>2, <1>4, <2>2 DEF SaveState, CInv, CursorIsExact
  <2> QED
    BY <2>1, <2>2
<1>6. CursorOfRun(g)'
  BY <1>4 DEF CursorOfRun, Answering, Holding
<1>7. CursorIsExact(g)'
  <2>1. CASE ~ok
    BY <1>1, <1>2, <1>4, <1>5, <2>1 DEF CursorIsExact, messages, MessagesOf, Chat, Kind, Visible
  <2>2. CASE ok
    <3>1. /\ done' = done \cup run[g].missed \cup {i \in Own(g) : i <= dispatched_through[g]}
          /\ last_agent_timestamp'[g] = FinalCursor(g)
      BY <1>1, <1>4, <2>2
    <3>2. ASSUME NEW i \in MessagesOf(g), i <= FinalCursor(g) PROVE i \in done'
      <4>1. i \in Nat /\ i \in store /\ Chat(i) = g /\ last_agent_timestamp[g] \in Nat
        BY <1>2, <3>2 DEF MessagesOf
      <4>2. CASE i <= last_agent_timestamp[g]
        BY <1>1, <3>1, <4>2 DEF CursorIsExact
      <4>3. CASE i > last_agent_timestamp[g] /\ i \notin run[g].missed
        <5>1. i > RunLast(g) /\ (i <= dispatched_through[g] => i \in piped)
          BY <1>1, <4>3 DEF CursorOfRun, Covered
        <5>2. i <= dispatched_through[g]
          <6>1. dispatched_through[g] \in Nat
            BY <1>2
          <6> QED
            BY <1>2, <1>3, <3>2, <4>1, <5>1, <6>1
        <5> QED
          BY <3>1, <4>1, <5>1, <5>2 DEF Own
      <4> QED
        BY <3>1, <4>1, <4>2, <4>3
    <3>3. ASSUME NEW i \in store, Chat(i) = g, i \in done' PROVE i <= FinalCursor(g)
      <4>1. i \in Nat /\ dispatched_through[g] \in Nat /\ last_agent_timestamp[g] \in Nat
        BY <1>2
      <4>2. CASE i \in done
        <5>1. i <= last_agent_timestamp[g]
          BY <1>1, <3>3, <4>2 DEF CursorIsExact
        <5> QED
          BY <1>2, <1>3, <4>1, <5>1
      <4>3. CASE i \in run[g].missed
        BY <1>2, <1>3, <4>1, <4>3
      <4>4. CASE i <= dispatched_through[g]
        BY <1>3, <4>1, <4>4
      <4> QED
        BY <3>1, <3>3, <4>2, <4>3, <4>4
    <3>4. store' = store /\ MessagesOf(g)' = MessagesOf(g) /\ \A i : Chat(i)' = Chat(i)
      BY <1>1 DEF messages, MessagesOf, Chat, Kind, Visible
    <3> QED
      BY <1>4, <1>5, <3>1, <3>2, <3>3, <3>4 DEF CursorIsExact
  <2> QED
    BY <2>1, <2>2
<1> HIDE DEF r, to
<1>8. ASSUME NEW h \in Groups, h # g PROVE CursorOfRun(h)' /\ CursorIsExact(h)'
  <2>1. saved'.agent[h] = saved.agent[h]
    BY <1>4, <1>5, <1>8 DEF CInv, CursorIsExact
  <2>2. ASSUME NEW i \in store, Chat(i) = h PROVE i \in done' <=> i \in done
    BY <1>1, <1>8, <2>2 DEF Own, MessagesOf
  <2> QED
    BY <1>1, <1>4, <1>8, <2>1, <2>2, OtherCursors
<1> QED
  BY <1>1, <1>6, <1>7, <1>8 DEF CInv, messages

\* A failed run drops its marker and leaves the cursor.
LEMMA FailCursors ==
  ASSUME PInv, CInv, NEW g \in Groups, RunFails(g)
  PROVE  CInv'
<1> DEFINE r == [run[g] EXCEPT !.pc = "return", !.outcome = "failure"]
<1>1. /\ run \in [Groups -> RunStates] /\ run[g] \in RunStates /\ run' = [run EXCEPT ![g] = r]
      /\ dispatched_through' = [dispatched_through EXCEPT ![g] = 0]
      /\ UNCHANGED <<messages, last_agent_timestamp, saved, router, done, piped>>
      /\ dispatched_through \in [Groups -> 0..MaxMessages]
  BY RunFacts DEF RunFails, RunEnds, RunStep, history, PTypeOK
<1>2. /\ run'[g].pc = "return"
      /\ \A h \in Groups \ {g} : dispatched_through'[h] = dispatched_through[h]
  BY <1>1 DEF RunStates
<1>3. CursorOfRun(g)'
  BY <1>2 DEF CursorOfRun, Answering, Holding
<1>4. CursorIsExact(g)'
  BY <1>1, ExactStays DEF CInv
<1> HIDE DEF r
<1>5. ASSUME NEW h \in Groups, h # g PROVE CursorOfRun(h)' /\ CursorIsExact(h)'
  BY <1>1, <1>2, <1>5, OtherCursors
<1> QED
  BY <1>1, <1>3, <1>4, <1>5 DEF CInv, messages

\* What was piped to a run that failed is no longer counted as piped.
LEMMA ReturnCursors ==
  ASSUME PInv, CInv, NEW g \in Groups, RunReturns(g)
  PROVE  CInv'
<1>1. /\ run \in [Groups -> RunStates] /\ run' = [run EXCEPT ![g] = IdleRun]
      /\ UNCHANGED <<messages, cursors, router, done>>
      /\ piped \ Own(g) \subseteq piped'
  BY RunFacts DEF RunReturns, RunStep
<1>2. run'[g].pc = "idle"
  BY <1>1 DEF IdleRun
<1>3. CursorOfRun(g)'
  BY <1>2 DEF CursorOfRun, Answering, Holding
<1>4. CursorIsExact(g)'
  BY <1>1, ExactStays DEF CInv, cursors
<1>5. ASSUME NEW h \in Groups, h # g PROVE CursorOfRun(h)' /\ CursorIsExact(h)'
  <2>1. \A i \in MessagesOf(h) : i \in piped => i \in piped'
    BY <1>1, <1>5 DEF MessagesOf, Own
  <2> QED
    BY <1>1, <1>5, <2>1, OtherCursors DEF cursors
<1> QED
  BY <1>1, <1>3, <1>4, <1>5 DEF CInv, messages

\* The steps of a run that move no cursor, and those that need a command.
LEMMA CoroutineCursors ==
  ASSUME OnlyMessages, PInv, CInv, NEW g \in Groups, RunCoroutine(g)
  PROVE  CInv'
<1>1. /\ run \in [Groups -> RunStates] /\ run[g] \in RunStates /\ PTypeOK /\ RunOK(g)
      /\ SaveOutcomes \subseteq BOOLEAN
  BY RunFacts DEF SaveOutcomes
<1>2. ASSUME Holding(g), Kind(RunLast(g)) \in {"command", "reset", "redeploy"} PROVE FALSE
  <2>1. RunLast(g) \in 1..Len(posted)
    BY <1>1, <1>2, RunLastIsLast DEF RunOK
  <2> QED
    BY <1>2, <2>1, NoCommand
<1>3. ASSUME UNCHANGED <<messages, cursors, router, done, piped>>, NEW r,
             run' = [run EXCEPT ![g] = r], r.missed = run[g].missed, r.previous = run[g].previous,
             r.pc \in {"handoff", "fetch", "finalize", "return"}, r.pc = "finalize" => Answering(g)
      PROVE  CInv'
  <2>1. run'[g] = r /\ \A h \in Groups : h # g => run'[h] = run[h]
    BY <1>1, <1>3
  <2>2. ASSUME NEW h \in Groups
        PROVE  /\ run'[h].missed = run[h].missed /\ run'[h].previous = run[h].previous
               /\ Holding(h)' => Holding(h)
               /\ Answering(h)' => Answering(h)
    BY <1>3, <2>1 DEF Holding, Answering
  <2> QED
    BY <1>3, <2>2, QuietCursors
<1>4. CASE RunHandoff(g)
  BY <1>1, <1>3, <1>4 DEF RunHandoff, RunStep, history, RunStates
<1>5. ASSUME NEW ok \in BOOLEAN, HandoffEnds(g, ok) PROVE CInv'
  <2>1. CASE ok
    BY <1>1, <1>3, <1>5, <2>1 DEF HandoffEnds, RunStep, history, RunStates
  <2>2. CASE ~ok
    BY <1>1, <1>3, <1>5, <2>2 DEF HandoffEnds, RunStep, RunEnds, history, RunStates
  <2> QED
    BY <2>1, <2>2
<1>6. CASE RunSkips(g)
  BY <1>1, <1>3, <1>6 DEF RunSkips, RunStep, RunEnds, history, RunStates
<1>7. CASE AgentRaises(g)
  BY <1>1, <1>3, <1>7 DEF AgentRaises, RunStep, RunEnds, history, RunStates
<1>8. ASSUME NEW outcome \in {"success", "failure"}, AgentEnds(g, outcome) PROVE CInv'
  BY <1>1, <1>3, <1>8 DEF AgentEnds, RunOf, RunStep, history, RunStates, Answering
<1>9. CASE RunCommand(g)
  BY <1>2, <1>9 DEF RunCommand, RunOf, Holding
<1>10. ASSUME NEW ok \in BOOLEAN, RunMagic(g, ok) PROVE CInv'
  BY <1>2, <1>10 DEF RunMagic, InterceptMagic, Magic, RunOf, Holding
<1>11. ASSUME NEW ok \in BOOLEAN, RunCommandDone(g, ok) PROVE CInv'
  BY <1>1, <1>2, <1>11 DEF RunCommandDone, RunOf, Holding, RunOK
<1> QED
  BY <1>1, <1>4, <1>5, <1>6, <1>7, <1>8, <1>9, <1>10, <1>11, FetchCursors, AgentCursors, AdvanceCursors,
     FailCursors, ReturnCursors DEF RunCoroutine

\* What the query did not bring up is answered, in the hands of the run, or piped.
LEMMA QueryCursors ==
  ASSUME PInv, CInv, RouteQuery
  PROVE  CInv'
<1> DEFINE pending == MessagesSince(Current, RouteCursor(Current))
<1>1. PICK g \in Groups : g = Current
  BY RouterFacts DEF RouteQuery
<1>2. /\ UNCHANGED <<messages, cursors, run, done, piped>> /\ router \in RouterStates
      /\ MessagesOf(g) \subseteq Nat
      /\ last_agent_timestamp[g] \in Nat /\ dispatched_through[g] \in Nat
  BY RouterFacts, RunFacts DEF RouteQuery, history
<1>3. /\ RouteCursor(g) \in {last_agent_timestamp[g], dispatched_through[g]}
  BY <1>2, MaxOfTwo DEF RouteCursor
<1>4. CASE RouteDone
  <2>1. router'.pc \in {"idle", "route"}
    BY <1>4 DEF RouteDone
  <2> QED
    BY <1>2, <2>1, QuietCursors DEF Holding, Answering
<1>5. CASE router' = [router EXCEPT !.pc = "decide", !.pending = pending]
  <2>1. /\ router'.pc = "decide" /\ router'.pending = pending /\ router'.batch = router.batch
    BY <1>2, <1>5 DEF RouterStates
  <2>2. Current' = g
    BY <1>1, <1>2, <2>1 DEF Current, Chat, messages
  <2>3. ASSUME NEW h \in Groups PROVE CursorIsExact(h)'
    BY <1>2, ExactStays DEF CInv, cursors
  <2>4. ASSUME NEW h \in Groups, h # g PROVE CursorOfRun(h)'
    BY <1>2, <2>2, <2>4, CoveredStays DEF CInv, cursors, Holding, Answering
  <2>5. CursorOfRun(g)'
    <3>1. MessagesOf(g)' = MessagesOf(g) /\ RunLast(g)' = RunLast(g)
      BY <1>2 DEF messages, MessagesOf, Chat, Kind, Visible, RunLast
    <3>2. ASSUME NEW i \in MessagesOf(g), i > last_agent_timestamp[g], i \notin pending
          PROVE  i <= dispatched_through[g]
      <4>1. i \in Nat /\ ~(i > RouteCursor(g))
        BY <1>1, <1>2, <3>2 DEF MessagesOf, MessagesSince
      <4> QED
        BY <1>2, <1>3, <3>2, <4>1
    <3>3. ASSUME NEW i \in MessagesOf(g), i > last_agent_timestamp[g], Covered(g, i) PROVE Covered(g, i)'
      BY <1>2, <2>1, <3>1, <3>2, <3>3 DEF Covered, cursors
    <3> QED
      BY <1>2, <3>1, <3>3 DEF CInv, CursorOfRun, Holding, Answering, cursors
  <2> QED
    BY <1>2, <2>3, <2>4, <2>5 DEF CInv, messages
<1> QED
  BY <1>4, <1>5 DEF RouteQuery

\* What the router pipes counts as piped before the marker covers it.
LEMMA PipeCursors ==
  ASSUME PInv, CInv, RoutePipe
  PROVE  CInv'
<1>1. PICK g \in Groups : g = Current
  BY RouterFacts DEF RoutePipe, ToAgent
<1>2. /\ UNCHANGED <<messages, cursors, run, done>> /\ router \in RouterStates
      /\ piped' = piped \cup router.pending /\ router.pc = "decide"
      /\ router' = [router EXCEPT !.pc = "mark"]
  BY RouterFacts DEF RoutePipe, ToAgent
<1>3. router'.pc = "mark" /\ router'.pending = router.pending /\ router'.batch = router.batch
  BY <1>2 DEF RouterStates
<1>4. Current' = g /\ RouteLast' = RouteLast
  BY <1>1, <1>2, <1>3 DEF Current, RouteLast, Chat, messages
<1>5. ASSUME NEW h \in Groups PROVE CursorIsExact(h)'
  BY <1>2, ExactStays DEF CInv, cursors
<1>6. ASSUME NEW h \in Groups, h # g PROVE CursorOfRun(h)'
  BY <1>2, <1>4, <1>6, CoveredStays DEF CInv, cursors, Holding, Answering
<1>7. CursorOfRun(g)'
  <2>1. MessagesOf(g)' = MessagesOf(g) /\ RunLast(g)' = RunLast(g)
    BY <1>2 DEF messages, MessagesOf, Chat, Kind, Visible, RunLast
  <2>2. \A i \in MessagesOf(g) : Covered(g, i) => Covered(g, i)'
    BY <1>1, <1>2, <1>3, <1>4, <2>1 DEF Covered, cursors
  <2> QED
    BY <1>2, <2>1, <2>2 DEF CInv, CursorOfRun, Holding, Answering, cursors
<1> QED
  BY <1>2, <1>5, <1>6, <1>7 DEF CInv, messages

\* The marker moves over what was piped.
LEMMA MarkCursors ==
  ASSUME PInv, CInv, RouteMark
  PROVE  CInv'
<1>1. PICK g \in Groups : g = Current
  BY RouterFacts DEF RouteMark
<1>2. /\ UNCHANGED <<messages, last_agent_timestamp, saved, run, done, piped>> /\ router.pc = "mark"
      /\ dispatched_through' = [dispatched_through EXCEPT ![g] = RouteLast]
      /\ RouteDone /\ dispatched_through \in [Groups -> 0..MaxMessages]
  BY <1>1, RouterFacts DEF RouteMark, history, PTypeOK
<1>3. /\ router'.pc \in {"idle", "route"} /\ dispatched_through'[g] = RouteLast
      /\ \A h \in Groups \ {g} : dispatched_through'[h] = dispatched_through[h]
  BY <1>2 DEF RouteDone
<1>4. ASSUME NEW h \in Groups PROVE CursorIsExact(h)'
  BY <1>2, ExactStays DEF CInv
<1>5. ASSUME NEW h \in Groups, h # g PROVE CursorOfRun(h)'
  BY <1>2, <1>3, <1>5, CoveredStays DEF CInv, Holding, Answering
<1>6. CursorOfRun(g)'
  <2>1. MessagesOf(g)' = MessagesOf(g) /\ RunLast(g)' = RunLast(g)
    BY <1>2 DEF messages, MessagesOf, Chat, Kind, Visible, RunLast
  <2>2. \A i \in MessagesOf(g) : Covered(g, i) => Covered(g, i)'
    BY <1>1, <1>2, <1>3, <2>1 DEF Covered
  <2> QED
    BY <1>2, <2>1, <2>2 DEF CInv, CursorOfRun, Holding, Answering
<1> QED
  BY <1>2, <1>4, <1>5, <1>6 DEF CInv, messages

\* The polling loop saves both cursors and moves only its own.
LEMMA PollCursors ==
  ASSUME PInv, CInv, NEW ok \in BOOLEAN, Poll(ok)
  PROVE  CInv'
<1>1. /\ UNCHANGED <<messages, last_agent_timestamp, dispatched_through, run, done, piped>>
      /\ SaveState(ok) /\ router'.pc \in {"idle", "route"}
  BY DEF Poll, IdleRouter
<1>2. \A g \in Groups : saved'.agent[g] = saved.agent[g]
  BY <1>1 DEF SaveState, CInv, CursorIsExact
<1>3. ASSUME NEW g \in Groups PROVE CursorOfRun(g)' /\ CursorIsExact(g)'
  BY <1>1, <1>2, ExactStays, CoveredStays DEF CInv, Holding, Answering
<1> QED
  BY <1>1, <1>3 DEF CInv, messages

\* The router's steps, those that need a command excluded.
LEMMA RouterCursors ==
  ASSUME OnlyMessages, PInv, CInv, RouterStep
  PROVE  CInv'
<1>1. SaveOutcomes \subseteq BOOLEAN /\ RouterOK /\ router \in RouterStates
  BY RouterFacts DEF SaveOutcomes
<1>2. ASSUME Routing, Kind(RouteLast) \in {"command", "reset", "redeploy"} PROVE FALSE
  <2>1. RouteLast \in 1..Len(posted)
    BY <1>2, RouterFacts
  <2> QED
    BY <1>2, <2>1, NoCommand
<1>3. ASSUME UNCHANGED <<messages, cursors, run, done, piped>>, router'.pc \notin {"mark", "decide"}
      PROVE  CInv'
  BY <1>3, QuietCursors DEF Holding, Answering
<1>4. ASSUME NEW ok, RouteMagic(ok) PROVE CInv'
  BY <1>2, <1>4 DEF RouteMagic, InterceptMagic, Magic, Routing
<1>5. ASSUME NEW ok, RouteCommandDone(ok) PROVE CInv'
  BY <1>1, <1>2, <1>5 DEF RouteCommandDone, Routing, RouterOK
<1>6. CASE RouteCommand
  BY <1>2, <1>6 DEF RouteCommand, Routing
<1>7. CASE RouteTodoOrInterrupt \/ RouteEnqueue
  BY <1>3, <1>7 DEF RouteTodoOrInterrupt, RouteEnqueue, RouteDone, history
<1>8. CASE RouteForward \/ RouteWake
  BY <1>1, <1>3, <1>8 DEF RouteForward, RouteWake, RouterStates, history
<1> QED
  BY <1>1, <1>4, <1>5, <1>6, <1>7, <1>8, PollCursors, QueryCursors, PipeCursors, MarkCursors DEF RouterStep

\* A message that is posted is stored, beyond every cursor.
LEMMA PostCursors ==
  ASSUME OnlyMessages, PInv, CInv, NEW g \in Groups, NEW k \in Kinds, Post(g, k)
  PROVE  CInv'
<1>1. PICK n : n = Len(posted) + 1
  OBVIOUS
<1>2. /\ PTypeOK /\ InBounds /\ RouterOK /\ posted' = Append(posted, [chat |-> g, kind |-> k])
      /\ store' = store \cup {n} /\ done \subseteq store
      /\ UNCHANGED <<cursors, router, run, done, piped>>
  BY <1>1, RouterFacts DEF Post, OnlyMessages, history, PTypeOK
<1>3. /\ \A i \in 1..Len(posted) : Chat(i)' = Chat(i) /\ (Visible(i)' <=> Visible(i))
      /\ Len(posted') = n /\ Len(posted) \in Nat /\ store = 1..Len(posted)
      /\ store \subseteq Nat
  BY <1>1, <1>2, OlderStays, Stored DEF CInv
<1>4. store' = 1..Len(posted')
  BY <1>1, <1>2, <1>3
<1>5. ASSUME NEW h \in Groups
      PROVE  \A i \in MessagesOf(h)' : i \in MessagesOf(h) \/ i = n
  BY <1>2, <1>3 DEF MessagesOf
<1>6. ASSUME NEW h \in Groups PROVE CursorIsExact(h)'
  <2>1. n \notin done /\ ~(n <= last_agent_timestamp[h])
    BY <1>1, <1>2, <1>3 DEF InBounds, Posted
  <2> QED
    BY <1>2, <1>3, <1>5, <2>1 DEF CInv, CursorIsExact, cursors
<1>7. ASSUME NEW h \in Groups PROVE CursorOfRun(h)'
  <2>1. RunLast(h)' = RunLast(h) /\ RouteLast' = RouteLast
    BY <1>2 DEF RunLast, RouteLast
  <2>2. router.pc # "idle" => Current' = Current
    <3>1. router.pc # "idle" => Min(router.batch) \in 1..Len(posted)
      BY <1>2, <1>3, CurrentIsGroup DEF RouterOK
    <3> QED
      BY <1>2, <1>3, <3>1 DEF Current
  <2>3. \A i \in MessagesOf(h) : Covered(h, i) => Covered(h, i)'
    BY <1>2, <2>1, <2>2 DEF Covered, cursors
  <2>4. Holding(h) => Covered(h, n)'
    <3>1. Holding(h) => RunLast(h) \in 1..Len(posted)
      BY <1>2, RunLastIsLast DEF PInv, InHand, RunOK
    <3>2. Routing => RouteLast \in 1..Len(posted)
      BY RouterFacts
    <3>3. dispatched_through[h] \in 0..Len(posted)
      BY <1>2 DEF InBounds, Posted
    <3>4. /\ Holding(h) => n > RunLast(h)
          /\ Routing => ~(n <= RouteLast)
          /\ ~(n <= dispatched_through[h])
      BY <1>1, <1>3, <3>1, <3>2, <3>3
    <3> QED
      BY <1>2, <2>1, <3>4 DEF Covered, Routing, cursors
  <2> QED
    BY <1>2, <1>5, <2>3, <2>4 DEF CInv, CursorOfRun, Holding, Answering, cursors
<1> QED
  BY <1>4, <1>6, <1>7 DEF CInv

\* A crash takes the cursors back from disk, where they are the same.
LEMMA CrashCursors ==
  ASSUME PInv, CInv, Crash
  PROVE  CInv'
<1>1. /\ UNCHANGED <<messages, done, saved>> /\ last_agent_timestamp' = saved.agent
      /\ run' = [g \in Groups |-> IdleRun]
  BY DEF Crash
<1>2. ASSUME NEW g \in Groups PROVE CursorOfRun(g)' /\ CursorIsExact(g)'
  <2>1. run'[g].pc = "idle"
    BY <1>1 DEF IdleRun
  <2> QED
    BY <1>1, <2>1, ExactStays DEF CInv, CursorIsExact, CursorOfRun, Holding, Answering
<1> QED
  BY <1>1, <1>2 DEF CInv, messages

\* Every step keeps the cursors exact.
LEMMA NextCursors ==
  ASSUME OnlyMessages, PInv, CInv, [PNext]_allvars
  PROVE  CInv'
<1>1. run \in [Groups -> RunStates] /\ router \in RouterStates
  BY RouterFacts, Stored
<1>2. ASSUME UNCHANGED <<messages, cursors, run, done, piped>>,
             UNCHANGED router \/ router'.pc \notin {"mark", "decide"}
      PROVE  CInv'
  BY <1>2, QuietCursors DEF Holding, Answering
<1>3. CASE UNCHANGED allvars \/ QueueStep
  BY <1>2, <1>3 DEF allvars, pvars, history, QueueStep
<1>4. ASSUME NEW i \in 1..Len(posted), ReconcileIngest(i) PROVE CInv'
  BY <1>4 DEF ReconcileIngest, CInv
<1>5. CASE ReconcileEnqueue
  BY <1>2, <1>5 DEF ReconcileEnqueue, IdleRouter, history
<1>6. ASSUME NEW g \in Groups, Recover(g) \/ AgentRegisters(g) \/ AgentResets(g) PROVE CInv'
  BY <1>2, <1>6 DEF Recover, AgentRegisters, AgentResets, pvars, history
<1>7. ASSUME NEW g \in Groups, AgentSends(g) PROVE CInv'
  <2>1. /\ run' = [run EXCEPT ![g] = [run[g] EXCEPT !.sent = TRUE]]
        /\ UNCHANGED <<messages, cursors, router, done, piped>>
    BY <1>7 DEF AgentSends, RunStep, history
  <2>2. ASSUME NEW h \in Groups
        PROVE  /\ run'[h].missed = run[h].missed /\ run'[h].previous = run[h].previous
               /\ run'[h].pc = run[h].pc
    BY <1>1, <2>1 DEF RunStates
  <2> QED
    BY <2>1, <2>2, QuietCursors DEF Holding, Answering
<1> QED
  BY <1>3, <1>4, <1>5, <1>6, <1>7, CrashCursors, PostCursors, RouterCursors, CoroutineCursors DEF PNext

\* Where no command moves a cursor and every message arrives in time: the cursor on disk
\* covers only what was answered, and what was answered is not handed to the agent again,
\* whatever failing runs, retries, failing saves, follow-ups and crashes do.
THEOREM CursorsAreSound ==
  ASSUME OnlyMessages
  PROVE  PSpec => []CursorSound
<1>1. PInit => CInv
  <2> SUFFICES ASSUME PInit PROVE CInv
    OBVIOUS
  <2>1. store = {} /\ Len(posted) = 0 /\ \A g \in Groups : run[g].pc = "idle"
    BY DEF PInit, IdleRun
  <2> QED
    BY <2>1 DEF PInit, CInv, CursorOfRun, CursorIsExact, Holding, Answering, MessagesOf, Zero
<1>2. PInv /\ CInv /\ [PNext]_allvars => CInv'
  BY NextCursors
<1>3. PInv /\ CInv => CursorSound
  <2> SUFFICES ASSUME PInv, CInv PROVE CursorSound
    OBVIOUS
  <2>1. DurableCursorIsProcessed
    <3> SUFFICES ASSUME NEW i \in store, Visible(i), i <= saved.agent[Chat(i)] PROVE i \in done
      BY DEF DurableCursorIsProcessed
    <3>1. PICK g \in Groups : g = Chat(i)
      BY RouterFacts, Stored
    <3> QED
      BY <3>1 DEF CInv, CursorIsExact, MessagesOf
  <2>2. NoReprocessing
    <3> SUFFICES ASSUME NEW g \in Groups, Holding(g), NEW i \in run[g].missed, i \in done PROVE FALSE
      BY DEF NoReprocessing, Holding
    <3>1. i \in MessagesOf(g) /\ MessagesOf(g) \subseteq Nat /\ last_agent_timestamp[g] \in Nat
      BY RunFacts
    <3>2. i \in Nat /\ i > last_agent_timestamp[g] /\ i <= last_agent_timestamp[g]
      BY <3>1 DEF CInv, CursorOfRun, CursorIsExact, MessagesOf
    <3> QED
      BY <3>1, <3>2
  <2> QED
    BY <2>1, <2>2 DEF CursorSound
<1> QED
  BY <1>1, <1>2, <1>3, PipelineInvariant, PTL DEF PSpec
=============================================================================

-------------------------- MODULE GroupQueueProofs --------------------------
(***************************************************************************)
(* Proofs about GroupQueue for every finite set of groups, every set of    *)
(* tasks and every limit.  The invariants are proved together: IInv is     *)
(* inductive, none of its parts is so alone.                               *)
(*                                                                         *)
(* Every action changes the control state (active, runs, active_count,     *)
(* the pending work and the waiting queue) in one of a few ways: it leaves *)
(* it alone, defers work, starts a run, hands a slot to the group's own    *)
(* next item, or releases it.  There is one lemma for each of those, then  *)
(* one step per action.                                                    *)
(***************************************************************************)
EXTENDS GroupQueue, FiniteSetTheorems, TLAPS

-----------------------------------------------------------------------------
(* Facts about the operators the actions are built from.                   *)

LEMMA AppendQueued ==
  ASSUME NEW S, NEW q \in Seq(S), NEW x \in S
  PROVE  /\ Append(q, x) \in Seq(S)
         /\ Append(q, x) # <<>>
         /\ Queued(Append(q, x), x)
         /\ \A y : Queued(Append(q, x), y) <=> y = x \/ Queued(q, y)
<1>1. /\ Append(q, x) \in Seq(S)
      /\ Len(Append(q, x)) = Len(q) + 1
      /\ Append(q, x)[Len(q) + 1] = x
      /\ \A i \in 1..Len(q) : Append(q, x)[i] = q[i]
      /\ Len(q) \in Nat
  OBVIOUS
<1>2. Append(q, x) # <<>>
  BY <1>1
<1>3. Queued(Append(q, x), x)
  <2>1. Len(q) + 1 \in 1..Len(Append(q, x))
    BY <1>1
  <2> QED
    BY <1>1, <2>1 DEF Queued
<1>4. ASSUME NEW y, Queued(q, y) PROVE Queued(Append(q, x), y)
  <2>1. PICK i \in 1..Len(q) : q[i] = y
    BY <1>4 DEF Queued
  <2>2. i \in 1..Len(Append(q, x)) /\ Append(q, x)[i] = y
    BY <1>1, <2>1
  <2> QED
    BY <2>2 DEF Queued
<1>5. ASSUME NEW y, Queued(Append(q, x), y), y # x PROVE Queued(q, y)
  <2>1. PICK i \in 1..Len(Append(q, x)) : Append(q, x)[i] = y
    BY <1>5 DEF Queued
  <2>2. i \in 1..Len(q) /\ q[i] = y
    BY <1>1, <1>5, <2>1
  <2> QED
    BY <2>2 DEF Queued
<1> QED
  BY <1>1, <1>2, <1>3, <1>4, <1>5

LEMMA HeadQueued ==
  ASSUME NEW S, NEW q \in Seq(S), q # <<>>
  PROVE  /\ Head(q) \in S
         /\ Tail(q) \in Seq(S)
         /\ Queued(q, Head(q))
         /\ \A y : Queued(q, y) <=> y = Head(q) \/ Queued(Tail(q), y)
<1>1. /\ Head(q) \in S
      /\ Tail(q) \in Seq(S)
      /\ Len(q) \in Nat \ {0}
      /\ Head(q) = q[1]
      /\ Len(Tail(q)) = Len(q) - 1
      /\ \A i \in 1..Len(Tail(q)) : Tail(q)[i] = q[i + 1]
  OBVIOUS
<1>2. Queued(q, Head(q))
  <2>1. 1 \in 1..Len(q)
    BY <1>1
  <2> QED
    BY <1>1, <2>1 DEF Queued
<1>3. ASSUME NEW y, Queued(Tail(q), y) PROVE Queued(q, y)
  <2>1. PICK i \in 1..Len(Tail(q)) : Tail(q)[i] = y
    BY <1>3 DEF Queued
  <2>2. i + 1 \in 1..Len(q) /\ q[i + 1] = y
    BY <1>1, <2>1
  <2> QED
    BY <2>2 DEF Queued
<1>4. ASSUME NEW y, Queued(q, y), y # Head(q) PROVE Queued(Tail(q), y)
  <2>1. PICK i \in 1..Len(q) : q[i] = y
    BY <1>4 DEF Queued
  <2>2. i - 1 \in 1..Len(Tail(q)) /\ Tail(q)[i - 1] = y
    BY <1>1, <1>4, <2>1
  <2> QED
    BY <2>2 DEF Queued
<1> QED
  BY <1>1, <1>2, <1>3, <1>4

LEMMA TailUnique ==
  ASSUME NEW S, NEW q \in Seq(S), q # <<>>, Unique(q)
  PROVE  Unique(Tail(q)) /\ ~Queued(Tail(q), Head(q))
<1>1. /\ Len(q) \in Nat \ {0}
      /\ Head(q) = q[1]
      /\ Len(Tail(q)) = Len(q) - 1
      /\ \A i \in 1..Len(Tail(q)) : Tail(q)[i] = q[i + 1]
  OBVIOUS
<1>2. ASSUME NEW i \in 1..Len(Tail(q)), NEW j \in 1..Len(Tail(q)), Tail(q)[i] = Tail(q)[j]
      PROVE  i = j
  <2>1. i + 1 \in 1..Len(q) /\ j + 1 \in 1..Len(q) /\ q[i + 1] = q[j + 1]
    BY <1>1, <1>2
  <2>2. i + 1 = j + 1
    BY <2>1 DEF Unique
  <2> QED
    BY <2>2
<1>3. ASSUME NEW i \in 1..Len(Tail(q)), Tail(q)[i] = Head(q) PROVE FALSE
  <2>1. 1 \in 1..Len(q) /\ i + 1 \in 1..Len(q) /\ q[i + 1] = q[1]
    BY <1>1, <1>3
  <2>2. i + 1 = 1
    BY <2>1 DEF Unique
  <2> QED
    BY <2>2
<1> QED
  BY <1>2, <1>3 DEF Unique, Queued

LEMMA AppendUnique ==
  ASSUME NEW S, NEW q \in Seq(S), NEW x \in S, Unique(q), ~Queued(q, x)
  PROVE  Unique(Append(q, x))
<1>1. /\ Len(Append(q, x)) = Len(q) + 1
      /\ Append(q, x)[Len(q) + 1] = x
      /\ \A i \in 1..Len(q) : Append(q, x)[i] = q[i] /\ q[i] # x
      /\ Len(q) \in Nat
  BY DEF Queued
<1> SUFFICES ASSUME NEW i \in 1..Len(Append(q, x)), NEW j \in 1..Len(Append(q, x)),
                    Append(q, x)[i] = Append(q, x)[j]
             PROVE  i = j
  BY DEF Unique
<1>2. CASE i \in 1..Len(q) /\ j \in 1..Len(q)
  BY <1>1, <1>2 DEF Unique
<1>3. CASE ~(i \in 1..Len(q) /\ j \in 1..Len(q))
  BY <1>1, <1>3
<1> QED
  BY <1>2, <1>3

\* Joining the waiting queue.
LEMMA AppendWaitingEffect ==
  ASSUME waiting_groups \in Seq(Groups), NEW g \in Groups, AppendWaiting(g),
         Unique(waiting_groups)
  PROVE  /\ waiting_groups' \in Seq(Groups)
         /\ waiting_groups' # <<>>
         /\ Unique(waiting_groups')
         /\ \A h : Queued(waiting_groups', h) <=> h = g \/ Queued(waiting_groups, h)
<1>1. CASE Queued(waiting_groups, g)
  <2>1. waiting_groups' = waiting_groups
    BY <1>1 DEF AppendWaiting
  <2>2. waiting_groups # <<>>
    BY <1>1 DEF Queued
  <2> QED
    BY <1>1, <2>1, <2>2
<1>2. CASE ~Queued(waiting_groups, g)
  <2>1. waiting_groups' = Append(waiting_groups, g)
    BY <1>2 DEF AppendWaiting
  <2> QED
    BY <1>2, <2>1, AppendQueued, AppendUnique
<1> QED
  BY <1>1, <1>2

\* Removing the only coroutine of a run list leaves none.
LEMMA WithoutOnlyRun ==
  ASSUME NEW rs \in Seq(Work), Len(rs) = 1, NEW i \in 1..Len(rs)
  PROVE  /\ i = 1
         /\ rs = <<rs[1]>>
         /\ WithoutRun(rs, i) = <<>>
  BY DEF WithoutRun

LEMMA FirstRun ==
  ASSUME NEW rs \in Seq(Work), Len(rs) = 0, NEW x \in Work
  PROVE  rs = <<>> /\ Append(rs, x) = <<x>> /\ <<x>> \in Seq(Work) /\ Len(<<x>>) = 1
  OBVIOUS

LEMMA WorkItems == Messages \in Work /\ \A t \in Tasks : TaskRun(t) \in Work /\ TaskRun(t) # Messages
  BY DEF Work, Messages, TaskRun

\* Marking an idle group active adds exactly one group to the active ones.
LEMMA MarkingCountsOne ==
  ASSUME active \in [Groups -> BOOLEAN], NEW g \in Groups, ~active[g],
         active' = [active EXCEPT ![g] = TRUE]
  PROVE  /\ Cardinality(ActiveGroups') = Cardinality(ActiveGroups) + 1
         /\ Cardinality(ActiveGroups) \in Nat
<1>1. ActiveGroups' = ActiveGroups \cup {g}
  BY DEF ActiveGroups
<1>2. IsFiniteSet(ActiveGroups)
  BY GroupsFinite, FS_Subset DEF ActiveGroups
<1>3. g \notin ActiveGroups
  BY DEF ActiveGroups
<1> QED
  BY <1>1, <1>2, <1>3, FS_AddElement, FS_CardinalityType

\* Releasing an active group removes exactly one group from the active ones.
LEMMA ReleasingCountsOne ==
  ASSUME active \in [Groups -> BOOLEAN], NEW g \in Groups, active[g],
         active' = [active EXCEPT ![g] = FALSE]
  PROVE  /\ Cardinality(ActiveGroups') = Cardinality(ActiveGroups) - 1
         /\ Cardinality(ActiveGroups) \in Nat \ {0}
<1>1. ActiveGroups' = ActiveGroups \ {g}
  BY DEF ActiveGroups
<1>2. IsFiniteSet(ActiveGroups)
  BY GroupsFinite, FS_Subset DEF ActiveGroups
<1>3. g \in ActiveGroups
  BY DEF ActiveGroups
<1>4. /\ IsFiniteSet(ActiveGroups')
      /\ Cardinality(ActiveGroups') = Cardinality(ActiveGroups) - 1
  BY <1>1, <1>2, <1>3, FS_RemoveElement
<1>5. /\ Cardinality(ActiveGroups) \in Nat
      /\ Cardinality(ActiveGroups) # 0
  BY <1>2, <1>3, FS_CardinalityType, FS_EmptySet
<1> QED
  BY <1>4, <1>5

\* An action that leaves the flags alone keeps the number of active groups.
LEMMA SameActiveSameCount ==
  ASSUME active' = active
  PROVE  Cardinality(ActiveGroups') = Cardinality(ActiveGroups)
<1>1. ActiveGroups' = ActiveGroups
  BY DEF ActiveGroups
<1> QED
  BY <1>1

-----------------------------------------------------------------------------
(* The inductive invariant holds initially.                                *)

LEMMA InitIInv == Init => IInv
<1> SUFFICES ASSUME Init PROVE IInv
  OBVIOUS
<1>1. TypeOK
  <2>1. 0 \in 0..MaxRetries /\ 0 \in 0..MaxTimers
    BY MaxRetriesNat, MaxTimersNat
  <2>2. <<>> \in Seq(Tasks) /\ <<>> \in Seq(Groups) /\ <<>> \in Seq(Work)
    OBVIOUS
  <2> QED
    BY <2>1, <2>2 DEF Init, TypeOK
<1>2. ConcurrencyLimit
  <2>1. ActiveGroups = {}
    BY DEF Init, ActiveGroups
  <2> QED
    BY <2>1, FS_EmptySet, MaxConcurrentPositive DEF Init, ConcurrencyLimit
<1>3. OneRunPerGroup /\ NoLostWork /\ WorkConserving /\ NoStaleTaskInput
  BY DEF Init, OneRunPerGroup, NoLostWork, WorkConserving, NoStaleTaskInput, HasPending
<1>4. WaitingIsIdle /\ DrainLoopEntered /\ FolderOfLiveRun
  BY DEF Init, WaitingIsIdle, Queued, Unique, DrainLoopEntered, FolderOfLiveRun
<1> QED
  BY <1>1, <1>2, <1>3, <1>4 DEF IInv

-----------------------------------------------------------------------------
(* The ways an action changes the control state.                           *)

\* The control state is left alone.
LEMMA KeepControl ==
  ASSUME IInv, TypeOK', UNCHANGED stateVars,
         NoStaleTaskInput', FolderOfLiveRun',
         shutting_down => shutting_down',
         draining => ~shutting_down'
  PROVE  IInv'
<1>1. ConcurrencyLimit'
  BY SameActiveSameCount DEF IInv, ConcurrencyLimit, stateVars
<1>2. OneRunPerGroup'
  BY DEF IInv, OneRunPerGroup, stateVars
<1>3. NoLostWork'
  BY DEF IInv, TypeOK, NoLostWork, HasPending, Queued, stateVars
<1>4. WorkConserving'
  BY DEF IInv, TypeOK, WorkConserving, stateVars
<1>5. WaitingIsIdle' /\ DrainLoopEntered'
  BY DEF IInv, WaitingIsIdle, Queued, Unique, DrainLoopEntered, stateVars
<1> QED
  BY <1>1, <1>2, <1>3, <1>4, <1>5 DEF IInv

\* Work of g is added, or dropped, while g runs or waits for a slot.
LEMMA ChangePending ==
  ASSUME IInv, TypeOK', NEW g \in Groups, ~draining,
         UNCHANGED <<active, active_is_task, active_count, runs, group_folder,
                     shutting_down, ipc_input, draining>>,
         \A h \in Groups \ {g} :
           pending_messages'[h] = pending_messages[h] /\ pending_tasks'[h] = pending_tasks[h],
         \/ active[g] /\ UNCHANGED waiting_groups
         \/ (HasPending(g)' => HasPending(g)) /\ UNCHANGED waiting_groups
         \/ ~active[g] /\ AtLimit /\ AppendWaiting(g)
  PROVE  IInv'
<1>1. ConcurrencyLimit'
  BY SameActiveSameCount DEF IInv, ConcurrencyLimit
<1>2. OneRunPerGroup' /\ NoStaleTaskInput' /\ FolderOfLiveRun' /\ DrainLoopEntered'
  BY DEF IInv, OneRunPerGroup, NoStaleTaskInput, FolderOfLiveRun, DrainLoopEntered
<1>3. /\ \A h \in Groups : Queued(waiting_groups', h) =>
           Queued(waiting_groups, h) \/ (h = g /\ ~active[g])
      /\ \A h \in Groups : Queued(waiting_groups, h) => Queued(waiting_groups', h)
      /\ Unique(waiting_groups')
  BY AppendWaitingEffect DEF IInv, TypeOK, WaitingIsIdle
<1>4. WaitingIsIdle'
  BY <1>3 DEF IInv, WaitingIsIdle
<1>5. NoLostWork'
  <2> SUFFICES ASSUME NEW h \in Groups, HasPending(h)', ~shutting_down'
               PROVE  active'[h] \/ Queued(waiting_groups', h)
    BY DEF NoLostWork
  <2>1. CASE h # g
    <3>1. HasPending(h)
      BY <2>1 DEF HasPending
    <3> QED
      BY <3>1, <1>3 DEF IInv, NoLostWork
  <2>2. CASE h = g /\ HasPending(g)
    BY <2>2, <1>3 DEF IInv, NoLostWork
  <2>3. CASE h = g /\ active[g]
    BY <2>3
  <2>4. CASE h = g /\ ~active[g] /\ AppendWaiting(g)
    BY <2>4, AppendWaitingEffect DEF IInv, TypeOK, WaitingIsIdle
  <2> QED
    BY <2>1, <2>2, <2>3, <2>4
<1>6. WorkConserving'
  <2>1. CASE UNCHANGED waiting_groups
    BY <2>1 DEF IInv, WorkConserving
  <2>2. CASE AtLimit
    BY <2>2, MaxConcurrentPositive DEF IInv, TypeOK, AtLimit, ConcurrencyLimit, WorkConserving
  <2> QED
    BY <2>1, <2>2
<1> QED
  BY <1>1, <1>2, <1>4, <1>5, <1>6 DEF IInv

\* An idle group is given a free slot.  The waiting queue is empty (a direct start),
\* or g is its head (the drain loop).
LEMMA StartIdle ==
  ASSUME IInv, TypeOK', NEW g \in Groups, NEW x \in Work,
         ~active[g], active_count < MaxConcurrent, ~shutting_down,
         MarkActive(g, active_count),
         active_is_task' = [active_is_task EXCEPT ![g] = (x # Messages)],
         runs' = [runs EXCEPT ![g] = Append(@, x)],
         \A h \in Groups \ {g} :
           pending_messages'[h] = pending_messages[h] /\ pending_tasks'[h] = pending_tasks[h],
         UNCHANGED <<group_folder, ipc_input, shutting_down>>,
         \/ waiting_groups = <<>> /\ UNCHANGED <<waiting_groups, draining>>
         \/ /\ waiting_groups # <<>>
            /\ g = Head(waiting_groups)
            /\ waiting_groups' = Tail(waiting_groups)
            /\ draining' = KeepDraining(waiting_groups', active_count')
  PROVE  IInv'
<1>1. active' = [active EXCEPT ![g] = TRUE] /\ active_count' = active_count + 1
  BY DEF MarkActive
<1>2. ConcurrencyLimit'
  <2>1. active \in [Groups -> BOOLEAN] /\ active_count \in Nat
    BY DEF IInv, TypeOK
  <2>2. Cardinality(ActiveGroups') = Cardinality(ActiveGroups) + 1
    BY <1>1, <2>1, MarkingCountsOne
  <2> QED
    BY <1>1, <2>1, <2>2, MaxConcurrentPositive DEF IInv, ConcurrencyLimit
<1>3. runs[g] \in Seq(Work) /\ Len(runs[g]) = 0
  BY DEF IInv, TypeOK, OneRunPerGroup
<1>4. runs'[g] = <<x>> /\ Len(runs'[g]) = 1 /\ active'[g]
  BY <1>1, <1>3, FirstRun DEF IInv, TypeOK
<1>5. <<x>> # <<Messages>> <=> x # Messages
  OBVIOUS
<1>6. OneRunPerGroup'
  <2> SUFFICES ASSUME NEW h \in Groups
               PROVE  /\ Len(runs'[h]) = (IF active'[h] THEN 1 ELSE 0)
                      /\ active_is_task'[h] <=> (active'[h] /\ runs'[h] # <<Messages>>)
    BY DEF OneRunPerGroup
  <2>1. CASE h = g
    BY <2>1, <1>4, <1>5 DEF IInv, TypeOK
  <2>2. CASE h # g
    <3>1. runs'[h] = runs[h] /\ active'[h] = active[h] /\ active_is_task'[h] = active_is_task[h]
      BY <2>2, <1>1 DEF IInv, TypeOK
    <3> QED
      BY <3>1 DEF IInv, OneRunPerGroup
  <2> QED
    BY <2>1, <2>2
<1>7. NoStaleTaskInput' /\ FolderOfLiveRun'
  <2>1. "task" \notin ipc_input[g]
    BY DEF IInv, NoStaleTaskInput
  <2> QED
    BY <1>1, <2>1 DEF IInv, TypeOK, NoStaleTaskInput, FolderOfLiveRun
<1>8. /\ \A h \in Groups : Queued(waiting_groups', h) => Queued(waiting_groups, h) /\ h # g
      /\ \A h \in Groups \ {g} : Queued(waiting_groups, h) => Queued(waiting_groups', h)
      /\ Unique(waiting_groups')
  <2>1. CASE waiting_groups = <<>> /\ UNCHANGED waiting_groups
    BY <2>1 DEF Queued, Unique
  <2>2. CASE waiting_groups # <<>> /\ g = Head(waiting_groups) /\ waiting_groups' = Tail(waiting_groups)
    BY <2>2, HeadQueued, TailUnique DEF IInv, TypeOK, WaitingIsIdle
  <2> QED
    BY <2>1, <2>2
<1>9. WaitingIsIdle'
  BY <1>1, <1>8 DEF IInv, TypeOK, WaitingIsIdle
<1>10. NoLostWork'
  <2> SUFFICES ASSUME NEW h \in Groups, HasPending(h)', h # g
               PROVE  active'[h] \/ Queued(waiting_groups', h)
    BY <1>4 DEF NoLostWork
  <2>1. HasPending(h)
    BY DEF HasPending
  <2> QED
    BY <2>1, <1>1, <1>8 DEF IInv, TypeOK, NoLostWork
<1>11. WorkConserving' /\ DrainLoopEntered'
  <2>1. CASE waiting_groups = <<>> /\ UNCHANGED <<waiting_groups, draining>>
    BY <2>1 DEF IInv, WorkConserving, DrainLoopEntered
  <2>2. CASE draining' = KeepDraining(waiting_groups', active_count')
    <3>1. active_count' \in Nat /\ active_count' <= MaxConcurrent /\ draining' \in BOOLEAN
      BY <1>2 DEF TypeOK, ConcurrencyLimit
    <3>2. draining' <=> (waiting_groups' # <<>> /\ active_count' < MaxConcurrent)
      BY <2>2 DEF KeepDraining
    <3> QED
      BY <3>1, <3>2, MaxConcurrentPositive DEF WorkConserving, DrainLoopEntered
  <2> QED
    BY <2>1, <2>2
<1> QED
  BY <1>2, <1>6, <1>7, <1>9, <1>10, <1>11 DEF IInv

\* A finished run of g hands its slot to g's next item x.
LEMMA HandOver ==
  ASSUME IInv, TypeOK', NEW g \in Groups, NEW x \in Work,
         active[g], ~draining, ~shutting_down,
         MarkActive(g, active_count - 1),
         active_is_task' = [active_is_task EXCEPT ![g] = (x # Messages)],
         runs' = [runs EXCEPT ![g] = <<x>>],
         \A h \in Groups \ {g} :
           pending_messages'[h] = pending_messages[h] /\ pending_tasks'[h] = pending_tasks[h],
         group_folder' = [group_folder EXCEPT ![g] = FALSE],
         \A h \in Groups : "task" \in ipc_input'[h] =>
           "task" \in ipc_input[h] /\ (h = g => ~active_is_task[g]),
         UNCHANGED <<shutting_down, waiting_groups, draining>>
  PROVE  IInv'
<1>1. active' = active /\ active_count' = active_count
  BY DEF IInv, TypeOK, MarkActive
<1>2. ConcurrencyLimit'
  BY <1>1, SameActiveSameCount DEF IInv, ConcurrencyLimit
<1>3. <<x>> # <<Messages>> <=> x # Messages
  OBVIOUS
<1>4. OneRunPerGroup'
  <2> SUFFICES ASSUME NEW h \in Groups
               PROVE  /\ Len(runs'[h]) = (IF active'[h] THEN 1 ELSE 0)
                      /\ active_is_task'[h] <=> (active'[h] /\ runs'[h] # <<Messages>>)
    BY DEF OneRunPerGroup
  <2>1. CASE h = g
    BY <2>1, <1>1, <1>3 DEF IInv, TypeOK
  <2>2. CASE h # g
    <3>1. runs'[h] = runs[h] /\ active'[h] = active[h] /\ active_is_task'[h] = active_is_task[h]
      BY <2>2, <1>1 DEF IInv, TypeOK
    <3> QED
      BY <3>1 DEF IInv, OneRunPerGroup
  <2> QED
    BY <2>1, <2>2
<1>5. NoStaleTaskInput'
  <2> SUFFICES ASSUME NEW h \in Groups, "task" \in ipc_input'[h]
               PROVE  active'[h] /\ active_is_task'[h]
    BY DEF NoStaleTaskInput
  <2>1. h # g /\ active[h] /\ active_is_task[h]
    BY DEF IInv, NoStaleTaskInput
  <2> QED
    BY <2>1, <1>1 DEF IInv, TypeOK
<1>6. FolderOfLiveRun'
  <2> SUFFICES ASSUME NEW h \in Groups
               PROVE  /\ group_folder'[h] => active'[h]
                      /\ "task" \in ipc_input'[h] => group_folder'[h]
    BY DEF FolderOfLiveRun
  <2>1. CASE h = g
    BY <2>1, <1>1 DEF IInv, TypeOK, NoStaleTaskInput
  <2>2. CASE h # g
    <3>1. group_folder'[h] = group_folder[h] /\ active'[h] = active[h]
      BY <2>2, <1>1 DEF IInv, TypeOK
    <3> QED
      BY <3>1 DEF IInv, FolderOfLiveRun
  <2> QED
    BY <2>1, <2>2
<1>7. WaitingIsIdle' /\ WorkConserving' /\ DrainLoopEntered'
  BY <1>1 DEF IInv, WaitingIsIdle, WorkConserving, DrainLoopEntered
<1>8. NoLostWork'
  <2> SUFFICES ASSUME NEW h \in Groups, HasPending(h)', h # g
               PROVE  active'[h] \/ Queued(waiting_groups', h)
    BY <1>1 DEF NoLostWork
  <2>1. HasPending(h)
    BY DEF HasPending
  <2> QED
    BY <2>1, <1>1 DEF IInv, NoLostWork
<1> QED
  BY <1>2, <1>4, <1>5, <1>6, <1>7, <1>8 DEF IInv

\* A finished run of g releases its slot and the drain loop is entered if a group waits.
LEMMA Release ==
  ASSUME IInv, TypeOK', NEW g \in Groups,
         active[g], ~draining, ~MayDrain \/ ~HasPending(g),
         active' = [active EXCEPT ![g] = FALSE],
         active_count' = active_count - 1,
         active_is_task' = [active_is_task EXCEPT ![g] = FALSE],
         runs' = [runs EXCEPT ![g] = <<>>],
         group_folder' = [group_folder EXCEPT ![g] = FALSE],
         \A h \in Groups : "task" \in ipc_input'[h] =>
           "task" \in ipc_input[h] /\ (h = g => ~active_is_task[g]),
         draining' = (MayDrain /\ KeepDraining(waiting_groups, active_count - 1)),
         UNCHANGED <<shutting_down, waiting_groups, pending_messages, pending_tasks>>
  PROVE  IInv'
<1>1. ConcurrencyLimit'
  <2>1. active \in [Groups -> BOOLEAN] /\ active_count \in Nat
    BY DEF IInv, TypeOK
  <2>2. Cardinality(ActiveGroups') = Cardinality(ActiveGroups) - 1
    BY <2>1, ReleasingCountsOne
  <2> QED
    BY <2>1, <2>2, MaxConcurrentPositive DEF IInv, ConcurrencyLimit
<1>2. OneRunPerGroup'
  <2> SUFFICES ASSUME NEW h \in Groups
               PROVE  /\ Len(runs'[h]) = (IF active'[h] THEN 1 ELSE 0)
                      /\ active_is_task'[h] <=> (active'[h] /\ runs'[h] # <<Messages>>)
    BY DEF OneRunPerGroup
  <2>1. CASE h = g
    BY <2>1 DEF IInv, TypeOK
  <2>2. CASE h # g
    <3>1. runs'[h] = runs[h] /\ active'[h] = active[h] /\ active_is_task'[h] = active_is_task[h]
      BY <2>2 DEF IInv, TypeOK
    <3> QED
      BY <3>1 DEF IInv, OneRunPerGroup
  <2> QED
    BY <2>1, <2>2
<1>3. NoStaleTaskInput'
  <2> SUFFICES ASSUME NEW h \in Groups, "task" \in ipc_input'[h]
               PROVE  active'[h] /\ active_is_task'[h]
    BY DEF NoStaleTaskInput
  <2>1. h # g /\ active[h] /\ active_is_task[h]
    BY DEF IInv, NoStaleTaskInput
  <2> QED
    BY <2>1 DEF IInv, TypeOK
<1>4. WaitingIsIdle'
  BY DEF IInv, TypeOK, WaitingIsIdle
<1>7. FolderOfLiveRun'
  <2> SUFFICES ASSUME NEW h \in Groups
               PROVE  /\ group_folder'[h] => active'[h]
                      /\ "task" \in ipc_input'[h] => group_folder'[h]
    BY DEF FolderOfLiveRun
  <2>1. CASE h = g
    BY <2>1 DEF IInv, TypeOK, NoStaleTaskInput
  <2>2. CASE h # g
    <3>1. group_folder'[h] = group_folder[h] /\ active'[h] = active[h]
      BY <2>2 DEF IInv, TypeOK
    <3> QED
      BY <3>1 DEF IInv, FolderOfLiveRun
  <2> QED
    BY <2>1, <2>2
<1>5. NoLostWork'
  <2> SUFFICES ASSUME NEW h \in Groups, HasPending(h), ~shutting_down
               PROVE  active'[h] \/ Queued(waiting_groups, h)
    BY DEF NoLostWork, HasPending
  <2>1. h # g
    BY DEF MayDrain
  <2> QED
    BY <2>1 DEF IInv, TypeOK, NoLostWork
<1>6. WorkConserving' /\ DrainLoopEntered'
  <2>1. active_count' \in Nat /\ active_count' <= MaxConcurrent /\ draining' \in BOOLEAN
    BY <1>1 DEF TypeOK, ConcurrencyLimit
  <2>2. draining' <=> (~shutting_down /\ waiting_groups # <<>> /\ active_count' < MaxConcurrent)
    BY DEF MayDrain, KeepDraining
  <2> QED
    BY <2>1, <2>2, MaxConcurrentPositive DEF WorkConserving, DrainLoopEntered
<1> QED
  BY <1>1, <1>2, <1>3, <1>4, <1>5, <1>6, <1>7 DEF IInv

\* The drain loop skips a waiting group that no longer has work.
LEMMA Skip ==
  ASSUME IInv, TypeOK', draining, ~HasPending(Head(waiting_groups)),
         waiting_groups' = Tail(waiting_groups),
         draining' = KeepDraining(waiting_groups', active_count'),
         UNCHANGED <<active, active_is_task, pending_messages, pending_tasks, runs,
                     active_count, group_folder, shutting_down, ipc_input>>
  PROVE  IInv'
<1>1. waiting_groups \in Seq(Groups) /\ waiting_groups # <<>> /\ Unique(waiting_groups)
  BY DEF IInv, TypeOK, DrainLoopEntered, WaitingIsIdle
<1>2. ConcurrencyLimit'
  BY SameActiveSameCount DEF IInv, ConcurrencyLimit
<1>3. OneRunPerGroup' /\ NoStaleTaskInput' /\ FolderOfLiveRun'
  BY DEF IInv, OneRunPerGroup, NoStaleTaskInput, FolderOfLiveRun
<1>4. WaitingIsIdle'
  BY <1>1, HeadQueued, TailUnique DEF IInv, WaitingIsIdle
<1>5. NoLostWork'
  <2> SUFFICES ASSUME NEW h \in Groups, HasPending(h), ~shutting_down
               PROVE  active[h] \/ Queued(waiting_groups', h)
    BY DEF NoLostWork, HasPending
  <2>1. h # Head(waiting_groups)
    OBVIOUS
  <2> QED
    BY <1>1, <2>1, HeadQueued DEF IInv, NoLostWork
<1>6. WorkConserving' /\ DrainLoopEntered'
  <2>1. active_count' \in Nat /\ active_count' <= MaxConcurrent /\ draining' \in BOOLEAN
    BY <1>2 DEF TypeOK, ConcurrencyLimit
  <2>2. draining' <=> (waiting_groups' # <<>> /\ active_count' < MaxConcurrent)
    BY DEF KeepDraining
  <2>3. ~shutting_down'
    BY DEF IInv, DrainLoopEntered
  <2> QED
    BY <2>1, <2>2, <2>3, MaxConcurrentPositive DEF WorkConserving, DrainLoopEntered
<1> QED
  BY <1>2, <1>3, <1>4, <1>5, <1>6 DEF IInv

-----------------------------------------------------------------------------
(* The actions.                                                            *)

LEMMA MessageCheckIInv ==
  ASSUME IInv, NEW g \in Groups, ~draining, MessageCheck(g),
         retry_count' \in [Groups -> 0..MaxRetries],
         timers' \in [Groups -> 0..MaxTimers],
         UNCHANGED <<group_folder, shutting_down, ipc_input>>
  PROVE  IInv'
<1>1. CASE shutting_down
  <2>1. UNCHANGED stateVars
    BY <1>1 DEF MessageCheck, stateVars
  <2>2. TypeOK'
    BY <2>1 DEF IInv, TypeOK, stateVars
  <2>3. NoStaleTaskInput' /\ FolderOfLiveRun'
    BY <2>1 DEF IInv, NoStaleTaskInput, FolderOfLiveRun, stateVars
  <2> QED
    BY <1>1, <2>1, <2>2, <2>3, KeepControl
<1>2. CASE ~shutting_down /\ (active[g] \/ AtLimit)
  <2>1. /\ pending_messages' = [pending_messages EXCEPT ![g] = TRUE]
        /\ UNCHANGED <<active, active_is_task, active_count, runs, pending_tasks, draining>>
        /\ \/ active[g] /\ UNCHANGED waiting_groups
           \/ ~active[g] /\ AtLimit /\ AppendWaiting(g)
    BY <1>2 DEF MessageCheck
  <2>2. waiting_groups' \in Seq(Groups)
    BY <2>1, AppendWaitingEffect DEF IInv, TypeOK, WaitingIsIdle
  <2>3. TypeOK'
    BY <2>1, <2>2 DEF IInv, TypeOK
  <2>4. \A h \in Groups \ {g} :
           pending_messages'[h] = pending_messages[h] /\ pending_tasks'[h] = pending_tasks[h]
    BY <2>1 DEF IInv, TypeOK
  <2> QED
    BY <2>1, <2>3, <2>4, ChangePending
<1>3. CASE ~shutting_down /\ ~active[g] /\ ~AtLimit
  <2>1. /\ MarkActive(g, active_count)
        /\ pending_messages' = [pending_messages EXCEPT ![g] = FALSE]
        /\ runs' = [runs EXCEPT ![g] = Append(@, Messages)]
        /\ UNCHANGED <<waiting_groups, active_is_task, pending_tasks, draining>>
    BY <1>3 DEF MessageCheck
  <2>2. active_count < MaxConcurrent /\ waiting_groups = <<>>
    BY <1>3, MaxConcurrentPositive
       DEF IInv, TypeOK, AtLimit, WorkConserving, ConcurrencyLimit
  <2>3. runs[g] \in Seq(Work) /\ Len(runs[g]) = 0 /\ ~active_is_task[g]
    BY <1>3 DEF IInv, TypeOK, OneRunPerGroup
  <2>4. runs' \in [Groups -> Seq(Work)]
    BY <2>1, <2>3, WorkItems, AppendQueued DEF IInv, TypeOK
  <2>5. TypeOK'
    BY <2>1, <2>4 DEF IInv, TypeOK, MarkActive
  <2>6. active_is_task' = [active_is_task EXCEPT ![g] = (Messages # Messages)]
    BY <2>1, <2>3 DEF IInv, TypeOK
  <2>7. \A h \in Groups \ {g} :
           pending_messages'[h] = pending_messages[h] /\ pending_tasks'[h] = pending_tasks[h]
    BY <2>1 DEF IInv, TypeOK
  <2> QED
    BY <1>3, <2>1, <2>2, <2>5, <2>6, <2>7, WorkItems, StartIdle
<1> QED
  BY <1>1, <1>2, <1>3

LEMMA EnqueueTaskIInv ==
  ASSUME IInv, NEW g \in Groups, NEW t \in Tasks, EnqueueTask(g, t)
  PROVE  IInv'
<1>1. CASE active[g] \/ AtLimit
  <2>1. /\ pending_tasks' = [pending_tasks EXCEPT ![g] = Append(@, t)]
        /\ \/ active[g] /\ UNCHANGED waiting_groups
           \/ ~active[g] /\ AtLimit /\ AppendWaiting(g)
        /\ ~draining
        /\ UNCHANGED <<active, active_is_task, active_count, runs, pending_messages, retry_count,
                       group_folder, shutting_down, timers, ipc_input, draining>>
    BY <1>1 DEF EnqueueTask
  <2>2. waiting_groups' \in Seq(Groups)
    BY <2>1, AppendWaitingEffect DEF IInv, TypeOK, WaitingIsIdle
  <2>3. pending_tasks' \in [Groups -> Seq(Tasks)]
    BY <2>1, AppendQueued DEF IInv, TypeOK
  <2>4. TypeOK'
    BY <2>1, <2>2, <2>3 DEF IInv, TypeOK
  <2>5. \A h \in Groups \ {g} :
           pending_messages'[h] = pending_messages[h] /\ pending_tasks'[h] = pending_tasks[h]
    BY <2>1 DEF IInv, TypeOK
  <2> QED
    BY <2>1, <2>4, <2>5, ChangePending
<1>2. CASE ~active[g] /\ ~AtLimit
  <2>1. /\ MarkActive(g, active_count)
        /\ active_is_task' = [active_is_task EXCEPT ![g] = TRUE]
        /\ runs' = [runs EXCEPT ![g] = Append(@, TaskRun(t))]
        /\ ~draining /\ ~shutting_down
        /\ UNCHANGED <<pending_tasks, waiting_groups, pending_messages, retry_count,
                       group_folder, shutting_down, timers, ipc_input, draining>>
    BY <1>2 DEF EnqueueTask
  <2>2. active_count < MaxConcurrent /\ waiting_groups = <<>>
    BY <1>2, <2>1, MaxConcurrentPositive
       DEF IInv, TypeOK, AtLimit, WorkConserving, ConcurrencyLimit
  <2>3. TaskRun(t) \in Work /\ TaskRun(t) # Messages
    BY WorkItems
  <2>4. runs' \in [Groups -> Seq(Work)]
    BY <2>1, <2>3, AppendQueued DEF IInv, TypeOK
  <2>5. TypeOK'
    BY <2>1, <2>4 DEF IInv, TypeOK, MarkActive
  <2>6. active_is_task' = [active_is_task EXCEPT ![g] = (TaskRun(t) # Messages)]
    BY <2>1, <2>3
  <2> QED
    BY <1>2, <2>1, <2>2, <2>3, <2>5, <2>6, StartIdle
<1> QED
  BY <1>1, <1>2

\* What StartNextPending does, whichever kind of item it picks.
LEMMA StartNextPendingEffect ==
  ASSUME IInv, NEW g \in Groups, NEW rs, NEW n, StartNextPending(g, rs, n)
  PROVE  \E x \in Work :
           /\ MarkActive(g, n)
           /\ active_is_task' = [active_is_task EXCEPT ![g] = (x # Messages)]
           /\ runs' = [runs EXCEPT ![g] = Append(rs, x)]
           /\ pending_messages' \in [Groups -> BOOLEAN]
           /\ pending_tasks' \in [Groups -> Seq(Tasks)]
           /\ \A h \in Groups \ {g} :
                pending_messages'[h] = pending_messages[h] /\ pending_tasks'[h] = pending_tasks[h]
<1>1. CASE MessagesNext(g)
  BY <1>1, WorkItems DEF StartNextPending, IInv, TypeOK
<1>2. CASE ~MessagesNext(g)
  <2>1. /\ Head(pending_tasks[g]) \in Tasks
        /\ Tail(pending_tasks[g]) \in Seq(Tasks)
    BY <1>2, HeadQueued DEF StartNextPending, IInv, TypeOK
  <2>2. /\ TaskRun(Head(pending_tasks[g])) \in Work
        /\ TaskRun(Head(pending_tasks[g])) # Messages
    BY <2>1, WorkItems
  <2>3. /\ MarkActive(g, n)
        /\ active_is_task' = [active_is_task EXCEPT ![g] = TRUE]
        /\ pending_tasks' = [pending_tasks EXCEPT ![g] = Tail(@)]
        /\ runs' = [runs EXCEPT ![g] = Append(rs, TaskRun(Head(pending_tasks[g])))]
        /\ UNCHANGED pending_messages
    BY <1>2 DEF StartNextPending
  <2>4. /\ pending_messages' \in [Groups -> BOOLEAN]
        /\ pending_tasks' \in [Groups -> Seq(Tasks)]
        /\ \A h \in Groups \ {g} :
             pending_messages'[h] = pending_messages[h] /\ pending_tasks'[h] = pending_tasks[h]
    BY <2>1, <2>3 DEF IInv, TypeOK
  <2>5. active_is_task' = [active_is_task EXCEPT ![g] = (TaskRun(Head(pending_tasks[g])) # Messages)]
    BY <2>2, <2>3
  <2> QED
    BY <2>2, <2>3, <2>4, <2>5
<1> QED
  BY <1>1, <1>2

\* The finally block of either kind of run.
LEMMA ReleaseAndDrainIInv ==
  ASSUME IInv, NEW g \in Groups, NEW i \in 1..Len(runs[g]), ~draining,
         ReleaseAndDrain(g, i),
         retry_count' \in [Groups -> 0..MaxRetries],
         timers' \in [Groups -> 0..MaxTimers],
         ipc_input' \in [Groups -> SUBSET {"messages", "task"}],
         \A h \in Groups : "task" \in ipc_input'[h] =>
           "task" \in ipc_input[h] /\ (h = g => ~active_is_task[g]),
         UNCHANGED shutting_down
  PROVE  IInv'
<1>1. active[g] /\ Len(runs[g]) = 1 /\ runs[g] \in Seq(Work)
  BY DEF IInv, TypeOK, OneRunPerGroup
<1>2. WithoutRun(runs[g], i) = <<>>
  BY <1>1, WithoutOnlyRun
<1>3. /\ group_folder' = [group_folder EXCEPT ![g] = FALSE]
      /\ UNCHANGED waiting_groups
  BY DEF ReleaseAndDrain
<1>4. active_count \in Nat \ {0}
  <2>1. active \in [Groups -> BOOLEAN] /\ Cardinality(ActiveGroups) = active_count
    BY DEF IInv, TypeOK, ConcurrencyLimit
  <2>2. g \in ActiveGroups /\ IsFiniteSet(ActiveGroups)
    BY <1>1, GroupsFinite, FS_Subset DEF ActiveGroups
  <2>3. Cardinality(ActiveGroups) \in Nat /\ Cardinality(ActiveGroups) # 0
    BY <2>2, FS_CardinalityType, FS_EmptySet
  <2> QED
    BY <2>1, <2>3
<1>5. CASE MayDrain /\ HasPending(g) /\ StartNextPending(g, <<>>, active_count - 1) /\ UNCHANGED draining
  <2>1. PICK x \in Work :
           /\ MarkActive(g, active_count - 1)
           /\ active_is_task' = [active_is_task EXCEPT ![g] = (x # Messages)]
           /\ runs' = [runs EXCEPT ![g] = Append(<<>>, x)]
           /\ pending_messages' \in [Groups -> BOOLEAN]
           /\ pending_tasks' \in [Groups -> Seq(Tasks)]
           /\ \A h \in Groups \ {g} :
                pending_messages'[h] = pending_messages[h] /\ pending_tasks'[h] = pending_tasks[h]
    BY <1>5, StartNextPendingEffect
  <2>2. Append(<<>>, x) = <<x>> /\ <<x>> \in Seq(Work)
    OBVIOUS
  <2>3. TypeOK'
    BY <1>3, <1>4, <1>5, <2>1, <2>2 DEF IInv, TypeOK, MarkActive
  <2> QED
    BY <1>1, <1>3, <1>5, <2>1, <2>2, <2>3, HandOver DEF MayDrain
<1>6. CASE /\ ~MayDrain \/ ~HasPending(g)
           /\ active' = [active EXCEPT ![g] = FALSE]
           /\ active_is_task' = [active_is_task EXCEPT ![g] = FALSE]
           /\ runs' = [runs EXCEPT ![g] = <<>>]
           /\ active_count' = active_count - 1
           /\ draining' = (MayDrain /\ KeepDraining(waiting_groups, active_count - 1))
           /\ UNCHANGED <<pending_messages, pending_tasks>>
  <2>1. draining' \in BOOLEAN
    BY <1>6 DEF MayDrain, KeepDraining
  <2>2. TypeOK'
    BY <1>3, <1>4, <1>6, <2>1 DEF IInv, TypeOK
  <2> QED
    BY <1>1, <1>3, <1>6, <2>2, Release
<1> QED
  BY <1>2, <1>5, <1>6 DEF ReleaseAndDrain

LEMMA FinishMessagesIInv ==
  ASSUME IInv, NEW g \in Groups, NEW i \in 1..Len(runs[g]), NEW outcome \in Outcome,
         FinishMessages(g, i, outcome)
  PROVE  IInv'
<1>1. /\ retry_count' \in [Groups -> 0..MaxRetries]
      /\ timers' \in [Groups -> 0..MaxTimers]
  <2>1. /\ retry_count \in [Groups -> 0..MaxRetries]
        /\ timers \in [Groups -> 0..MaxTimers]
    BY DEF IInv, TypeOK
  <2>2. CASE ScheduleRetry(g) /\ retry_count[g] + 1 > MaxRetries
    BY <2>1, <2>2, MaxRetriesNat DEF ScheduleRetry
  <2>3. CASE ScheduleRetry(g) /\ ~(retry_count[g] + 1 > MaxRetries)
    <3>1. /\ retry_count' = [retry_count EXCEPT ![g] = retry_count[g] + 1]
          /\ timers' = [timers EXCEPT ![g] = timers[g] + 1]
          /\ timers[g] < MaxTimers
      BY <2>3 DEF ScheduleRetry
    <3>2. retry_count[g] + 1 \in 0..MaxRetries
      BY <2>1, <2>3, MaxRetriesNat
    <3>3. timers[g] + 1 \in 0..MaxTimers
      BY <2>1, <3>1, MaxTimersNat
    <3> QED
      BY <2>1, <3>1, <3>2, <3>3
  <2>4. CASE retry_count' = [retry_count EXCEPT ![g] = 0] /\ UNCHANGED timers
    BY <2>1, <2>4, MaxRetriesNat
  <2>5. CASE UNCHANGED <<retry_count, timers>>
    BY <2>1, <2>5
  <2> QED
    BY <2>2, <2>3, <2>4, <2>5 DEF FinishMessages
<1>2. runs[g] = <<Messages>>
  <2>1. Len(runs[g]) = 1 /\ runs[g] \in Seq(Work) /\ runs[g][i] = Messages
    BY DEF IInv, TypeOK, OneRunPerGroup, FinishMessages
  <2> QED
    BY <2>1, WithoutOnlyRun
<1>3. ~active_is_task[g]
  BY <1>2 DEF IInv, OneRunPerGroup
<1> QED
  BY <1>1, <1>3, ReleaseAndDrainIInv DEF FinishMessages, IInv, TypeOK

LEMMA FinishTaskIInv ==
  ASSUME IInv, NEW g \in Groups, NEW i \in 1..Len(runs[g]), FinishTask(g, i)
  PROVE  IInv'
<1>1. ipc_input' \in [Groups -> SUBSET {"messages", "task"}]
  BY DEF FinishTask, CleanInput, IInv, TypeOK
<1>2. ASSUME NEW h \in Groups, "task" \in ipc_input'[h]
      PROVE  "task" \in ipc_input[h] /\ (h = g => ~active_is_task[g])
  <2>1. CASE group_folder[g]
    <3>1. ipc_input' = [ipc_input EXCEPT ![g] = {}]
      BY <2>1 DEF FinishTask, CleanInput
    <3> QED
      BY <1>2, <3>1 DEF IInv, TypeOK
  <2>2. CASE ~group_folder[g]
    <3>1. ipc_input' = ipc_input /\ "task" \notin ipc_input[g]
      BY <2>2 DEF FinishTask, CleanInput, IInv, FolderOfLiveRun
    <3> QED
      BY <1>2, <3>1
  <2> QED
    BY <2>1, <2>2
<1> QED
  BY <1>1, <1>2, ReleaseAndDrainIInv DEF FinishTask, IInv, TypeOK

LEMMA DrainWaitingIInv ==
  ASSUME IInv, DrainWaiting
  PROVE  IInv'
<1> DEFINE g == Head(waiting_groups)
<1>1. /\ waiting_groups \in Seq(Groups) /\ waiting_groups # <<>>
      /\ active_count < MaxConcurrent /\ ~shutting_down
      /\ \A h \in Groups : Queued(waiting_groups, h) => ~active[h]
  BY DEF DrainWaiting, IInv, TypeOK, DrainLoopEntered, WaitingIsIdle
<1>2. g \in Groups /\ ~active[g] /\ Tail(waiting_groups) \in Seq(Groups)
  BY <1>1, HeadQueued
<1> HIDE DEF g
<1>3. /\ waiting_groups' = Tail(waiting_groups)
      /\ draining /\ draining' = KeepDraining(waiting_groups', active_count')
      /\ UNCHANGED <<retry_count, group_folder, shutting_down, timers, ipc_input>>
  BY DEF DrainWaiting
<1>4. draining' \in BOOLEAN
  BY <1>3 DEF KeepDraining
<1>5. CASE HasPending(g) /\ StartNextPending(g, runs[g], active_count)
  <2>1. PICK x \in Work :
           /\ MarkActive(g, active_count)
           /\ active_is_task' = [active_is_task EXCEPT ![g] = (x # Messages)]
           /\ runs' = [runs EXCEPT ![g] = Append(runs[g], x)]
           /\ pending_messages' \in [Groups -> BOOLEAN]
           /\ pending_tasks' \in [Groups -> Seq(Tasks)]
           /\ \A h \in Groups \ {g} :
                pending_messages'[h] = pending_messages[h] /\ pending_tasks'[h] = pending_tasks[h]
    BY <1>2, <1>5, StartNextPendingEffect
  <2>2. Append(runs[g], x) \in Seq(Work)
    BY <1>2, AppendQueued DEF IInv, TypeOK
  <2>3. TypeOK'
    <3>1. active' \in [Groups -> BOOLEAN] /\ active_count' \in Nat
      BY <1>1, <1>2, <2>1 DEF IInv, TypeOK, MarkActive
    <3>2. active_is_task' \in [Groups -> BOOLEAN] /\ runs' \in [Groups -> Seq(Work)]
      BY <1>2, <2>1, <2>2 DEF IInv, TypeOK
    <3> QED
      BY <1>2, <1>3, <1>4, <2>1, <3>1, <3>2 DEF IInv, TypeOK
  <2> QED
    BY <1>1, <1>2, <1>3, <2>1, <2>3, StartIdle DEF g
<1>6. CASE ~HasPending(g) /\ UNCHANGED <<active, active_is_task, pending_messages,
                                         pending_tasks, runs, active_count>>
  <2>1. TypeOK'
    BY <1>2, <1>3, <1>4, <1>6 DEF IInv, TypeOK
  <2> QED
    BY <1>3, <1>6, <2>1, Skip DEF g
<1> QED
  BY <1>5, <1>6 DEF DrainWaiting, g

\* The actions that leave the control state alone.
LEMMA BystanderIInv ==
  ASSUME IInv,
         \/ \E g \in Groups : RegisterProcess(g) \/ SendMessage(g) \/ ContainerReadsInput(g)
         \/ Shutdown
  PROVE  IInv'
<1>1. ASSUME NEW g \in Groups, RegisterProcess(g) PROVE IInv'
  <2>1. active[g]
    BY <1>1 DEF RegisterProcess, IInv, TypeOK, OneRunPerGroup
  <2>2. TypeOK' /\ NoStaleTaskInput' /\ FolderOfLiveRun'
    BY <1>1, <2>1
       DEF RegisterProcess, stateVars, IInv, TypeOK, NoStaleTaskInput, FolderOfLiveRun
  <2> QED
    BY <1>1, <2>2, KeepControl DEF RegisterProcess
<1>2. ASSUME NEW g \in Groups, SendMessage(g) PROVE IInv'
  <2>1. TypeOK' /\ FolderOfLiveRun'
    BY <1>2 DEF SendMessage, stateVars, IInv, TypeOK, FolderOfLiveRun
  <2>2. NoStaleTaskInput'
    BY <1>2 DEF SendMessage, stateVars, IInv, TypeOK, NoStaleTaskInput
  <2> QED
    BY <1>2, <2>1, <2>2, KeepControl DEF SendMessage
<1>3. ASSUME NEW g \in Groups, ContainerReadsInput(g) PROVE IInv'
  <2>1. TypeOK' /\ NoStaleTaskInput' /\ FolderOfLiveRun'
    BY <1>3 DEF ContainerReadsInput, stateVars, IInv, TypeOK, NoStaleTaskInput, FolderOfLiveRun
  <2> QED
    BY <1>3, <2>1, KeepControl DEF ContainerReadsInput
<1>4. ASSUME Shutdown PROVE IInv'
  <2>1. TypeOK' /\ NoStaleTaskInput' /\ FolderOfLiveRun'
    BY <1>4 DEF Shutdown, stateVars, IInv, TypeOK, NoStaleTaskInput, FolderOfLiveRun
  <2> QED
    BY <1>4, <2>1, KeepControl DEF Shutdown
<1> QED
  BY <1>1, <1>2, <1>3, <1>4

LEMMA ClearPendingTasksIInv ==
  ASSUME IInv, NEW g \in Groups, ClearPendingTasks(g)
  PROVE  IInv'
<1>1. TypeOK'
  BY DEF ClearPendingTasks, IInv, TypeOK
<1>2. HasPending(g)' => HasPending(g)
  BY DEF ClearPendingTasks, HasPending, IInv, TypeOK
<1>3. \A h \in Groups \ {g} :
         pending_messages'[h] = pending_messages[h] /\ pending_tasks'[h] = pending_tasks[h]
  BY DEF ClearPendingTasks, IInv, TypeOK
<1> QED
  BY <1>1, <1>2, <1>3, ChangePending DEF ClearPendingTasks

\* Every step preserves the inductive invariant.
LEMMA NextIInv == IInv /\ [Next]_vars => IInv'
<1> SUFFICES ASSUME IInv, [Next]_vars PROVE IInv'
  OBVIOUS
<1>1. ASSUME NEW g \in Groups, EnqueueMessageCheck(g) PROVE IInv'
  BY <1>1, MessageCheckIInv DEF EnqueueMessageCheck, IInv, TypeOK
<1>2. ASSUME NEW g \in Groups, RetryFires(g) PROVE IInv'
  <2>1. timers' \in [Groups -> 0..MaxTimers]
    BY <1>2, MaxTimersNat DEF RetryFires, IInv, TypeOK
  <2> QED
    BY <1>2, <2>1, MessageCheckIInv DEF RetryFires, IInv, TypeOK
<1>3. CASE UNCHANGED vars
  <2>1. TypeOK' /\ NoStaleTaskInput' /\ FolderOfLiveRun' /\ UNCHANGED stateVars
    BY <1>3 DEF vars, stateVars, IInv, TypeOK, NoStaleTaskInput, FolderOfLiveRun
  <2>2. (shutting_down => shutting_down') /\ (draining => ~shutting_down')
    BY <1>3 DEF vars, IInv, DrainLoopEntered
  <2> QED
    BY <2>1, <2>2, KeepControl
<1> QED
  BY <1>1, <1>2, <1>3, EnqueueTaskIInv, FinishMessagesIInv, FinishTaskIInv,
     DrainWaitingIInv, BystanderIInv, ClearPendingTasksIInv DEF Next

-----------------------------------------------------------------------------
(* The theorems.                                                           *)

\* IInv holds in every reachable state of every instance.
THEOREM InductiveInvariant == Spec => []IInv
<1> QED
  BY InitIInv, NextIInv, PTL DEF Spec

\* The state keeps its type (concurrency.py, GroupState and GroupQueue).
THEOREM TypeCorrect == Spec => []TypeOK
<1>1. IInv => TypeOK
  BY DEF IInv
<1> QED
  BY <1>1, InductiveInvariant, PTL

\* The active flag set before the coroutine runs excludes a second run of the group,
\* for any number of groups and any interleaving of enqueues, finishes and drains.
THEOREM RunsExclusive == Spec => []OneRunPerGroup
<1>1. IInv => OneRunPerGroup
  BY DEF IInv
<1> QED
  BY <1>1, InductiveInvariant, PTL

\* _active_count is the number of groups that hold a slot and never exceeds the limit.
THEOREM LimitHolds == Spec => []ConcurrencyLimit
<1>1. IInv => ConcurrencyLimit
  BY DEF IInv
<1> QED
  BY <1>1, InductiveInvariant, PTL

\* No path through the queue leaves pending work without a run or a queue entry that
\* will pick it up.
THEOREM NoWakeupLost == Spec => []NoLostWork
<1>1. IInv => NoLostWork
  BY DEF IInv
<1> QED
  BY <1>1, InductiveInvariant, PTL

\* When the drain loop has run, groups wait only for lack of a slot.
THEOREM SlotsAreUsed == Spec => []WorkConserving
<1>1. IInv => WorkConserving
  BY DEF IInv
<1> QED
  BY <1>1, InductiveInvariant, PTL

\* No follow-up of a task container survives into another run of the group.
THEOREM TaskInputIsCleaned == Spec => []NoStaleTaskInput
<1>1. IInv => NoStaleTaskInput
  BY DEF IInv
<1> QED
  BY <1>1, InductiveInvariant, PTL

-----------------------------------------------------------------------------
(* The action properties: what is known of any step that starts a run.     *)

\* A step that gives g a run does so before shutdown, prefers messages, and takes an
\* idle g from the head of the waiting queue unless nobody waits.
StartsInOrder(g) ==
  /\ ~shutting_down
  /\ pending_messages[g] => runs'[g] = <<Messages>>
  /\ ~active[g] /\ waiting_groups # <<>> => g = Head(waiting_groups)

LEMMA MessageCheckStart ==
  ASSUME IInv, NEW g \in Groups, NEW h \in Groups, ~draining, MessageCheck(h),
         runs'[g] # runs[g]
  PROVE  StartsInOrder(g)
<1>1. /\ ~shutting_down /\ ~active[h] /\ ~AtLimit
      /\ runs' = [runs EXCEPT ![h] = Append(@, Messages)]
  BY DEF MessageCheck
<1>2. h = g
  BY <1>1 DEF IInv, TypeOK
<1>3. runs[g] \in Seq(Work) /\ Len(runs[g]) = 0
  BY <1>1, <1>2 DEF IInv, TypeOK, OneRunPerGroup
<1>4. runs'[g] = <<Messages>>
  BY <1>1, <1>2, <1>3, FirstRun, WorkItems DEF IInv, TypeOK
<1>5. waiting_groups = <<>>
  BY <1>1, MaxConcurrentPositive DEF IInv, TypeOK, AtLimit, WorkConserving, ConcurrencyLimit
<1> QED
  BY <1>1, <1>4, <1>5 DEF StartsInOrder

LEMMA EnqueueTaskStart ==
  ASSUME IInv, NEW g \in Groups, NEW h \in Groups, NEW t \in Tasks, EnqueueTask(h, t),
         runs'[g] # runs[g]
  PROVE  StartsInOrder(g)
<1>1. /\ ~shutting_down /\ ~draining /\ ~active[h] /\ ~AtLimit
      /\ runs' = [runs EXCEPT ![h] = Append(@, TaskRun(t))]
  BY DEF EnqueueTask
<1>2. h = g
  BY <1>1 DEF IInv, TypeOK
<1>3. waiting_groups = <<>>
  BY <1>1, MaxConcurrentPositive DEF IInv, TypeOK, AtLimit, WorkConserving, ConcurrencyLimit
<1>4. ~pending_messages[g]
  BY <1>1, <1>2, <1>3 DEF IInv, NoLostWork, HasPending, Queued
<1> QED
  BY <1>1, <1>3, <1>4 DEF StartsInOrder

\* _start_next_pending called for h with the runs rs left to it.
LEMMA NextPendingStart ==
  ASSUME IInv, NEW g \in Groups, NEW h \in Groups, NEW rs \in Seq(Work), Len(rs) = 0, NEW n,
         StartNextPending(h, rs, n), runs'[g] # runs[g]
  PROVE  g = h /\ (pending_messages[g] => runs'[g] = <<Messages>>)
<1>1. PICK x : runs' = [runs EXCEPT ![h] = Append(rs, x)]
  BY DEF StartNextPending
<1>2. g = h
  BY <1>1 DEF IInv, TypeOK
<1>3. ASSUME pending_messages[g] PROVE runs'[g] = <<Messages>>
  <2>1. runs' = [runs EXCEPT ![h] = Append(rs, Messages)]
    BY <1>2, <1>3 DEF StartNextPending, MessagesNext
  <2> QED
    BY <1>2, <2>1, FirstRun, WorkItems DEF IInv, TypeOK
<1> QED
  BY <1>2, <1>3

LEMMA ReleaseAndDrainStart ==
  ASSUME IInv, NEW g \in Groups, NEW h \in Groups, NEW i \in 1..Len(runs[h]),
         ReleaseAndDrain(h, i), runs'[g] # runs[g], runs'[g] # <<>>
  PROVE  StartsInOrder(g)
<1>1. active[h] /\ Len(runs[h]) = 1 /\ runs[h] \in Seq(Work)
  BY DEF IInv, TypeOK, OneRunPerGroup
<1>2. WithoutRun(runs[h], i) = <<>>
  BY <1>1, WithoutOnlyRun
<1>3. CASE MayDrain /\ StartNextPending(h, <<>>, active_count - 1)
  <2>1. <<>> \in Seq(Work) /\ Len(<<>>) = 0
    OBVIOUS
  <2>2. g = h /\ (pending_messages[g] => runs'[g] = <<Messages>>)
    BY <1>3, <2>1, NextPendingStart
  <2> QED
    BY <1>1, <1>3, <2>2 DEF StartsInOrder, MayDrain
<1>4. CASE runs' = [runs EXCEPT ![h] = <<>>]
  BY <1>4 DEF IInv, TypeOK
<1> QED
  BY <1>2, <1>3, <1>4 DEF ReleaseAndDrain

LEMMA DrainWaitingStart ==
  ASSUME IInv, NEW g \in Groups, DrainWaiting, runs'[g] # runs[g]
  PROVE  StartsInOrder(g)
<1> DEFINE h == Head(waiting_groups)
<1>1. /\ waiting_groups \in Seq(Groups) /\ waiting_groups # <<>> /\ ~shutting_down
      /\ \A k \in Groups : Queued(waiting_groups, k) => ~active[k]
  BY DEF DrainWaiting, IInv, TypeOK, DrainLoopEntered, WaitingIsIdle
<1>2. h \in Groups /\ ~active[h]
  BY <1>1, HeadQueued
<1>3. runs[h] \in Seq(Work) /\ Len(runs[h]) = 0
  BY <1>2 DEF IInv, TypeOK, OneRunPerGroup
<1>4. StartNextPending(h, runs[h], active_count)
  BY DEF DrainWaiting
<1>5. g = h /\ (pending_messages[g] => runs'[g] = <<Messages>>)
  BY <1>2, <1>3, <1>4, NextPendingStart
<1> QED
  BY <1>1, <1>5 DEF StartsInOrder

LEMMA StartingStep ==
  ASSUME IInv, [Next]_vars, NEW g \in Groups, runs'[g] # runs[g], runs'[g] # <<>>
  PROVE  StartsInOrder(g)
<1>1. ASSUME NEW h \in Groups, EnqueueMessageCheck(h) \/ RetryFires(h) PROVE StartsInOrder(g)
  BY <1>1, MessageCheckStart DEF EnqueueMessageCheck, RetryFires
<1>2. ASSUME NEW h \in Groups, NEW i \in 1..Len(runs[h]),
             FinishTask(h, i) \/ \E outcome \in Outcome : FinishMessages(h, i, outcome)
      PROVE  StartsInOrder(g)
  BY <1>2, ReleaseAndDrainStart DEF FinishTask, FinishMessages
<1>3. \A h \in Groups : ~(RegisterProcess(h) \/ SendMessage(h) \/ ContainerReadsInput(h)
                          \/ ClearPendingTasks(h))
  BY DEF RegisterProcess, SendMessage, ContainerReadsInput, ClearPendingTasks, stateVars
<1>4. ~Shutdown /\ ~UNCHANGED vars
  BY DEF Shutdown, stateVars, vars
<1> QED
  BY <1>1, <1>2, <1>3, <1>4, EnqueueTaskStart, DrainWaitingStart DEF Next

\* Messages are started before the queued tasks of the group, in every step of every
\* instance; the direct start in enqueue_task needs NoLostWork for it.
THEOREM MessagesStartFirst == Spec => MessagesBeforeTasks
<1>1. IInv /\ [Next]_vars => [MessagesFirst]_vars
  <2> SUFFICES ASSUME IInv, [Next]_vars, NEW g \in Groups,
                      runs'[g] # runs[g], runs'[g] # <<>>, pending_messages[g]
               PROVE  runs'[g] = <<Messages>>
    BY DEF MessagesFirst
  <2> QED
    BY StartingStep DEF StartsInOrder
<1> QED
  BY <1>1, InductiveInvariant, PTL DEF Spec, MessagesBeforeTasks

\* A slot goes to the head of the waiting queue or, if nobody waits, to the caller.
THEOREM NobodyOvertakes == Spec => NoBarging
<1>1. IInv /\ IInv' /\ [Next]_vars => [HeadStarts]_vars
  <2> SUFFICES ASSUME IInv, IInv', [Next]_vars, NEW g \in Groups,
                      ~active[g], active'[g], waiting_groups # <<>>
               PROVE  g = Head(waiting_groups)
    BY DEF HeadStarts
  <2>1. Len(runs[g]) = 0 /\ Len(runs'[g]) = 1
    BY DEF IInv, OneRunPerGroup
  <2>2. runs'[g] # runs[g] /\ runs'[g] # <<>>
    BY <2>1
  <2> QED
    BY <2>2, StartingStep DEF StartsInOrder
<1> QED
  BY <1>1, InductiveInvariant, PTL DEF Spec, NoBarging

\* Once shutdown() has run, no drain, retry or enqueue starts a run.
THEOREM ShutdownIsFinal == Spec => NoStartAfterShutdown
<1>1. IInv /\ IInv' /\ [Next]_vars => [shutting_down => NothingStarts]_vars
  <2> SUFFICES ASSUME IInv, IInv', [Next]_vars, shutting_down, NEW g \in Groups,
                      active'[g], runs'[g] # runs[g]
               PROVE  FALSE
    BY DEF NothingStarts
  <2>1. runs'[g] # <<>>
    BY DEF IInv, OneRunPerGroup
  <2> QED
    BY <2>1, StartingStep DEF StartsInOrder
<1> QED
  BY <1>1, InductiveInvariant, PTL DEF Spec, NoStartAfterShutdown

\* Runs are exclusive, counted and rid of a task's input, together.
THEOREM RunsAreSound == Spec => []RunsSound
BY RunsExclusive, LimitHolds, TaskInputIsCleaned, PTL DEF RunsSound

\* Accepted work is owed by somebody, and slots are used while anybody waits.
THEOREM WorkStaysOwed == Spec => []WorkIsOwed
BY NoWakeupLost, SlotsAreUsed, PTL DEF WorkIsOwed

\* Every start respects the three orders.
THEOREM StartsInThatOrder == Spec => StartOrder
BY MessagesStartFirst, NobodyOvertakes, ShutdownIsFinal DEF StartOrder

-----------------------------------------------------------------------------
(* The queue implements the ledger.                                        *)

\* A task waits at most once in the queue of its group; a start then takes all of it off
\* what is owed.
TasksQueuedOnce == \A g \in Groups : Unique(pending_tasks[g])

\* The ledger's two sets, of any value of the flags, queues and run lists.
OwedBy(pm, pt) == {x \in Groups \X Work : \/ x[2] = Messages /\ pm[x[1]]
                                          \/ \E i \in 1..Len(pt[x[1]]) : x[2] = TaskRun(pt[x[1]][i])}

RunningIn(rs) == UNION {{<<g, rs[g][i]>> : i \in 1..Len(rs[g])} : g \in Groups}

LEMMA LedgerSets ==
  /\ Owed = OwedBy(pending_messages, pending_tasks)
  /\ Owed' = OwedBy(pending_messages', pending_tasks')
  /\ Running = RunningIn(runs)
  /\ Running' = RunningIn(runs')
  BY DEF Owed, IsOwed, OwedBy, Running, RunningIn

LEMMA TaskRunIsInjective ==
  ASSUME NEW s, NEW t, TaskRun(s) = TaskRun(t)
  PROVE  s = t
<1>1. TaskRun(s).id = TaskRun(t).id
  OBVIOUS
<1> QED
  BY <1>1 DEF TaskRun

\* What is owed, item by item.
LEMMA OwedItems ==
  ASSUME NEW pm, NEW pt \in [Groups -> Seq(Tasks)]
  PROVE  /\ OwedBy(pm, pt) \subseteq Groups \X Work
         /\ \A g \in Groups : <<g, Messages>> \in OwedBy(pm, pt) <=> pm[g]
         /\ \A g \in Groups, t \in Tasks :
              <<g, TaskRun(t)>> \in OwedBy(pm, pt) <=> Queued(pt[g], t)
<1>1. ASSUME NEW g \in Groups PROVE <<g, Messages>> \in OwedBy(pm, pt) <=> pm[g]
  <2>1. \A i \in 1..Len(pt[g]) : pt[g][i] \in Tasks
    OBVIOUS
  <2>2. \A i \in 1..Len(pt[g]) : Messages # TaskRun(pt[g][i])
    BY <2>1, WorkItems
  <2> QED
    BY <2>2, WorkItems DEF OwedBy
<1>2. ASSUME NEW g \in Groups, NEW t \in Tasks
      PROVE  <<g, TaskRun(t)>> \in OwedBy(pm, pt) <=> Queued(pt[g], t)
  <2>1. TaskRun(t) \in Work /\ TaskRun(t) # Messages
    BY WorkItems
  <2>2. \A i \in 1..Len(pt[g]) : (TaskRun(t) = TaskRun(pt[g][i])) <=> (pt[g][i] = t)
    BY TaskRunIsInjective
  <2> QED
    BY <2>1, <2>2 DEF OwedBy, Queued
<1> QED
  BY <1>1, <1>2 DEF OwedBy

\* Two sets of owed items are the same when they agree on messages and on every task.
LEMMA SameItems ==
  ASSUME NEW A, NEW B, A \subseteq Groups \X Work, B \subseteq Groups \X Work,
         \A g \in Groups : <<g, Messages>> \in A <=> <<g, Messages>> \in B,
         \A g \in Groups, t \in Tasks : <<g, TaskRun(t)>> \in A <=> <<g, TaskRun(t)>> \in B
  PROVE  A = B
<1>1. ASSUME NEW x \in Groups \X Work PROVE x \in A <=> x \in B
  <2>1. PICK g \in Groups, w \in Work : x = <<g, w>>
    OBVIOUS
  <2>2. w = Messages \/ \E t \in Tasks : w = TaskRun(t)
    BY DEF Work
  <2> QED
    BY <2>1, <2>2
<1> QED
  BY <1>1

LEMMA SameOwed ==
  ASSUME UNCHANGED <<pending_messages, pending_tasks>>
  PROVE  Owed' = Owed
  BY LedgerSets

\* The messages of g are taken off what is owed when their flag is cleared.
LEMMA MessagesTaken ==
  ASSUME pending_messages \in [Groups -> BOOLEAN], pending_tasks \in [Groups -> Seq(Tasks)],
         NEW g \in Groups, UNCHANGED pending_tasks,
         pending_messages' = [pending_messages EXCEPT ![g] = FALSE]
  PROVE  Owed' = Owed \ {<<g, Messages>>}
<1>1. /\ \A h \in Groups : pending_messages'[h] <=> (pending_messages[h] /\ h # g)
      /\ Owed \subseteq Groups \X Work
      /\ Owed' \subseteq Groups \X Work
  BY OwedItems, LedgerSets
<1>2. \A h \in Groups : <<h, Messages>> \in Owed' <=> <<h, Messages>> \in Owed \ {<<g, Messages>>}
  BY <1>1, OwedItems, LedgerSets
<1>3. \A h \in Groups, t \in Tasks :
        <<h, TaskRun(t)>> \in Owed' <=> <<h, TaskRun(t)>> \in Owed \ {<<g, Messages>>}
  BY OwedItems, LedgerSets, WorkItems
<1> DEFINE before == Owed \ {<<g, Messages>>}
           after == Owed'
<1>4. /\ before \subseteq Groups \X Work
      /\ after \subseteq Groups \X Work
      /\ \A h \in Groups : <<h, Messages>> \in after <=> <<h, Messages>> \in before
      /\ \A h \in Groups, t \in Tasks : <<h, TaskRun(t)>> \in after <=> <<h, TaskRun(t)>> \in before
  BY <1>1, <1>2, <1>3
<1>5. after = before
  <2> HIDE DEF before, after
  <2> QED
    BY <1>4, SameItems
<1> QED
  BY <1>5

\* The first task of g is taken off what is owed when it leaves the queue, where it
\* waited once.
LEMMA TaskTaken ==
  ASSUME pending_tasks \in [Groups -> Seq(Tasks)],
         NEW g \in Groups, UNCHANGED pending_messages,
         pending_tasks[g] # <<>>, Unique(pending_tasks[g]),
         pending_tasks' = [pending_tasks EXCEPT ![g] = Tail(@)]
  PROVE  Owed' = Owed \ {<<g, TaskRun(Head(pending_tasks[g]))>>}
<1> DEFINE s == Head(pending_tasks[g])
<1>1. /\ s \in Tasks
      /\ Tail(pending_tasks[g]) \in Seq(Tasks)
      /\ \A t : Queued(pending_tasks[g], t) <=> t = s \/ Queued(Tail(pending_tasks[g]), t)
      /\ ~Queued(Tail(pending_tasks[g]), s)
  BY HeadQueued, TailUnique
<1>2. /\ pending_tasks' \in [Groups -> Seq(Tasks)]
      /\ pending_tasks'[g] = Tail(pending_tasks[g])
      /\ \A h \in Groups \ {g} : pending_tasks'[h] = pending_tasks[h]
  BY <1>1
<1>3. Owed \subseteq Groups \X Work /\ Owed' \subseteq Groups \X Work
  BY <1>2, OwedItems, LedgerSets
<1>4. \A h \in Groups : <<h, Messages>> \in Owed' <=> <<h, Messages>> \in Owed \ {<<g, TaskRun(s)>>}
  BY <1>1, <1>2, OwedItems, LedgerSets, WorkItems
<1>5. \A h \in Groups, t \in Tasks :
        <<h, TaskRun(t)>> \in Owed' <=> Queued(pending_tasks[h], t) /\ ~(h = g /\ t = s)
  BY <1>1, <1>2, OwedItems, LedgerSets
<1>6. \A h \in Groups, t \in Tasks :
        <<h, TaskRun(t)>> \in Owed \ {<<g, TaskRun(s)>>} <=> Queued(pending_tasks[h], t) /\ ~(h = g /\ t = s)
  BY <1>1, OwedItems, LedgerSets, TaskRunIsInjective
<1> DEFINE before == Owed \ {<<g, TaskRun(s)>>}
           after == Owed'
<1>7. /\ before \subseteq Groups \X Work
      /\ after \subseteq Groups \X Work
      /\ \A h \in Groups : <<h, Messages>> \in after <=> <<h, Messages>> \in before
      /\ \A h \in Groups, t \in Tasks : <<h, TaskRun(t)>> \in after <=> <<h, TaskRun(t)>> \in before
  BY <1>3, <1>4, <1>5, <1>6
<1>8. after = before
  <2> HIDE DEF before, after
  <2> QED
    BY <1>7, SameItems
<1> QED
  BY <1>8

\* What runs, item by item.
LEMMA RunningItems ==
  ASSUME NEW rs \in [Groups -> Seq(Work)], \A g \in Groups : Len(rs[g]) \in {0, 1}
  PROVE  /\ RunningIn(rs) \subseteq Groups \X Work
         /\ \A x : x \in RunningIn(rs) <=>
                     \E g \in Groups : Len(rs[g]) = 1 /\ x = <<g, rs[g][1]>>
<1>1. \A g \in Groups : \A i \in 1..Len(rs[g]) : rs[g][i] \in Work
  OBVIOUS
<1>2. \A g \in Groups : {<<g, rs[g][i]>> : i \in 1..Len(rs[g])} =
                          IF Len(rs[g]) = 1 THEN {<<g, rs[g][1]>>} ELSE {}
  OBVIOUS
<1>3. RunningIn(rs) \subseteq Groups \X Work
  BY <1>1 DEF RunningIn
<1>4. \A x : x \in RunningIn(rs) <=>
                 \E g \in Groups : x \in IF Len(rs[g]) = 1 THEN {<<g, rs[g][1]>>} ELSE {}
  BY <1>2 DEF RunningIn
<1> QED
  BY <1>3, <1>4

\* No group runs two items, and the items fit the slots.
RunningSound ==
  /\ \A g \in Groups : Len(runs[g]) \in {0, 1}
  /\ \A x, y \in Running : x[1] = y[1] => x = y
  /\ Cardinality(Running) <= MaxConcurrent

LEMMA RunningFits == IInv => RunningSound
<1> SUFFICES ASSUME IInv PROVE RunningSound
  OBVIOUS
<1>1. /\ runs \in [Groups -> Seq(Work)]
      /\ \A g \in Groups : Len(runs[g]) \in {0, 1}
      /\ \A g \in Groups : active[g] <=> (Len(runs[g]) = 1)
  <2>1. /\ runs \in [Groups -> Seq(Work)]
        /\ active \in [Groups -> BOOLEAN]
        /\ \A g \in Groups : Len(runs[g]) = (IF active[g] THEN 1 ELSE 0)
    BY DEF IInv, TypeOK, OneRunPerGroup
  <2>2. ASSUME NEW g \in Groups
        PROVE  Len(runs[g]) \in {0, 1} /\ (active[g] <=> (Len(runs[g]) = 1))
    <3>1. CASE active[g]
      <4>1. Len(runs[g]) = 1
        BY <2>1, <3>1
      <4> QED
        BY <3>1, <4>1
    <3>2. CASE ~active[g]
      <4>1. Len(runs[g]) = 0
        BY <2>1, <3>2
      <4>2. Len(runs[g]) # 1
        BY <4>1
      <4> QED
        BY <3>2, <4>1, <4>2
    <3> QED
      BY <3>1, <3>2
  <2> QED
    BY <2>1, <2>2
<1>2. \A x : x \in Running <=> \E g \in Groups : Len(runs[g]) = 1 /\ x = <<g, runs[g][1]>>
  BY <1>1, RunningItems, LedgerSets
<1>3. Running = {<<g, runs[g][1]>> : g \in ActiveGroups}
  BY <1>1, <1>2 DEF ActiveGroups
<1>4. IsFiniteSet(ActiveGroups) /\ Cardinality(ActiveGroups) \in Nat
  BY GroupsFinite, FS_Subset, FS_CardinalityType DEF ActiveGroups
<1>5. \A x \in Running : x[1] \in ActiveGroups /\ x = <<x[1], runs[x[1]][1]>>
  BY <1>3
<1>6. Cardinality(Running) <= Cardinality(ActiveGroups)
  <2> DEFINE f == [g \in ActiveGroups |-> <<g, runs[g][1]>>]
  <2>1. f \in Surjection(ActiveGroups, Running)
    BY <1>3 DEF Surjection
  <2>2. Cardinality(Running) <= Cardinality(ActiveGroups)
    BY <1>4, <2>1, FS_Surjection
  <2> QED
    BY <2>2
<1>7. Cardinality(ActiveGroups) <= MaxConcurrent
  BY DEF IInv, ConcurrencyLimit
<1>8. Running \subseteq Groups \X Work /\ IsFiniteSet(Running)
  <2> DEFINE f == [g \in ActiveGroups |-> <<g, runs[g][1]>>]
  <2>1. f \in Surjection(ActiveGroups, Running)
    BY <1>3 DEF Surjection
  <2> QED
    BY <1>1, <1>4, <2>1, FS_Surjection, RunningItems, LedgerSets
<1>9. Cardinality(Running) \in Nat
  BY <1>8, FS_CardinalityType
<1> QED
  BY <1>1, <1>4, <1>5, <1>6, <1>7, <1>9, MaxConcurrentPositive DEF RunningSound

LEMMA FitsAfter == IInv' => RunningSound'
  BY RunningFits, PTL

-----------------------------------------------------------------------------
(* The ways a step of the queue moves the ledger.                          *)

\* The ledger counts with the same Cardinality.
LEMMA LedgerCardinality == ASSUME NEW S PROVE Ledger!Cardinality(S) = Cardinality(S)
  BY DEF Ledger!Cardinality, Cardinality

\* Nothing the ledger shows changes.
LEMMA LedgerStutters ==
  ASSUME UNCHANGED <<pending_messages, pending_tasks, runs, shutting_down>>
  PROVE  UNCHANGED Ledger!lvars
  BY LedgerSets DEF Ledger!lvars

\* A message check or a task is accepted.
LEMMA LedgerAccepts ==
  ASSUME NEW x \in Groups \X Work, Owed' = Owed \cup {x},
         ~shutting_down, UNCHANGED <<runs, shutting_down>>
  PROVE  Ledger!LNext
<1>1. Running' = Running
  BY LedgerSets
<1>2. Ledger!Accept(x)
  BY <1>1 DEF Ledger!Accept
<1> QED
  BY <1>2 DEF Ledger!LNext, Ledger!Items

\* The run of g ends, if it has one, and w is begun.
LEMMA LedgerBegins ==
  ASSUME IInv, IInv', NEW g \in Groups, NEW w \in Work, ~shutting_down,
         runs' = [runs EXCEPT ![g] = <<w>>], Owed' = Owed \ {<<g, w>>},
         UNCHANGED shutting_down
  PROVE  Ledger!LNext
<1> DEFINE ended == {x \in Running : x[1] = g}
           begun == {<<g, w>>}
<1>1. /\ runs \in [Groups -> Seq(Work)] /\ runs' \in [Groups -> Seq(Work)]
      /\ \A h \in Groups : Len(runs[h]) \in {0, 1} /\ Len(runs'[h]) \in {0, 1}
  BY RunningFits, FitsAfter DEF RunningSound, IInv, TypeOK
<1>2. /\ \A x : x \in Running <=> \E h \in Groups : Len(runs[h]) = 1 /\ x = <<h, runs[h][1]>>
      /\ \A x : x \in Running' <=> \E h \in Groups : Len(runs'[h]) = 1 /\ x = <<h, runs'[h][1]>>
  BY <1>1, RunningItems, LedgerSets
<1>3. /\ runs'[g] = <<w>> /\ Len(runs'[g]) = 1 /\ runs'[g][1] = w
      /\ \A h \in Groups \ {g} : runs'[h] = runs[h]
  BY <1>1
<1>4. Running' = (Running \ ended) \cup begun
  <2>1. ASSUME NEW x \in Running' PROVE x \in (Running \ ended) \cup begun
    BY <1>2, <1>3
  <2>2. ASSUME NEW x \in (Running \ ended) \cup begun PROVE x \in Running'
    BY <1>2, <1>3
  <2> QED
    BY <2>1, <2>2
<1>5. ended \subseteq Running /\ begun \cap (Running \ ended) = {}
  OBVIOUS
<1>6. Cardinality(begun) <= 1
  <2>1. Cardinality(begun) = 1
    BY FS_Singleton
  <2> QED
    BY <2>1
<1>7. /\ \A x, y \in Running' : x[1] = y[1] => x = y
      /\ Cardinality(Running') <= MaxConcurrent
  BY FitsAfter DEF RunningSound
<1>8. Ledger!EndAndBegin(ended, begun)
  BY <1>4, <1>5, <1>6, <1>7, LedgerCardinality DEF Ledger!EndAndBegin
<1>9. ended \in SUBSET Running /\ begun \in {{}} \cup {{x} : x \in Groups \X Work}
  OBVIOUS
<1> QED
  BY <1>8, <1>9 DEF Ledger!LNext, Ledger!Items

\* The run of g ends and nothing is begun.
LEMMA LedgerEnds ==
  ASSUME IInv, IInv', NEW g \in Groups,
         runs' = [runs EXCEPT ![g] = <<>>], Owed' = Owed, UNCHANGED shutting_down
  PROVE  Ledger!LNext
<1> DEFINE ended == {x \in Running : x[1] = g}
           begun == {}
<1>1. /\ runs \in [Groups -> Seq(Work)] /\ runs' \in [Groups -> Seq(Work)]
      /\ \A h \in Groups : Len(runs[h]) \in {0, 1} /\ Len(runs'[h]) \in {0, 1}
  BY RunningFits, FitsAfter DEF RunningSound, IInv, TypeOK
<1>2. /\ \A x : x \in Running <=> \E h \in Groups : Len(runs[h]) = 1 /\ x = <<h, runs[h][1]>>
      /\ \A x : x \in Running' <=> \E h \in Groups : Len(runs'[h]) = 1 /\ x = <<h, runs'[h][1]>>
  BY <1>1, RunningItems, LedgerSets
<1>3. /\ Len(runs'[g]) = 0
      /\ \A h \in Groups \ {g} : runs'[h] = runs[h]
  BY <1>1
<1>4. Running' = (Running \ ended) \cup begun
  <2>1. ASSUME NEW x \in Running' PROVE x \in Running \ ended
    BY <1>2, <1>3
  <2>2. ASSUME NEW x \in Running \ ended PROVE x \in Running'
    BY <1>2, <1>3
  <2> QED
    BY <2>1, <2>2
<1>5. ended \subseteq Running /\ begun \cap (Running \ ended) = {}
  OBVIOUS
<1>6. Cardinality(begun) <= 1
  BY FS_EmptySet
<1>7. /\ \A x, y \in Running' : x[1] = y[1] => x = y
      /\ Cardinality(Running') <= MaxConcurrent
  BY FitsAfter DEF RunningSound
<1>8. Ledger!EndAndBegin(ended, begun)
  BY <1>4, <1>5, <1>6, <1>7, LedgerCardinality DEF Ledger!EndAndBegin
<1>9. ended \in SUBSET Running /\ begun \in {{}} \cup {{x} : x \in Groups \X Work}
  OBVIOUS
<1> QED
  BY <1>8, <1>9 DEF Ledger!LNext, Ledger!Items

-----------------------------------------------------------------------------
(* Every action of the queue is a step of the ledger, or changes nothing there. *)

\* A message check may defer the check, start it, or find the queue closed.
LEMMA MessageCheckLedger ==
  ASSUME IInv, IInv', NEW g \in Groups, MessageCheck(g), UNCHANGED shutting_down
  PROVE  Ledger!LNext \/ UNCHANGED Ledger!lvars
<1> USE DEF MessageCheck
<1>0. /\ pending_messages \in [Groups -> BOOLEAN]
      /\ pending_tasks \in [Groups -> Seq(Tasks)]
      /\ pending_tasks' = pending_tasks
      /\ runs \in [Groups -> Seq(Work)]
  BY DEF IInv, TypeOK
<1>1. CASE shutting_down
  BY <1>1, LedgerStutters
<1>2. CASE /\ ~shutting_down /\ UNCHANGED runs
           /\ pending_messages' = [pending_messages EXCEPT ![g] = TRUE]
  <2>1. Owed' = Owed \cup {<<g, Messages>>}
    <3>1. /\ \A h \in Groups : pending_messages'[h] <=> (pending_messages[h] \/ h = g)
          /\ Owed \cup {<<g, Messages>>} \subseteq Groups \X Work
      BY <1>0, <1>2, OwedItems, LedgerSets, WorkItems
    <3>2. \A h \in Groups : <<h, Messages>> \in Owed' <=> <<h, Messages>> \in Owed \cup {<<g, Messages>>}
      BY <1>0, <3>1, OwedItems, LedgerSets
    <3>3. \A h \in Groups, t \in Tasks :
            <<h, TaskRun(t)>> \in Owed' <=> <<h, TaskRun(t)>> \in Owed \cup {<<g, Messages>>}
      BY <1>0, OwedItems, LedgerSets, WorkItems
    <3>4. Owed' \subseteq Groups \X Work
      BY <1>0, OwedItems, LedgerSets
    <3> DEFINE before == Owed \cup {<<g, Messages>>}
               after == Owed'
    <3>5. /\ before \subseteq Groups \X Work
          /\ after \subseteq Groups \X Work
          /\ \A h \in Groups : <<h, Messages>> \in after <=> <<h, Messages>> \in before
          /\ \A h \in Groups, t \in Tasks : <<h, TaskRun(t)>> \in after <=> <<h, TaskRun(t)>> \in before
      BY <3>1, <3>2, <3>3, <3>4
    <3>6. after = before
      <4> HIDE DEF before, after
      <4> QED
        BY <3>5, SameItems
    <3> QED
      BY <3>6
  <2>2. <<g, Messages>> \in Groups \X Work
    BY WorkItems
  <2> QED
    BY <1>2, <2>1, <2>2, LedgerAccepts
<1>3. CASE /\ ~shutting_down /\ ~active[g]
           /\ pending_messages' = [pending_messages EXCEPT ![g] = FALSE]
           /\ runs' = [runs EXCEPT ![g] = Append(@, Messages)]
  <2>1. Len(runs[g]) = 0
    BY <1>3 DEF IInv, OneRunPerGroup
  <2>2. runs' = [runs EXCEPT ![g] = <<Messages>>]
    BY <1>0, <1>3, <2>1, FirstRun, WorkItems
  <2>3. Owed' = Owed \ {<<g, Messages>>}
    BY <1>0, <1>3, MessagesTaken
  <2> QED
    BY <1>3, <2>2, <2>3, WorkItems, LedgerBegins
<1> QED
  BY <1>1, <1>2, <1>3

\* A task joins the queue of its group, or starts at once.
LEMMA EnqueueTaskLedger ==
  ASSUME IInv, IInv', NEW g \in Groups, NEW t \in Tasks, EnqueueTask(g, t)
  PROVE  Ledger!LNext
<1>0. /\ pending_tasks \in [Groups -> Seq(Tasks)]
      /\ pending_tasks' \in [Groups -> Seq(Tasks)]
      /\ runs \in [Groups -> Seq(Work)]
      /\ pending_messages' = pending_messages
      /\ ~shutting_down /\ shutting_down' = shutting_down
      /\ ~Queued(pending_tasks[g], t)
      /\ TaskRun(t) \in Work
  BY WorkItems DEF IInv, TypeOK, EnqueueTask
<1>1. CASE pending_tasks' = [pending_tasks EXCEPT ![g] = Append(@, t)] /\ UNCHANGED runs
  <2> DEFINE before == Owed \cup {<<g, TaskRun(t)>>}
             after == Owed'
  <2>1. \A h \in Groups, u \in Tasks :
          Queued(pending_tasks'[h], u) <=> (Queued(pending_tasks[h], u) \/ (h = g /\ u = t))
    BY <1>0, <1>1, AppendQueued
  <2>2. before \subseteq Groups \X Work /\ after \subseteq Groups \X Work
    <3>1. Owed \subseteq Groups \X Work /\ Owed' \subseteq Groups \X Work
      BY <1>0, OwedItems, LedgerSets
    <3> QED
      BY <1>0, <3>1
  <2>3. \A h \in Groups : <<h, Messages>> \in after <=> <<h, Messages>> \in before
    <3>1. \A h \in Groups : <<h, Messages>> \in Owed' <=> <<h, Messages>> \in Owed
      BY <1>0, OwedItems, LedgerSets
    <3>2. Messages # TaskRun(t)
      BY WorkItems
    <3> QED
      BY <3>1, <3>2
  <2>4. \A h \in Groups, u \in Tasks :
          <<h, TaskRun(u)>> \in after <=> (Queued(pending_tasks[h], u) \/ (h = g /\ u = t))
    BY <1>0, <2>1, OwedItems, LedgerSets
  <2>5. \A h \in Groups, u \in Tasks :
          <<h, TaskRun(u)>> \in before <=> (Queued(pending_tasks[h], u) \/ (h = g /\ u = t))
    BY <1>0, OwedItems, LedgerSets, TaskRunIsInjective
  <2>6. after = before
    <3>1. \A h \in Groups, u \in Tasks : <<h, TaskRun(u)>> \in after <=> <<h, TaskRun(u)>> \in before
      BY <2>4, <2>5
    <3> HIDE DEF before, after
    <3> QED
      BY <2>2, <2>3, <3>1, SameItems
  <2>7. <<g, TaskRun(t)>> \in Groups \X Work
    BY <1>0
  <2> QED
    BY <1>0, <1>1, <2>6, <2>7, LedgerAccepts
<1>2. CASE /\ ~active[g] /\ runs' = [runs EXCEPT ![g] = Append(@, TaskRun(t))]
           /\ UNCHANGED pending_tasks
  <2>1. Len(runs[g]) = 0
    BY <1>2 DEF IInv, OneRunPerGroup
  <2>2. runs' = [runs EXCEPT ![g] = <<TaskRun(t)>>]
    BY <1>0, <1>2, <2>1, FirstRun
  <2>3. <<g, TaskRun(t)>> \notin Owed
    BY <1>0, OwedItems, LedgerSets
  <2>4. Owed' = Owed \ {<<g, TaskRun(t)>>}
    BY <1>0, <1>2, <2>3, SameOwed
  <2> QED
    BY <1>0, <2>2, <2>4, LedgerBegins
<1> QED
  BY <1>1, <1>2 DEF EnqueueTask

\* The next item of a group without a run is begun.
LEMMA StartNextPendingLedger ==
  ASSUME IInv, IInv', TasksQueuedOnce, NEW g \in Groups, NEW n,
         StartNextPending(g, <<>>, n), ~shutting_down, UNCHANGED shutting_down
  PROVE  Ledger!LNext
<1>0. /\ pending_messages \in [Groups -> BOOLEAN]
      /\ pending_tasks \in [Groups -> Seq(Tasks)]
  BY DEF IInv, TypeOK
<1>1. CASE MessagesNext(g)
  <2>1. /\ pending_messages' = [pending_messages EXCEPT ![g] = FALSE]
        /\ runs' = [runs EXCEPT ![g] = Append(<<>>, Messages)]
        /\ UNCHANGED pending_tasks
    BY <1>1 DEF StartNextPending
  <2>2. Owed' = Owed \ {<<g, Messages>>}
    BY <1>0, <2>1, MessagesTaken
  <2>3. Append(<<>>, Messages) = <<Messages>>
    OBVIOUS
  <2> QED
    BY <2>1, <2>2, <2>3, WorkItems, LedgerBegins
<1>2. CASE ~MessagesNext(g)
  <2> DEFINE t == Head(pending_tasks[g])
  <2>1. /\ pending_tasks[g] # <<>>
        /\ pending_tasks' = [pending_tasks EXCEPT ![g] = Tail(@)]
        /\ runs' = [runs EXCEPT ![g] = Append(<<>>, TaskRun(t))]
        /\ UNCHANGED pending_messages
    BY <1>2 DEF StartNextPending
  <2>2. Owed' = Owed \ {<<g, TaskRun(t)>>}
    BY <1>0, <2>1, TaskTaken DEF TasksQueuedOnce
  <2>3. TaskRun(t) \in Work
    BY <1>0, <2>1, WorkItems, HeadQueued
  <2>4. Append(<<>>, TaskRun(t)) = <<TaskRun(t)>>
    OBVIOUS
  <2> QED
    BY <2>1, <2>2, <2>3, <2>4, LedgerBegins
<1> QED
  BY <1>1, <1>2

\* A run ends; the slot may go to the group's own next item.
LEMMA ReleaseLedger ==
  ASSUME IInv, IInv', TasksQueuedOnce, NEW g \in Groups, NEW i \in 1..Len(runs[g]),
         ReleaseAndDrain(g, i), UNCHANGED shutting_down
  PROVE  Ledger!LNext
<1>1. Len(runs[g]) = 1 /\ runs[g] \in Seq(Work)
  BY DEF IInv, TypeOK, OneRunPerGroup
<1>2. WithoutRun(runs[g], i) = <<>>
  BY <1>1, WithoutOnlyRun
<1>3. CASE MayDrain /\ StartNextPending(g, <<>>, active_count - 1)
  BY <1>3, StartNextPendingLedger DEF MayDrain
<1>4. CASE runs' = [runs EXCEPT ![g] = <<>>] /\ UNCHANGED <<pending_messages, pending_tasks>>
  BY <1>4, SameOwed, LedgerEnds
<1> QED
  BY <1>2, <1>3, <1>4 DEF ReleaseAndDrain

\* An iteration of the drain loop begins the item of the waiting group, or skips it.
LEMMA DrainWaitingLedger ==
  ASSUME IInv, IInv', TasksQueuedOnce, DrainWaiting
  PROVE  Ledger!LNext \/ UNCHANGED Ledger!lvars
<1> DEFINE h == Head(waiting_groups)
<1>1. /\ waiting_groups \in Seq(Groups) /\ waiting_groups # <<>> /\ ~shutting_down
      /\ \A k \in Groups : Queued(waiting_groups, k) => ~active[k]
      /\ shutting_down' = shutting_down
  BY DEF DrainWaiting, IInv, TypeOK, DrainLoopEntered, WaitingIsIdle
<1>2. h \in Groups /\ ~active[h]
  BY <1>1, HeadQueued
<1>3. runs[h] = <<>>
  BY <1>2 DEF IInv, TypeOK, OneRunPerGroup
<1>4. CASE StartNextPending(h, runs[h], active_count)
  BY <1>1, <1>2, <1>3, <1>4, StartNextPendingLedger
<1>5. CASE UNCHANGED <<pending_messages, pending_tasks, runs>>
  BY <1>1, <1>5, LedgerStutters
<1> QED
  BY <1>4, <1>5 DEF DrainWaiting

\* clear_pending_tasks drops the tasks of one group and nothing else.
LEMMA ClearLedger ==
  ASSUME IInv, NEW g \in Groups, ClearPendingTasks(g)
  PROVE  Ledger!LNext
<1>0. /\ pending_tasks \in [Groups -> Seq(Tasks)]
      /\ pending_tasks' = [pending_tasks EXCEPT ![g] = <<>>]
      /\ UNCHANGED <<pending_messages, runs, shutting_down>>
  BY DEF IInv, TypeOK, ClearPendingTasks
<1>1. /\ pending_tasks' \in [Groups -> Seq(Tasks)]
      /\ pending_tasks'[g] = <<>>
      /\ \A h \in Groups \ {g} : pending_tasks'[h] = pending_tasks[h]
  BY <1>0
<1> DEFINE before == {x \in Owed : x[1] # g \/ x[2] \notin {TaskRun(t) : t \in Tasks}}
           after == Owed'
<1>2. before \subseteq Groups \X Work /\ after \subseteq Groups \X Work
  BY <1>0, <1>1, OwedItems, LedgerSets
<1>3. \A h \in Groups : <<h, Messages>> \in after <=> <<h, Messages>> \in before
  <2>1. \A h \in Groups : <<h, Messages>> \in after <=> <<h, Messages>> \in Owed
    BY <1>0, <1>1, OwedItems, LedgerSets
  <2>2. Messages \notin {TaskRun(t) : t \in Tasks}
    BY WorkItems
  <2> QED
    BY <2>1, <2>2
<1>4. \A h \in Groups, t \in Tasks : <<h, TaskRun(t)>> \in after <=> (h # g /\ Queued(pending_tasks[h], t))
  <2>1. \A t : ~Queued(<<>>, t)
    BY DEF Queued
  <2> QED
    BY <1>0, <1>1, <2>1, OwedItems, LedgerSets
<1>5. \A h \in Groups, t \in Tasks : <<h, TaskRun(t)>> \in before <=> (h # g /\ Queued(pending_tasks[h], t))
  BY <1>0, OwedItems, LedgerSets
<1>6. after = before
  <2>1. \A h \in Groups, t \in Tasks : <<h, TaskRun(t)>> \in after <=> <<h, TaskRun(t)>> \in before
    BY <1>4, <1>5
  <2> HIDE DEF before, after
  <2> QED
    BY <1>2, <1>3, <2>1, SameItems
<1>7. Running' = Running
  BY <1>0, LedgerSets
<1>8. Ledger!Drop(g)
  BY <1>0, <1>6, <1>7 DEF Ledger!Drop
<1> QED
  BY <1>8 DEF Ledger!LNext

\* Every step of the queue is a step of the ledger, or changes nothing there.
LEMMA LedgerStep ==
  ASSUME IInv, IInv', TasksQueuedOnce, [Next]_vars
  PROVE  Ledger!LNext \/ UNCHANGED Ledger!lvars
<1>1. ASSUME NEW g \in Groups, EnqueueMessageCheck(g) \/ RetryFires(g)
      PROVE  Ledger!LNext \/ UNCHANGED Ledger!lvars
  BY <1>1, MessageCheckLedger DEF EnqueueMessageCheck, RetryFires
<1>2. ASSUME NEW g \in Groups, NEW i \in 1..Len(runs[g]),
             FinishTask(g, i) \/ \E outcome \in Outcome : FinishMessages(g, i, outcome)
      PROVE  Ledger!LNext
  BY <1>2, ReleaseLedger DEF FinishTask, FinishMessages
<1>3. ASSUME NEW g \in Groups, RegisterProcess(g) \/ SendMessage(g) \/ ContainerReadsInput(g)
      PROVE  UNCHANGED Ledger!lvars
  BY <1>3, LedgerStutters DEF RegisterProcess, SendMessage, ContainerReadsInput, stateVars
<1>4. ASSUME Shutdown PROVE Ledger!LNext
  <2>1. UNCHANGED <<pending_messages, pending_tasks, runs>> /\ shutting_down' = TRUE
    BY <1>4 DEF Shutdown, stateVars
  <2>2. Ledger!Close
    BY <2>1, LedgerSets DEF Ledger!Close
  <2> QED
    BY <2>2 DEF Ledger!LNext
<1>5. ASSUME UNCHANGED vars PROVE UNCHANGED Ledger!lvars
  BY <1>5, LedgerStutters DEF vars
<1> QED
  BY <1>1, <1>2, <1>3, <1>4, <1>5, EnqueueTaskLedger, DrainWaitingLedger, ClearLedger DEF Next

\* A task is queued only when it is not yet, and leaves from the head.
LEMMA TasksStayQueuedOnce ==
  ASSUME IInv, TasksQueuedOnce, [Next]_vars
  PROVE  TasksQueuedOnce'
<1>0. pending_tasks \in [Groups -> Seq(Tasks)]
  BY DEF IInv, TypeOK
<1>1. ASSUME NEW g \in Groups, NEW t \in Tasks, ~Queued(pending_tasks[g], t),
             pending_tasks' = [pending_tasks EXCEPT ![g] = Append(@, t)]
      PROVE  TasksQueuedOnce'
  BY <1>0, <1>1, AppendUnique DEF TasksQueuedOnce
<1>2. ASSUME NEW g \in Groups, pending_tasks[g] # <<>>,
             pending_tasks' = [pending_tasks EXCEPT ![g] = Tail(@)]
      PROVE  TasksQueuedOnce'
  BY <1>0, <1>2, TailUnique DEF TasksQueuedOnce
<1>3. ASSUME NEW g \in Groups, pending_tasks' = [pending_tasks EXCEPT ![g] = <<>>]
      PROVE  TasksQueuedOnce'
  BY <1>0, <1>3 DEF TasksQueuedOnce, Unique
<1>4. ASSUME UNCHANGED pending_tasks PROVE TasksQueuedOnce'
  BY <1>4 DEF TasksQueuedOnce
<1>5. ASSUME NEW g \in Groups, NEW rs, NEW n, StartNextPending(g, rs, n) PROVE TasksQueuedOnce'
  BY <1>2, <1>4, <1>5 DEF StartNextPending
<1>6. ASSUME NEW g \in Groups, NEW i, ReleaseAndDrain(g, i) PROVE TasksQueuedOnce'
  BY <1>4, <1>5, <1>6 DEF ReleaseAndDrain
<1>7. ASSUME NEW g \in Groups, NEW i \in 1..Len(runs[g]),
             FinishTask(g, i) \/ \E outcome \in Outcome : FinishMessages(g, i, outcome)
      PROVE  TasksQueuedOnce'
  BY <1>6, <1>7 DEF FinishTask, FinishMessages
<1>8. ASSUME DrainWaiting PROVE TasksQueuedOnce'
  <2>1. Head(waiting_groups) \in Groups
    BY <1>8, HeadQueued DEF DrainWaiting, IInv, TypeOK, DrainLoopEntered
  <2> QED
    BY <1>4, <1>5, <1>8, <2>1 DEF DrainWaiting
<1>9. ASSUME NEW g \in Groups, NEW t \in Tasks, EnqueueTask(g, t) PROVE TasksQueuedOnce'
  BY <1>1, <1>4, <1>9 DEF EnqueueTask
<1>10. ASSUME NEW g \in Groups, \/ EnqueueMessageCheck(g) \/ RetryFires(g) \/ RegisterProcess(g)
                                \/ SendMessage(g) \/ ContainerReadsInput(g)
       PROVE  TasksQueuedOnce'
  BY <1>4, <1>10 DEF EnqueueMessageCheck, RetryFires, MessageCheck, RegisterProcess, SendMessage,
                     ContainerReadsInput, stateVars
<1>11. ASSUME NEW g \in Groups, ClearPendingTasks(g) PROVE TasksQueuedOnce'
  BY <1>3, <1>11 DEF ClearPendingTasks
<1>12. ASSUME Shutdown \/ UNCHANGED vars PROVE TasksQueuedOnce'
  BY <1>4, <1>12 DEF Shutdown, stateVars, vars
<1> QED
  BY <1>7, <1>8, <1>9, <1>10, <1>11, <1>12 DEF Next

LEMMA LedgerInit == Init => Ledger!LInit /\ TasksQueuedOnce
<1> SUFFICES ASSUME Init PROVE Ledger!LInit /\ TasksQueuedOnce
  OBVIOUS
<1>1. Owed = {}
  <2>1. \A x \in Groups \X Work : ~IsOwed(x)
    BY DEF Init, IsOwed
  <2> QED
    BY <2>1 DEF Owed
<1>2. Running = {}
  BY DEF Init, Running
<1> QED
  BY <1>1, <1>2 DEF Init, Ledger!LInit, TasksQueuedOnce, Unique

\* The queue with its flags, counters and waiting list keeps the promise of the ledger: what
\* was accepted stays owed until its own run begins (or, for tasks, is cleared), runs are
\* exclusive and fit the slots, and nothing begins after shutdown().
THEOREM QueueImplementsLedger == Spec => ImplementsLedger
<1>1. IInv /\ IInv' /\ TasksQueuedOnce /\ [Next]_vars => [Ledger!LNext]_(Ledger!lvars)
  BY LedgerStep
<1>2. IInv /\ TasksQueuedOnce /\ [Next]_vars => TasksQueuedOnce'
  BY TasksStayQueuedOnce
<1> QED
  BY <1>1, <1>2, LedgerInit, InductiveInvariant, PTL DEF Spec, ImplementsLedger, Ledger!LSpec

=============================================================================

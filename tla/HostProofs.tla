----------------------------- MODULE HostProofs -----------------------------
(***************************************************************************)
(* Proofs about four components of the host: the scheduler with the        *)
(* reconciliation of its rows, the deployments, the git synchronisation    *)
(* and the LLM gateway; and, at the end, about the run that has them side  *)
(* by side.                                                                *)
(***************************************************************************)
EXTENDS MCHost, Recursion

-----------------------------------------------------------------------------
\* TaskScheduler

\* Reconciliation: what one folder's turn does to the rows.

Rows == [Ids -> Row]
ConfigSpace == [Folders -> Schedules \cup {"none", "absent"}]

\* A row before and after the turns of some folders.
Adopted(a, b) ==
  \/ b = a
  \/ a.status = "unused" /\ b.status = "active" /\ b.kind = "repeat" /\ b.next = clock + 1
  \/ a.status = "active" /\ b.status = "active" /\ b.kind = a.kind /\ b.next = clock + 1

\* The folder has a task, and the first has the schedule of config.toml.
SettledIn(rs, cfg, f) == ActiveOf(rs, f) # {} /\ rs[ActiveTaskFor(rs, f)].sched = cfg[f]

NeededIn(rs, cfg) == {f \in Folders : Periodic(cfg, f) /\ ActiveOf(rs, f) = {}}

LEMMA FirstOf ==
  ASSUME NEW S, S \subseteq Ids, S # {}
  PROVE  (CHOOSE i \in S : \A j \in S : i <= j) \in S
<1>1. S \subseteq Nat
  BY IdsAssumption
<1>2. \E i \in S : \A j \in S : i <= j
  BY <1>1, LeastOf
<1> QED
  BY <1>2

LEMMA FirstTask ==
  ASSUME NEW rs, NEW f
  PROVE  /\ ActiveOf(rs, f) \subseteq Ids /\ FreshIds(rs) \subseteq Ids
         /\ ActiveOf(rs, f) # {} => ActiveTaskFor(rs, f) \in ActiveOf(rs, f)
         /\ FreshIds(rs) # {} => FreshId(rs) \in FreshIds(rs)
<1>1. ActiveOf(rs, f) \subseteq Ids /\ FreshIds(rs) \subseteq Ids
  BY DEF ActiveOf, FreshIds
<1> QED
  BY <1>1, FirstOf DEF ActiveTaskFor, FreshId

LEMMA NewRowTyped ==
  ASSUME clock \in 0..MaxClock, NEW cfg \in ConfigSpace, NEW f \in Folders, Periodic(cfg, f)
  PROVE  /\ NewRow(f, "repeat", cfg[f], ComputeNextRun("repeat")) \in Row
         /\ cfg[f] \in Schedules /\ ComputeNextRun("repeat") = clock + 1 /\ clock + 1 \in 0..Never
         /\ clock + 1 # Never
<1>1. MaxClock \in Nat
  BY SchedulerBounds
<1>2. cfg[f] \in Schedules
  BY DEF ConfigSpace, Periodic
<1>3. ComputeNextRun("repeat") = clock + 1 /\ clock + 1 \in 0..Never /\ clock + 1 # Never
  BY <1>1 DEF ComputeNextRun, Never
<1> QED
  BY <1>2, <1>3 DEF NewRow, Row, Kinds

\* The turn of a folder f, in its three outcomes.
LEMMA FolderTurns ==
  ASSUME clock \in 0..MaxClock, NEW rs \in Rows, NEW cfg \in ConfigSpace, NEW f \in Folders
  PROVE  \/ /\ ReconcileFolder(rs, cfg, f) = rs
            /\ Periodic(cfg, f) => SettledIn(rs, cfg, f) \/ (ActiveOf(rs, f) = {} /\ FreshIds(rs) = {})
         \/ /\ Periodic(cfg, f) /\ ActiveOf(rs, f) = {}
            /\ \E i \in FreshIds(rs), row \in Row :
                 /\ ReconcileFolder(rs, cfg, f) = [rs EXCEPT ![i] = row]
                 /\ row.folder = f /\ row.kind = "repeat" /\ row.status = "active" /\ row.sched = cfg[f]
                 /\ row.next = clock + 1
         \/ /\ Periodic(cfg, f) /\ ActiveOf(rs, f) # {}
            /\ \E row \in Row :
                 /\ ReconcileFolder(rs, cfg, f) = [rs EXCEPT ![ActiveTaskFor(rs, f)] = row]
                 /\ row.folder = f /\ row.kind = rs[ActiveTaskFor(rs, f)].kind /\ row.status = "active"
                 /\ row.sched = cfg[f] /\ row.next = clock + 1
<1>1. CASE ~Periodic(cfg, f)
  BY <1>1 DEF ReconcileFolder
<1>2. CASE Periodic(cfg, f) /\ ActiveOf(rs, f) = {} /\ FreshIds(rs) = {}
  BY <1>2 DEF ReconcileFolder
<1>3. CASE Periodic(cfg, f) /\ ActiveOf(rs, f) = {} /\ FreshIds(rs) # {}
  <2> DEFINE row == NewRow(f, "repeat", cfg[f], ComputeNextRun("repeat"))
  <2>1. ReconcileFolder(rs, cfg, f) = [rs EXCEPT ![FreshId(rs)] = row]
    BY <1>3 DEF ReconcileFolder
  <2>2. /\ row \in Row /\ row.folder = f /\ row.kind = "repeat" /\ row.status = "active" /\ row.sched = cfg[f]
        /\ row.next = clock + 1
    BY <1>3, NewRowTyped DEF NewRow
  <2> HIDE DEF row
  <2> QED
    BY <1>3, <2>1, <2>2, FirstTask
<1>4. CASE Periodic(cfg, f) /\ ActiveOf(rs, f) # {} /\ rs[ActiveTaskFor(rs, f)].sched = cfg[f]
  BY <1>4 DEF ReconcileFolder, SettledIn
<1>5. CASE Periodic(cfg, f) /\ ActiveOf(rs, f) # {} /\ rs[ActiveTaskFor(rs, f)].sched # cfg[f]
  <2> DEFINE i == ActiveTaskFor(rs, f)
             row == [rs[i] EXCEPT !.sched = cfg[f], !.next = ComputeNextRun("repeat")]
  <2>1. i \in Ids /\ rs[i] \in Row /\ rs[i].folder = f /\ rs[i].status = "active"
    <3>1. i \in ActiveOf(rs, f)
      BY <1>5, FirstTask
    <3> QED
      BY <3>1 DEF ActiveOf, Rows
  <2>2. ReconcileFolder(rs, cfg, f) = [rs EXCEPT ![i] = row]
    BY <1>5 DEF ReconcileFolder
  <2>3. cfg[f] \in Schedules /\ ComputeNextRun("repeat") = clock + 1 /\ clock + 1 \in 0..Never
    BY <1>5, NewRowTyped
  <2>4. /\ row \in Row /\ row.folder = f /\ row.kind = rs[i].kind /\ row.status = "active" /\ row.sched = cfg[f]
        /\ row.next = clock + 1
    <3> HIDE DEF i
    <3> QED
      BY <2>1, <2>3 DEF Row
  <2> HIDE DEF row
  <2> QED
    BY <1>5, <2>2, <2>4
<1> QED
  BY <1>1, <1>2, <1>3, <1>4, <1>5

\* What the rows of any folder look like after the turn of f.
LEMMA FolderTurnKeeps ==
  ASSUME clock \in 0..MaxClock, NEW rs \in Rows, NEW cfg \in ConfigSpace, NEW f \in Folders,
         NEW r, r = ReconcileFolder(rs, cfg, f)
  PROVE  /\ r \in Rows
         /\ \A i \in Ids : Adopted(rs[i], r[i])
         /\ \A g \in Folders \ {f} : /\ ActiveOf(r, g) = ActiveOf(rs, g)
                                     /\ \A i \in ActiveOf(rs, g) : r[i] = rs[i]
         /\ Periodic(cfg, f) => SettledIn(r, cfg, f) \/ (ActiveOf(rs, f) = {} /\ FreshIds(rs) = {} /\ r = rs)
         /\ ~Periodic(cfg, f) => r = rs
         /\ \/ FreshIds(r) = FreshIds(rs) /\ ActiveOf(r, f) = ActiveOf(rs, f)
            \/ /\ Periodic(cfg, f) /\ ActiveOf(rs, f) = {} /\ ActiveOf(r, f) # {}
               /\ \E i \in FreshIds(rs) : FreshIds(r) = FreshIds(rs) \ {i}
<1>1. CASE r = rs /\ (Periodic(cfg, f) => SettledIn(rs, cfg, f) \/ (ActiveOf(rs, f) = {} /\ FreshIds(rs) = {}))
  BY <1>1 DEF Adopted
<1>2. ASSUME NEW i \in FreshIds(rs), NEW row \in Row, r = [rs EXCEPT ![i] = row], Periodic(cfg, f),
             ActiveOf(rs, f) = {}, row.folder = f, row.kind = "repeat", row.status = "active", row.sched = cfg[f],
             row.next = clock + 1
      PROVE  /\ r \in Rows
             /\ \A k \in Ids : Adopted(rs[k], r[k])
             /\ \A g \in Folders \ {f} : ActiveOf(r, g) = ActiveOf(rs, g) /\ \A k \in ActiveOf(rs, g) : r[k] = rs[k]
             /\ SettledIn(r, cfg, f) /\ ActiveOf(r, f) # {} /\ FreshIds(r) = FreshIds(rs) \ {i}
  <2>1. i \in Ids /\ rs[i].status = "unused"
    BY DEF FreshIds
  <2>2. r \in Rows /\ r[i] = row /\ \A k \in Ids \ {i} : r[k] = rs[k]
    BY <1>2, <2>1 DEF Rows
  <2>3. \A k \in Ids : Adopted(rs[k], r[k])
    BY <1>2, <2>1, <2>2 DEF Adopted
  <2>4. ActiveOf(r, f) = {i} /\ FreshIds(r) = FreshIds(rs) \ {i}
    BY <1>2, <2>1, <2>2 DEF ActiveOf, FreshIds
  <2>5. ASSUME NEW g \in Folders \ {f}
        PROVE  ActiveOf(r, g) = ActiveOf(rs, g) /\ \A k \in ActiveOf(rs, g) : r[k] = rs[k]
    BY <1>2, <2>1, <2>2 DEF ActiveOf
  <2>6. SettledIn(r, cfg, f)
    <3>1. ActiveTaskFor(r, f) = i
      BY <2>4, FirstTask
    <3> QED
      BY <1>2, <2>2, <2>4, <3>1 DEF SettledIn
  <2> QED
    BY <2>2, <2>3, <2>4, <2>5, <2>6
<1>3. ASSUME NEW row \in Row, r = [rs EXCEPT ![ActiveTaskFor(rs, f)] = row], ActiveOf(rs, f) # {},
             row.folder = f, row.kind = rs[ActiveTaskFor(rs, f)].kind, row.status = "active", row.sched = cfg[f],
             row.next = clock + 1
      PROVE  /\ r \in Rows
             /\ \A k \in Ids : Adopted(rs[k], r[k])
             /\ \A g \in Folders \ {f} : ActiveOf(r, g) = ActiveOf(rs, g) /\ \A k \in ActiveOf(rs, g) : r[k] = rs[k]
             /\ SettledIn(r, cfg, f) /\ FreshIds(r) = FreshIds(rs) /\ ActiveOf(r, f) = ActiveOf(rs, f)
  <2> DEFINE i == ActiveTaskFor(rs, f)
  <2>1. i \in Ids /\ rs[i].status = "active" /\ rs[i].folder = f
    <3>1. i \in ActiveOf(rs, f)
      BY <1>3, FirstTask
    <3> QED
      BY <3>1 DEF ActiveOf
  <2>2. r \in Rows /\ r[i] = row /\ \A k \in Ids \ {i} : r[k] = rs[k]
    BY <1>3, <2>1 DEF Rows
  <2>3. row.kind = rs[i].kind
    BY <1>3
  <2> HIDE DEF i
  <2>4. \A k \in Ids : Adopted(rs[k], r[k])
    BY <1>3, <2>1, <2>2, <2>3 DEF Adopted
  <2>5. FreshIds(r) = FreshIds(rs) /\ ActiveOf(r, f) = ActiveOf(rs, f)
    BY <1>3, <2>1, <2>2 DEF ActiveOf, FreshIds
  <2>6. ASSUME NEW g \in Folders \ {f}
        PROVE  ActiveOf(r, g) = ActiveOf(rs, g) /\ \A k \in ActiveOf(rs, g) : r[k] = rs[k]
    BY <1>3, <2>1, <2>2 DEF ActiveOf
  <2>7. SettledIn(r, cfg, f)
    <3>1. ActiveTaskFor(r, f) = i
      BY <2>5 DEF ActiveTaskFor, i
    <3> QED
      BY <1>3, <2>2, <2>5, <3>1 DEF SettledIn
  <2> QED
    BY <2>2, <2>4, <2>5, <2>6, <2>7
<1> QED
  BY <1>1, <1>2, <1>3, FolderTurns

-----------------------------------------------------------------------------
\* Reconciliation: all the folders.

LEMMA FoldersListed ==
  LET F == SetToSeq(Folders)
  IN  /\ Len(F) \in Nat /\ F \in [1..Len(F) -> Folders] /\ DOMAIN F = 1..Len(F)
      /\ \A f \in Folders : \E n \in 1..Len(F) : F[n] = f
      /\ \A m, n \in 1..Len(F) : F[m] = F[n] => m = n
<1> DEFINE F == SetToSeq(Folders)
           N == Cardinality(Folders)
<1>1. IsFiniteSet(Folders)
  BY FoldersAssumption
<1>2. N \in Nat /\ ExistsBijection(1..N, Folders)
  BY <1>1, FS_CardinalityType
<1>3. \E f \in [1..N -> Folders] : IsInjective(f)
  BY <1>2 DEF ExistsBijection, Bijection, Injection
<1>4. F \in [1..N -> Folders] /\ IsInjective(F)
  BY <1>3 DEF SetToSeq
<1>5. F \in Injection(1..N, Folders)
  BY <1>4 DEF Injection
<1>6. Cardinality(1..N) = N
  BY <1>2, FS_Interval
<1>7. F \in Surjection(1..N, Folders)
  <2> HIDE DEF F, N
  <2> QED
    BY <1>1, <1>5, <1>6, FS_Injection DEF N
<1>8. \A f \in Folders : \E n \in 1..N : F[n] = f
  BY <1>7 DEF Surjection
<1>9. F \in Seq(Folders) /\ Len(F) = N
  <2> HIDE DEF F, N
  <2> QED
    BY <1>2, <1>4
<1> HIDE DEF N
<1> QED
  BY <1>2, <1>4, <1>8, <1>9 DEF IsInjective

\* The rows after the turns of the first n folders.
Turns(rs, cfg, after) ==
  LET F == SetToSeq(Folders)
  IN  /\ after \in [0..Len(F) -> Rows] /\ after[0] = rs
      /\ \A n \in 1..Len(F) : after[n] = ReconcileFolder(after[n - 1], cfg, F[n])
      /\ Reconciled(rs, cfg) = PauseOrphans(after[Len(F)], cfg)

LEMMA TurnsTaken ==
  ASSUME clock \in 0..MaxClock, NEW rs \in Rows, NEW cfg \in ConfigSpace
  PROVE  \E after : Turns(rs, cfg, after)
<1> DEFINE F == SetToSeq(Folders)
           Body(a, n) == IF n = 0 THEN rs ELSE ReconcileFolder(a[n - 1], cfg, F[n])
           after == CHOOSE a : a = [n \in 0..Len(F) |-> Body(a, n)]
           step == [n \in 1..Len(F) |-> [r \in Rows |-> ReconcileFolder(r, cfg, F[n])]]
<1>1. Reconciled(rs, cfg) = PauseOrphans(after[Len(F)], cfg)
  BY DEF Reconciled
<1>2. Len(F) \in Nat /\ F \in [1..Len(F) -> Folders]
  BY FoldersListed
<1>3. step \in [1..Len(F) -> [Rows -> Rows]]
  <2>1. \A n \in 1..Len(F), r \in Rows : ReconcileFolder(r, cfg, F[n]) \in Rows
    BY <1>2, FolderTurnKeeps
  <2> QED
    BY <2>1
<1>4. \E a \in [0..Len(F) -> Rows] : a[0] = rs /\ \A n \in 1..Len(F) : a[n] = ReconcileFolder(a[n - 1], cfg, F[n])
  <2> DEFINE N == Len(F)
             X == Rows
  <2>1. step \in StepFunctions(N, X) /\ N \in Nat /\ rs \in X
    BY <1>2, <1>3 DEF StepFunctions
  <2>2. PICK a : Recurs(a, N, X, rs, step)
    <3> HIDE DEF step, N, X
    <3> QED
      BY <2>1, RecursionTo
  <2>3. a \in [0..Len(F) -> Rows] /\ a[0] = rs /\ \A n \in 1..Len(F) : a[n] = step[n][a[n - 1]]
    BY <2>2 DEF Recurs
  <2>4. \A n \in 1..Len(F) : a[n - 1] \in Rows
    <3> HIDE DEF F
    <3> QED
      BY <1>2, <2>3
  <2> HIDE DEF F
  <2> QED
    BY <2>3, <2>4
<1>5. PICK a \in [0..Len(F) -> Rows] : a[0] = rs /\ \A n \in 1..Len(F) : a[n] = ReconcileFolder(a[n - 1], cfg, F[n])
  BY <1>4
<1>6. a = [n \in 0..Len(F) |-> Body(a, n)]
  <2>1. ASSUME NEW n \in 0..Len(F) PROVE a[n] = Body(a, n)
    <3> HIDE DEF F
    <3>1. CASE n = 0
      BY <1>5, <3>1
    <3>2. CASE n \in 1..Len(F)
      BY <1>2, <1>5, <3>2
    <3> QED
      BY <1>2, <3>1, <3>2
  <2> HIDE DEF F, Body
  <2> QED
    BY <1>5, <2>1
<1>7. after = [n \in 0..Len(F) |-> Body(after, n)]
  <2> HIDE DEF Body
  <2> QED
    BY <1>6
<1> HIDE DEF after
<1>8. ASSUME NEW n \in 0..Len(F) PROVE after[n] = Body(after, n)
  <2> HIDE DEF Body, F
  <2> QED
    BY <1>7
<1>9. after[0] = rs /\ \A n \in 1..Len(F) : after[n] = ReconcileFolder(after[n - 1], cfg, F[n])
  <2>1. 0 \in 0..Len(F) /\ \A n \in 1..Len(F) : n \in 0..Len(F) /\ n # 0
    <3> HIDE DEF F
    <3> QED
      BY <1>2
  <2> HIDE DEF F
  <2> QED
    BY <1>8, <2>1
<1>10. \A n \in 0..Len(F) : after[n] \in Rows
  <2> DEFINE Wrong == {n \in 0..Len(F) : after[n] \notin Rows}
  <2> SUFFICES ASSUME Wrong # {} PROVE FALSE
    OBVIOUS
  <2>1. PICK n \in Wrong : \A m \in Wrong : n <= m
    <3>1. Wrong \subseteq Nat
      <4> HIDE DEF F
      <4> QED
        BY <1>2
    <3> HIDE DEF Wrong
    <3> QED
      BY <3>1, LeastOf
  <2>2. n # 0 /\ n \in 1..Len(F) /\ after[n - 1] \in Rows
    <3> HIDE DEF F
    <3> QED
      BY <1>2, <1>9, <2>1
  <2>3. F[n] \in Folders
    BY <1>2, <2>2
  <2> HIDE DEF F
  <2> QED
    BY <1>9, <2>1, <2>2, <2>3, FolderTurnKeeps
<1>11. after \in [0..Len(F) -> Rows]
  <2>1. after = [n \in 0..Len(F) |-> after[n]]
    <3> HIDE DEF F, Body
    <3> QED
      BY <1>7, <1>8
  <2> HIDE DEF F
  <2> QED
    BY <1>10, <2>1
<1> QED
  BY <1>1, <1>9, <1>11 DEF Turns

\* A row before and after a reconciliation.
Reconciles(a, b) ==
  \/ b = a
  \/ a.status \in {"unused", "active"} /\ b.status \in {"active", "paused"} /\ b.next = clock + 1
     /\ (b.kind = "repeat" \/ (a.status = "active" /\ b.kind = a.kind))
     /\ (a.status = "active" => b.kind = a.kind)
  \/ a.status = "active" /\ b = [a EXCEPT !.status = "paused"]

LEMMA ReconciledRows ==
  ASSUME clock \in 0..MaxClock, NEW rs \in Rows, NEW cfg \in ConfigSpace
  PROVE  Reconciled(rs, cfg) \in Rows /\ \A i \in Ids : Reconciles(rs[i], Reconciled(rs, cfg)[i])
<1> DEFINE F == SetToSeq(Folders)
<1>1. PICK after : Turns(rs, cfg, after)
  BY TurnsTaken
<1>2. /\ after \in [0..Len(F) -> Rows] /\ after[0] = rs
      /\ \A n \in 1..Len(F) : after[n] = ReconcileFolder(after[n - 1], cfg, F[n])
      /\ Reconciled(rs, cfg) = PauseOrphans(after[Len(F)], cfg)
  BY <1>1 DEF Turns
<1>3. Len(F) \in Nat /\ F \in [1..Len(F) -> Folders]
  BY FoldersListed
<1> HIDE DEF F
<1> DEFINE Wrong == {n \in 0..Len(F) : ~\A i \in Ids : Adopted(rs[i], after[n][i])}
<1>4. Wrong = {}
  <2> SUFFICES ASSUME Wrong # {} PROVE FALSE
    OBVIOUS
  <2>1. PICK n \in Wrong : \A m \in Wrong : n <= m
    <3>1. Wrong \subseteq Nat
      BY <1>3
    <3> HIDE DEF Wrong
    <3> QED
      BY <3>1, LeastOf
  <2>2. n # 0
    BY <1>2, <2>1 DEF Adopted
  <2>3. n \in 1..Len(F) /\ n - 1 \in 0..Len(F) /\ F[n] \in Folders /\ after[n - 1] \in Rows
    BY <1>2, <1>3, <2>1, <2>2
  <2>4. \A i \in Ids : Adopted(rs[i], after[n - 1][i])
    BY <2>1, <2>3
  <2>5. \A i \in Ids : Adopted(after[n - 1][i], after[n][i])
    BY <1>2, <2>3, FolderTurnKeeps
  <2>6. \A i \in Ids : Adopted(rs[i], after[n][i])
    BY <2>4, <2>5 DEF Adopted
  <2> QED
    BY <2>1, <2>6
<1> DEFINE r == after[Len(F)]
<1>5. r \in Rows /\ \A i \in Ids : Adopted(rs[i], r[i])
  BY <1>2, <1>3, <1>4
<1> HIDE DEF r
<1>6. Reconciled(rs, cfg) = [i \in Ids |-> IF r[i].status = "active" /\ ~Periodic(cfg, r[i].folder)
                                           THEN [r[i] EXCEPT !.status = "paused"] ELSE r[i]]
  BY <1>2 DEF PauseOrphans, r
<1>7. ASSUME NEW i \in Ids
      PROVE  Reconciled(rs, cfg)[i] \in Row /\ Reconciles(rs[i], Reconciled(rs, cfg)[i])
  <2>1. r[i] \in Row /\ Adopted(rs[i], r[i])
    BY <1>5 DEF Rows
  <2>2. CASE Reconciled(rs, cfg)[i] = r[i]
    BY <2>1, <2>2 DEF Adopted, Reconciles
  <2>3. CASE r[i].status = "active" /\ Reconciled(rs, cfg)[i] = [r[i] EXCEPT !.status = "paused"]
    <3> DEFINE b == [r[i] EXCEPT !.status = "paused"]
    <3>1. b \in Row /\ b.status = "paused" /\ b.next = r[i].next /\ b.kind = r[i].kind
      BY <2>1 DEF Row
    <3>2. r[i] = rs[i] => Reconciles(rs[i], b)
      BY <2>3 DEF Reconciles
    <3> HIDE DEF b
    <3>3. r[i] # rs[i] => Reconciles(rs[i], b)
      BY <2>1, <3>1 DEF Adopted, Reconciles
    <3> QED
      BY <2>3, <3>1, <3>2, <3>3 DEF b
  <2> QED
    BY <1>6, <2>2, <2>3
<1> QED
  BY <1>6, <1>7 DEF Rows

\* A turn leaves as many unused ids as there are folders that still need one.
LEMMA TurnLeavesEnough ==
  ASSUME clock \in 0..MaxClock, NEW rs \in Rows, NEW cfg \in ConfigSpace, NEW f \in Folders,
         NEW r, r = ReconcileFolder(rs, cfg, f),
         Cardinality(NeededIn(rs, cfg)) <= Cardinality(FreshIds(rs))
  PROVE  /\ Cardinality(NeededIn(r, cfg)) <= Cardinality(FreshIds(r))
         /\ Periodic(cfg, f) => SettledIn(r, cfg, f)
         /\ \A g \in Folders \ {f} : SettledIn(rs, cfg, g) => SettledIn(r, cfg, g)
<1> DEFINE need == NeededIn(rs, cfg)
           fresh == FreshIds(rs)
<1>1. IsFiniteSet(need) /\ IsFiniteSet(fresh)
  <2>1. need \subseteq Folders /\ fresh \subseteq Ids
    BY DEF NeededIn, FreshIds
  <2> QED
    BY <2>1, FoldersAssumption, IdsAssumption, FS_Subset
<1>2. Cardinality(need) \in Nat /\ Cardinality(fresh) \in Nat
  BY <1>1, FS_CardinalityType
<1>3. /\ \A g \in Folders \ {f} : ActiveOf(r, g) = ActiveOf(rs, g) /\ \A i \in ActiveOf(rs, g) : r[i] = rs[i]
      /\ Periodic(cfg, f) => SettledIn(r, cfg, f) \/ (ActiveOf(rs, f) = {} /\ FreshIds(rs) = {} /\ r = rs)
      /\ \/ FreshIds(r) = FreshIds(rs) /\ ActiveOf(r, f) = ActiveOf(rs, f)
         \/ /\ Periodic(cfg, f) /\ ActiveOf(rs, f) = {} /\ ActiveOf(r, f) # {}
            /\ \E i \in FreshIds(rs) : FreshIds(r) = FreshIds(rs) \ {i}
  BY FolderTurnKeeps
<1>4. Cardinality(NeededIn(r, cfg)) <= Cardinality(FreshIds(r))
  <2>1. CASE FreshIds(r) = FreshIds(rs) /\ ActiveOf(r, f) = ActiveOf(rs, f)
    <3>1. NeededIn(r, cfg) = need
      BY <1>3, <2>1 DEF NeededIn
    <3> QED
      BY <2>1, <3>1
  <2>2. CASE /\ Periodic(cfg, f) /\ ActiveOf(rs, f) = {} /\ ActiveOf(r, f) # {}
             /\ \E i \in FreshIds(rs) : FreshIds(r) = FreshIds(rs) \ {i}
    <3>1. NeededIn(r, cfg) = need \ {f} /\ f \in need
      BY <1>3, <2>2 DEF NeededIn
    <3>2. PICK i \in fresh : FreshIds(r) = fresh \ {i}
      BY <2>2
    <3> HIDE DEF need, fresh
    <3>3. Cardinality(need \ {f}) = Cardinality(need) - 1 /\ Cardinality(fresh \ {i}) = Cardinality(fresh) - 1
      BY <1>1, <3>1, <3>2, FS_RemoveElement
    <3> QED
      BY <1>2, <3>1, <3>2, <3>3 DEF need, fresh
  <2> QED
    BY <1>3, <2>1, <2>2
<1>5. ASSUME Periodic(cfg, f) PROVE SettledIn(r, cfg, f)
  <2> SUFFICES ASSUME ActiveOf(rs, f) = {}, fresh = {} PROVE FALSE
    BY <1>3, <1>5
  <2>1. f \in need
    BY <1>5 DEF NeededIn
  <2>2. Cardinality(need) # 0 /\ Cardinality(fresh) = 0
    <3> HIDE DEF need, fresh
    <3> QED
      BY <1>1, <2>1, FS_EmptySet
  <2> QED
    BY <1>2, <2>2
<1>6. ASSUME NEW g \in Folders \ {f}, SettledIn(rs, cfg, g) PROVE SettledIn(r, cfg, g)
  <2>1. ActiveOf(r, g) = ActiveOf(rs, g) /\ \A i \in ActiveOf(rs, g) : r[i] = rs[i]
    BY <1>3
  <2>2. ActiveTaskFor(r, g) = ActiveTaskFor(rs, g) /\ ActiveTaskFor(rs, g) \in ActiveOf(rs, g)
    BY <1>6, <2>1, FirstTask DEF ActiveTaskFor, SettledIn
  <2> QED
    BY <1>6, <2>1, <2>2 DEF SettledIn
<1> QED
  BY <1>4, <1>5, <1>6

\* Reconciling twice changes nothing more.
LEMMA ReconciledTwice ==
  ASSUME clock \in 0..MaxClock, NEW rs \in Rows, NEW cfg \in ConfigSpace,
         Cardinality(NeededIn(rs, cfg)) <= Cardinality(FreshIds(rs)),
         NEW once, once = Reconciled(rs, cfg)
  PROVE  /\ Reconciled(once, cfg) = once
         /\ \A f \in Folders : ActiveOf(once, f) # {} <=> Periodic(cfg, f)
<1> DEFINE F == SetToSeq(Folders)
           Right(r, n) == /\ Cardinality(NeededIn(r, cfg)) <= Cardinality(FreshIds(r))
                          /\ \A m \in 1..n : Periodic(cfg, F[m]) => SettledIn(r, cfg, F[m])
<1>1. PICK after : Turns(rs, cfg, after)
  BY TurnsTaken
<1>2. /\ after \in [0..Len(F) -> Rows] /\ after[0] = rs
      /\ \A n \in 1..Len(F) : after[n] = ReconcileFolder(after[n - 1], cfg, F[n])
      /\ once = PauseOrphans(after[Len(F)], cfg)
  BY <1>1 DEF Turns
<1>3. /\ Len(F) \in Nat /\ F \in [1..Len(F) -> Folders]
      /\ \A f \in Folders : \E n \in 1..Len(F) : F[n] = f
      /\ \A m, n \in 1..Len(F) : F[m] = F[n] => m = n
  BY FoldersListed
<1> HIDE DEF F
<1> DEFINE Wrong == {n \in 0..Len(F) : ~Right(after[n], n)}
<1>4. Wrong = {}
  <2> SUFFICES ASSUME Wrong # {} PROVE FALSE
    OBVIOUS
  <2>1. PICK n \in Wrong : \A m \in Wrong : n <= m
    <3>1. Wrong \subseteq Nat
      BY <1>3
    <3> HIDE DEF Wrong
    <3> QED
      BY <3>1, LeastOf
  <2>2. n # 0
    BY <1>2, <2>1
  <2>3. n \in 1..Len(F) /\ n - 1 \in 0..Len(F) /\ F[n] \in Folders /\ after[n - 1] \in Rows
    BY <1>2, <1>3, <2>1, <2>2
  <2>4. Right(after[n - 1], n - 1) /\ after[n] = ReconcileFolder(after[n - 1], cfg, F[n])
    BY <1>2, <2>1, <2>3
  <2>5. /\ Cardinality(NeededIn(after[n], cfg)) <= Cardinality(FreshIds(after[n]))
        /\ Periodic(cfg, F[n]) => SettledIn(after[n], cfg, F[n])
        /\ \A g \in Folders \ {F[n]} : SettledIn(after[n - 1], cfg, g) => SettledIn(after[n], cfg, g)
    BY <2>3, <2>4, TurnLeavesEnough
  <2>6. ASSUME NEW m \in 1..n, Periodic(cfg, F[m]) PROVE SettledIn(after[n], cfg, F[m])
    <3>1. CASE m = n
      BY <2>5, <2>6, <3>1
    <3>2. CASE m # n
      <4>1. m \in 1..(n - 1) /\ m \in 1..Len(F) /\ F[m] \in Folders \ {F[n]}
        BY <1>3, <2>3, <3>2
      <4> QED
        BY <2>4, <2>5, <2>6, <4>1
    <3> QED
      BY <3>1, <3>2
  <2>7. Right(after[n], n)
    BY <2>5, <2>6
  <2> QED
    BY <2>1, <2>7
<1> DEFINE r == after[Len(F)]
<1>5. r \in Rows /\ \A f \in Folders : Periodic(cfg, f) => SettledIn(r, cfg, f)
  BY <1>2, <1>3, <1>4
<1> HIDE DEF r
<1>6. once = [i \in Ids |-> IF r[i].status = "active" /\ ~Periodic(cfg, r[i].folder)
                            THEN [r[i] EXCEPT !.status = "paused"] ELSE r[i]]
  BY <1>2 DEF PauseOrphans, r
<1>7. once \in Rows
  BY ReconciledRows
<1>8. \A i \in Ids : r[i] \in Row /\ once[i] \in Row
  BY <1>5, <1>7 DEF Rows
<1>9. \A i \in Ids : /\ once[i].status = "active" => once[i] = r[i] /\ Periodic(cfg, r[i].folder)
                     /\ r[i].status = "active" /\ Periodic(cfg, r[i].folder) => once[i] = r[i]
  BY <1>6, <1>8 DEF Row
<1>10. ASSUME NEW f \in Folders, Periodic(cfg, f) PROVE SettledIn(once, cfg, f)
  <2>1. ActiveOf(once, f) = ActiveOf(r, f) /\ \A i \in ActiveOf(r, f) : once[i] = r[i]
    BY <1>9, <1>10 DEF ActiveOf
  <2>2. ActiveTaskFor(once, f) = ActiveTaskFor(r, f) /\ ActiveTaskFor(r, f) \in ActiveOf(r, f)
    BY <1>5, <1>10, <2>1, FirstTask DEF ActiveTaskFor, SettledIn
  <2> QED
    BY <1>5, <1>10, <2>1, <2>2 DEF SettledIn
<1>11. ASSUME NEW f \in Folders, ~Periodic(cfg, f) PROVE ActiveOf(once, f) = {}
  BY <1>9, <1>11 DEF ActiveOf
<1>12. Reconciled(once, cfg) = once
  <2>1. PICK again : Turns(once, cfg, again)
    BY <1>7, TurnsTaken
  <2>2. /\ again \in [0..Len(F) -> Rows] /\ again[0] = once
        /\ \A n \in 1..Len(F) : again[n] = ReconcileFolder(again[n - 1], cfg, F[n])
        /\ Reconciled(once, cfg) = PauseOrphans(again[Len(F)], cfg)
    BY <2>1 DEF Turns, F
  <2>3. \A f \in Folders : ReconcileFolder(once, cfg, f) = once
    BY <1>10 DEF ReconcileFolder, SettledIn
  <2> DEFINE MovedOn == {n \in 0..Len(F) : again[n] # once}
  <2>4. MovedOn = {}
    <3> SUFFICES ASSUME MovedOn # {} PROVE FALSE
      OBVIOUS
    <3>1. PICK n \in MovedOn : \A m \in MovedOn : n <= m
      <4>1. MovedOn \subseteq Nat
        BY <1>3
      <4> HIDE DEF MovedOn
      <4> QED
        BY <4>1, LeastOf
    <3>2. n \in 1..Len(F) /\ n - 1 \in 0..Len(F) /\ F[n] \in Folders /\ again[n - 1] = once
      BY <1>3, <2>2, <3>1
    <3> QED
      BY <2>2, <2>3, <3>1, <3>2
  <2>5. Reconciled(once, cfg) = PauseOrphans(once, cfg)
    BY <1>3, <2>2, <2>4
  <2>6. \A i \in Ids : ~(once[i].status = "active" /\ ~Periodic(cfg, once[i].folder))
    BY <1>9
  <2>7. PauseOrphans(once, cfg) = [i \in Ids |-> once[i]]
    BY <2>6 DEF PauseOrphans
  <2> QED
    BY <1>7, <2>5, <2>7 DEF Rows
<1> QED
  BY <1>10, <1>11, <1>12 DEF SettledIn

-----------------------------------------------------------------------------
\* The rows in every state.

QueueEntry == [id : Ids, kind : Kinds]
RunOf == [id : Ids \cup {0}, kind : Kinds, pc : {"idle", "start", "agent"}]

\* What waits or runs is a row that was stored, and is run as what it is.
KindsAgree ==
  /\ \A i \in Ids : Stored(rows[i]) /\ rows[i].kind = "repeat" => rows[i].next # Never
  /\ \A f \in Folders : \A n \in DOMAIN waiting[f] :
       rows[waiting[f][n].id].status # "unused" /\ waiting[f][n].kind = rows[waiting[f][n].id].kind
  /\ \A f \in Folders : running[f].pc # "idle" =>
       rows[running[f].id].status # "unused" /\ running[f].kind = rows[running[f].id].kind

SInv == SchedulerTypeOK /\ KindsAgree /\ NoSilentStall

\* How a step may change rows and keep what was said about those that wait or run.
RowsKept ==
  /\ rows' \in Rows
  /\ \A i \in Ids :
       /\ rows[i].status # "unused" => rows'[i].status # "unused" /\ rows'[i].kind = rows[i].kind
       /\ Stored(rows'[i]) /\ rows'[i].kind = "repeat" => rows'[i].next # Never
       /\ rows[i].status = "paused" => rows'[i].status # "active"
       /\ rows[i].status = "gone" => rows'[i].status = "gone"

\* PauseHolds of one step.
PauseKept ==
  \A i \in Ids :
    /\ rows[i].status = "paused" /\ rows'[i].status = "active" => \E s \in Folders : HandleResumeTask(s, i)
    /\ rows[i].status = "gone" => rows'[i].status = "gone"
    /\ hostjob.status = "paused" /\ hostjob'.status = "active" => HostJobAction(Admin, "active")
    /\ hostjob.status = "gone" => hostjob'.status = "gone"

LEMMA SchedulerTypes ==
  ASSUME SInv
  PROVE  /\ clock \in 0..MaxClock /\ config \in ConfigSpace /\ rows \in Rows /\ hostjob \in Row
         /\ waiting \in [Folders -> Seq(QueueEntry)] /\ running \in [Folders -> RunOf]
         /\ MaxClock \in Nat /\ MaxDisturbed \in Nat
BY SchedulerBounds, ConfigsAssumption
   DEF SInv, SchedulerTypeOK, ConfigSpace, Rows, QueueEntry, RunOf

LEMMA NextRunTyped ==
  ASSUME SInv, NEW kind \in Kinds
  PROVE  /\ ComputeNextRun(kind) \in 0..Never /\ (ComputeNextRun(kind) = Never <=> kind = "once")
         /\ clock \in 0..Never /\ clock # Never /\ Never \in Nat
BY SchedulerTypes DEF ComputeNextRun, Never, Kinds

LEMMA AfterRunTyped ==
  ASSUME NEW row \in Row, NEW next \in 0..Never
  PROVE  /\ AfterRun(row, next) \in Row
         /\ AfterRun(row, next).kind = row.kind
         /\ ~Stored(row) => AfterRun(row, next) = row
         /\ Stored(row) => /\ AfterRun(row, next).next = next
                           /\ AfterRun(row, next).status = IF next = Never THEN "completed" ELSE row.status
BY DEF AfterRun, Updated, Stored, Row

LEMMA DisturbsTyped ==
  ASSUME SInv, Disturbs
  PROVE  disturbed' \in 0..MaxDisturbed
<1>1. disturbed \in 0..MaxDisturbed
  BY DEF SInv, SchedulerTypeOK
<1> QED
  BY <1>1, SchedulerBounds DEF Disturbs

LEMMA EntriesTyped ==
  ASSUME SInv, NEW f \in Folders, NEW n \in DOMAIN waiting[f]
  PROVE  waiting[f][n] \in QueueEntry /\ waiting[f][n].id \in Ids
<1>1. waiting[f] \in Seq(QueueEntry)
  BY SchedulerTypes
<1>2. waiting[f][n] \in QueueEntry
  BY <1>1
<1> QED
  BY <1>2 DEF QueueEntry

\* A step that leaves the rows, the queue and the history alone.
LEMMA RowsAlone ==
  ASSUME SInv, UNCHANGED <<rows, waiting, running, lost>>
  PROVE  KindsAgree' /\ NoSilentStall'
BY DEF SInv, KindsAgree, NoSilentStall, Stored

\* A step that writes one row.
LEMMA RowWritten ==
  ASSUME SInv, NEW k \in Ids, NEW new \in Row, rows' = [rows EXCEPT ![k] = new],
         rows[k].status # "unused" => new.status # "unused" /\ new.kind = rows[k].kind,
         Stored(new) /\ new.kind = "repeat" => new.next # Never
  PROVE  /\ rows' \in Rows /\ rows'[k] = new /\ \A i \in Ids \ {k} : rows'[i] = rows[i]
         /\ \A i \in Ids : /\ Stored(rows'[i]) /\ rows'[i].kind = "repeat" => rows'[i].next # Never
                           /\ rows[i].status # "unused" => rows'[i].status # "unused" /\ rows'[i].kind = rows[i].kind
<1>1. rows \in Rows
  BY SchedulerTypes
<1>2. rows' \in Rows /\ rows'[k] = new /\ \A i \in Ids \ {k} : rows'[i] = rows[i]
  BY <1>1 DEF Rows
<1>3. \A i \in Ids : Stored(rows[i]) /\ rows[i].kind = "repeat" => rows[i].next # Never
  BY DEF SInv, KindsAgree
<1>4. ASSUME NEW i \in Ids
      PROVE  /\ Stored(rows'[i]) /\ rows'[i].kind = "repeat" => rows'[i].next # Never
             /\ rows[i].status # "unused" => rows'[i].status # "unused" /\ rows'[i].kind = rows[i].kind
  <2>1. CASE i = k
    BY <1>2, <2>1
  <2>2. CASE i # k
    BY <1>2, <1>3, <2>2
  <2> QED
    BY <2>1, <2>2
<1> QED
  BY <1>2, <1>4

\* Rows that stay used, and of their kind, keep KindsAgree for the queue as it was.
LEMMA RowsKeepKinds ==
  ASSUME SInv, UNCHANGED <<waiting, running>>,
         \A i \in Ids : /\ Stored(rows'[i]) /\ rows'[i].kind = "repeat" => rows'[i].next # Never
                        /\ rows[i].status # "unused" => rows'[i].status # "unused" /\ rows'[i].kind = rows[i].kind
  PROVE  KindsAgree'
<1>1. \A f \in Folders : \A n \in DOMAIN waiting[f] : waiting[f][n].id \in Ids
  BY EntriesTyped
<1>2. \A f \in Folders : running[f].pc # "idle" => running[f].id \in Ids
  BY SchedulerTypes DEF SInv, SchedulerTypeOK, RunOf
<1> QED
  BY <1>1, <1>2 DEF SInv, KindsAgree

-----------------------------------------------------------------------------
\* The steps.

LEMMA ClockAndPollerSInv ==
  ASSUME SInv, Tick \/ PollDatabaseHostJobs \/ HostJobEnds \/ GetDueTasks \/ PollFails
  PROVE  SInv' /\ PauseKept
<1>1. UNCHANGED <<rows, waiting, running, lost, config>>
  BY DEF Tick, PollDatabaseHostJobs, HostJobEnds, GetDueTasks, PollFails, memory
<1>2. clock' \in 0..MaxClock /\ disturbed' \in 0..MaxDisturbed
  <2>1. disturbed \in 0..MaxDisturbed /\ clock \in 0..MaxClock /\ MaxClock \in Nat
    BY SchedulerTypes DEF SInv, SchedulerTypeOK
  <2>2. clock' \in 0..MaxClock
    BY <2>1 DEF Tick, PollDatabaseHostJobs, HostJobEnds, GetDueTasks, PollFails
  <2>3. disturbed' \in 0..MaxDisturbed
    BY <2>1, DisturbsTyped DEF Tick, PollDatabaseHostJobs, HostJobEnds, GetDueTasks, PollFails
  <2> QED
    BY <2>2, <2>3
<1>3. hostjob' \in Row /\ (hostjob'.status = "active" => hostjob.status = "active")
      /\ (hostjob.status = "gone" => hostjob'.status = "gone")
  <2>1. CASE HostJobEnds
    <3> DEFINE next == ComputeNextRun(hostjob.kind)
    <3>1. next \in 0..Never /\ hostjob' = AfterRun(hostjob, next) /\ hostjob \in Row
      BY <2>1, SchedulerTypes, NextRunTyped DEF HostJobEnds, Row
    <3> HIDE DEF next
    <3> QED
      BY <3>1, AfterRunTyped DEF Stored
  <2>2. CASE hostjob' = hostjob
    BY <2>2, SchedulerTypes
  <2> QED
    BY <2>1, <2>2 DEF Tick, PollDatabaseHostJobs, GetDueTasks, PollFails
<1>4. poller' \in [pc : {"sleep", "job_run", "tasks", "recheck"}, due : Seq(Ids)]
  <2>1. poller \in [pc : {"sleep", "job_run", "tasks", "recheck"}, due : Seq(Ids)]
    BY DEF SInv, SchedulerTypeOK
  <2>2. CASE Tick
    BY <2>1, <2>2 DEF Tick, memory
  <2>3. CASE PollDatabaseHostJobs \/ HostJobEnds
    BY <2>1, <2>3 DEF PollDatabaseHostJobs, HostJobEnds, Goes
  <2>4. CASE PollFails
    BY <2>4 DEF PollFails, AtRest
  <2>5. CASE GetDueTasks
    <3> DEFINE N == Cardinality(DueTasks)
    <3>1. PICK due \in [1..N -> DueTasks] : poller' = [pc |-> "recheck", due |-> due]
      BY <2>5 DEF GetDueTasks
    <3>2. DueTasks \subseteq Ids
      BY DEF DueTasks
    <3>3. N \in Nat
      <4>1. IsFiniteSet(DueTasks)
        BY <3>2, IdsAssumption, FS_Subset
      <4> QED
        BY <4>1, FS_CardinalityType
    <3> HIDE DEF N
    <3>4. due \in Seq(Ids)
      BY <3>2, <3>3
    <3> QED
      BY <3>1, <3>4
  <2> QED
    BY <2>2, <2>3, <2>4, <2>5
<1>5. SchedulerTypeOK'
  BY <1>1, <1>2, <1>3, <1>4 DEF SInv, SchedulerTypeOK
<1>6. PauseKept
  BY <1>1, <1>3 DEF PauseKept
<1> QED
  BY <1>1, <1>5, <1>6, RowsAlone DEF SInv

LEMMA HostJobActionSInv ==
  ASSUME SInv, NEW s \in Folders, NEW st \in {"active", "paused", "gone"}, HostJobAction(s, st)
  PROVE  SInv' /\ PauseKept
<1>1. UNCHANGED <<clock, config, rows, poller, waiting, running, lost>> /\ s = Admin /\ hostjob.status # "gone"
  BY DEF HostJobAction, memory, Stored
<1>2. hostjob' \in Row /\ hostjob'.status = st
  BY SchedulerTypes DEF HostJobAction, Row
<1>3. SchedulerTypeOK'
  BY <1>1, <1>2, DisturbsTyped DEF SInv, SchedulerTypeOK, HostJobAction
<1>4. PauseKept
  BY <1>1, <1>2 DEF PauseKept
<1> QED
  BY <1>1, <1>3, <1>4, RowsAlone DEF SInv

LEMMA RecheckSInv ==
  ASSUME SInv, Recheck
  PROVE  SInv' /\ PauseKept
<1>1. UNCHANGED <<clock, config, rows, hostjob, running, lost, disturbed>>
  BY DEF Recheck
<1>2. poller \in [pc : {"sleep", "job_run", "tasks", "recheck"}, due : Seq(Ids)]
  BY DEF SInv, SchedulerTypeOK
<1>3. CASE Goes("sleep") /\ UNCHANGED waiting
  <2>1. SchedulerTypeOK'
    BY <1>1, <1>2, <1>3 DEF SInv, SchedulerTypeOK, Goes
  <2> QED
    BY <1>1, <1>3, <2>1, RowsAlone DEF SInv, PauseKept
<1>4. CASE poller.due # <<>>
  <2> DEFINE i == Head(poller.due)
  <2>1. poller.due \in Seq(Ids) /\ i \in Ids /\ Tail(poller.due) \in Seq(Ids)
    BY <1>2, <1>4
  <2>2. poller' = [poller EXCEPT !.due = Tail(@)]
        /\ IF rows[i].status = "active" THEN EnqueueTask(rows[i].folder, i) ELSE UNCHANGED waiting
    BY <1>4 DEF Recheck
  <2> HIDE DEF i
  <2>3. poller' \in [pc : {"sleep", "job_run", "tasks", "recheck"}, due : Seq(Ids)]
    BY <1>2, <2>1, <2>2
  <2>4. CASE UNCHANGED waiting
    <3>1. SchedulerTypeOK'
      BY <1>1, <2>3, <2>4 DEF SInv, SchedulerTypeOK
    <3> QED
      BY <1>1, <2>4, <3>1, RowsAlone DEF SInv, PauseKept
  <2>5. CASE rows[i].status = "active" /\ EnqueueTask(rows[i].folder, i) /\ waiting' # waiting
    <3> DEFINE g == rows[i].folder
               e == [id |-> i, kind |-> rows[i].kind]
               q == Append(waiting[g], e)
    <3>1. g \in Folders /\ e \in QueueEntry /\ e.id = i /\ e.kind = rows[i].kind
      BY <2>1, SchedulerTypes DEF Rows, Row, QueueEntry
    <3>2. waiting' = [waiting EXCEPT ![g] = q]
      BY <2>5 DEF EnqueueTask
    <3>3. waiting[g] \in Seq(QueueEntry)
      BY <3>1, SchedulerTypes
    <3> HIDE DEF g, e
    <3>4. /\ q \in Seq(QueueEntry) /\ DOMAIN q = DOMAIN waiting[g] \cup {Len(waiting[g]) + 1}
          /\ \A n \in DOMAIN waiting[g] : q[n] = waiting[g][n]
          /\ q[Len(waiting[g]) + 1] = e
      BY <3>1, <3>3
    <3> HIDE DEF q
    <3>5. waiting' \in [Folders -> Seq(QueueEntry)] /\ waiting'[g] = q /\ \A f \in Folders \ {g} : waiting'[f] = waiting[f]
      BY <3>1, <3>2, <3>4, SchedulerTypes
    <3>6. SchedulerTypeOK'
      BY <1>1, <2>3, <3>5 DEF SInv, SchedulerTypeOK, QueueEntry
    <3>7. KindsAgree'
      <4>1. ASSUME NEW f \in Folders, NEW n \in DOMAIN waiting'[f]
            PROVE  rows[waiting'[f][n].id].status # "unused" /\ waiting'[f][n].kind = rows[waiting'[f][n].id].kind
        <5>1. CASE f # g
          BY <3>5, <5>1 DEF SInv, KindsAgree
        <5>2. CASE f = g /\ n \in DOMAIN waiting[g]
          BY <3>4, <3>5, <5>2 DEF SInv, KindsAgree
        <5>3. CASE f = g /\ n = Len(waiting[g]) + 1
          BY <2>5, <3>1, <3>4, <3>5, <5>3
        <5> QED
          BY <3>4, <3>5, <5>1, <5>2, <5>3
      <4> QED
        BY <1>1, <4>1 DEF SInv, KindsAgree, Stored
    <3>8. NoSilentStall' /\ PauseKept
      BY <1>1 DEF SInv, NoSilentStall, PauseKept
    <3> QED
      BY <3>6, <3>7, <3>8 DEF SInv
  <2> QED
    BY <2>2, <2>4, <2>5
<1> QED
  BY <1>3, <1>4 DEF Recheck

LEMMA TaskTakenSInv ==
  ASSUME SInv, NEW f \in Folders, TaskTaken(f)
  PROVE  SInv' /\ PauseKept
<1> DEFINE q == waiting[f]
           e == Head(q)
           r == [id |-> e.id, kind |-> e.kind, pc |-> "start"]
<1>1. UNCHANGED <<clock, config, rows, hostjob, poller, lost, disturbed>> /\ running[f].pc = "idle"
  BY DEF TaskTaken
<1>2. /\ q \in Seq(QueueEntry) /\ q # <<>> /\ waiting' = [waiting EXCEPT ![f] = Tail(q)]
      /\ running' = [running EXCEPT ![f] = r]
  BY SchedulerTypes DEF TaskTaken
<1>3. /\ Tail(q) \in Seq(QueueEntry) /\ e = q[1] /\ 1 \in DOMAIN q /\ e \in QueueEntry
      /\ \A n \in DOMAIN Tail(q) : n + 1 \in DOMAIN q /\ Tail(q)[n] = q[n + 1]
  BY <1>2
<1>4. rows[e.id].status # "unused" /\ e.kind = rows[e.id].kind
  BY <1>3 DEF SInv, KindsAgree
<1>5. r \in RunOf /\ r.id = e.id /\ r.kind = e.kind /\ r.pc = "start" /\ r.id # 0
  BY <1>3, IdsAssumption DEF RunOf, QueueEntry
<1>6. \A n \in DOMAIN Tail(q) : rows[Tail(q)[n].id].status # "unused" /\ Tail(q)[n].kind = rows[Tail(q)[n].id].kind
  BY <1>3 DEF SInv, KindsAgree
<1> DEFINE t == Tail(q)
<1>7. t \in Seq(QueueEntry) /\ waiting' = [waiting EXCEPT ![f] = t]
  BY <1>2, <1>3
<1>8. \A n \in DOMAIN t : rows[t[n].id].status # "unused" /\ t[n].kind = rows[t[n].id].kind
  BY <1>6
<1>9. rows[r.id].status # "unused" /\ r.kind = rows[r.id].kind
  BY <1>4, <1>5
<1> HIDE DEF t, r
<1>10. /\ waiting' \in [Folders -> Seq(QueueEntry)] /\ waiting'[f] = t /\ \A g \in Folders \ {f} : waiting'[g] = waiting[g]
       /\ running' \in [Folders -> RunOf] /\ running'[f] = r /\ \A g \in Folders \ {f} : running'[g] = running[g]
  BY <1>2, <1>5, <1>7, SchedulerTypes
<1>11. SchedulerTypeOK'
  <2>1. \A g \in Folders : running'[g].id = 0 <=> running'[g].pc = "idle"
    BY <1>5, <1>10 DEF SInv, SchedulerTypeOK
  <2> QED
    BY <1>1, <1>10, <2>1 DEF SInv, SchedulerTypeOK, QueueEntry, RunOf
<1>12. KindsAgree'
  <2>1. ASSUME NEW g \in Folders, running'[g].pc # "idle"
        PROVE  rows'[running'[g].id].status # "unused" /\ running'[g].kind = rows'[running'[g].id].kind
    BY <1>1, <1>9, <1>10, <2>1 DEF SInv, KindsAgree
  <2>2. ASSUME NEW g \in Folders, NEW n \in DOMAIN waiting'[g]
        PROVE  rows'[waiting'[g][n].id].status # "unused" /\ waiting'[g][n].kind = rows'[waiting'[g][n].id].kind
    BY <1>1, <1>8, <1>10 DEF SInv, KindsAgree
  <2>3. \A i \in Ids : Stored(rows'[i]) /\ rows'[i].kind = "repeat" => rows'[i].next # Never
    BY <1>1 DEF SInv, KindsAgree
  <2> QED
    BY <2>1, <2>2, <2>3 DEF KindsAgree
<1>13. NoSilentStall'
  <2> SUFFICES ASSUME NEW i \in Ids, rows[i].status = "active", rows[i].next = Never, i \notin lost
               PROVE  \E g \in Folders : running'[g].id = i /\ running'[g].pc = "agent"
    BY <1>1 DEF NoSilentStall
  <2>1. PICK g \in Folders : running[g].id = i /\ running[g].pc = "agent"
    BY DEF SInv, NoSilentStall
  <2>2. g # f
    BY <1>1, <2>1
  <2> QED
    BY <1>10, <2>1, <2>2
<1> QED
  BY <1>1, <1>11, <1>12, <1>13 DEF SInv, PauseKept

LEMMA RunningOf ==
  ASSUME SInv, NEW f \in Folders, running[f].pc # "idle"
  PROVE  /\ running[f] \in RunOf /\ running[f].id \in Ids /\ running[f].kind \in Kinds
         /\ rows[running[f].id] \in Row /\ rows[running[f].id].status # "unused"
         /\ running[f].kind = rows[running[f].id].kind
BY SchedulerTypes DEF SInv, SchedulerTypeOK, KindsAgree, RunOf, Rows

LEMMA RunScheduledAgentSInv ==
  ASSUME SInv, NEW f \in Folders, RunScheduledAgent(f)
  PROVE  SInv' /\ PauseKept
<1> DEFINE k == running[f].id
           next == ComputeNextRun(running[f].kind)
           new == Updated(rows[k], [rows[k] EXCEPT !.next = next])
           r == [running[f] EXCEPT !.pc = "agent"]
<1>1. UNCHANGED <<clock, config, hostjob, poller, waiting, lost, disturbed>> /\ running[f].pc = "start"
  BY DEF RunScheduledAgent
<1>2. /\ k \in Ids /\ rows[k] \in Row /\ rows[k].status # "unused" /\ running[f].kind = rows[k].kind
      /\ running[f] \in RunOf /\ running[f].kind \in Kinds
  BY <1>1, RunningOf
<1>3. next \in 0..Never /\ (next = Never <=> running[f].kind = "once")
  BY <1>2, NextRunTyped
<1>4. rows' = [rows EXCEPT ![k] = new] /\ running' = [running EXCEPT ![f] = r]
  BY DEF RunScheduledAgent
<1>5. r \in RunOf /\ r.id = k /\ r.pc = "agent" /\ r.kind = running[f].kind
  BY <1>2 DEF RunOf
<1> HIDE DEF next, r, k
<1>6. /\ new \in Row /\ new.status = rows[k].status /\ new.kind = rows[k].kind
      /\ Stored(rows[k]) => new.next = next
  BY <1>2, <1>3 DEF Updated, Stored, Row
<1> HIDE DEF new
<1>7. Stored(new) /\ new.kind = "repeat" => new.next # Never
  BY <1>2, <1>3, <1>6 DEF Stored
<1>8. /\ rows' \in Rows /\ rows'[k] = new /\ \A i \in Ids \ {k} : rows'[i] = rows[i]
      /\ \A i \in Ids : /\ Stored(rows'[i]) /\ rows'[i].kind = "repeat" => rows'[i].next # Never
                        /\ rows[i].status # "unused" => rows'[i].status # "unused" /\ rows'[i].kind = rows[i].kind
  BY <1>2, <1>4, <1>6, <1>7, RowWritten
<1>9. running' \in [Folders -> RunOf] /\ running'[f] = r /\ \A g \in Folders \ {f} : running'[g] = running[g]
  BY <1>4, <1>5, SchedulerTypes
<1>10. SchedulerTypeOK'
  <2>1. k # 0
    BY <1>2, IdsAssumption
  <2> QED
    BY <1>1, <1>5, <1>8, <1>9, <2>1 DEF SInv, SchedulerTypeOK, RunOf, Rows
<1>11. KindsAgree'
  <2>1. ASSUME NEW g \in Folders, running'[g].pc # "idle"
        PROVE  rows'[running'[g].id].status # "unused" /\ running'[g].kind = rows'[running'[g].id].kind
    <3>1. CASE g = f
      BY <1>2, <1>5, <1>6, <1>8, <1>9, <3>1
    <3>2. CASE g # f
      <4>1. running'[g] = running[g]
        BY <1>9, <3>2
      <4>2. running[g].id \in Ids /\ rows[running[g].id].status # "unused" /\ running[g].kind = rows[running[g].id].kind
        BY <2>1, <4>1, RunningOf
      <4> QED
        BY <1>8, <4>1, <4>2
    <3> QED
      BY <3>1, <3>2
  <2>2. ASSUME NEW g \in Folders, NEW n \in DOMAIN waiting[g]
        PROVE  rows'[waiting[g][n].id].status # "unused" /\ waiting[g][n].kind = rows'[waiting[g][n].id].kind
    <3>1. waiting[g][n].id \in Ids
      BY EntriesTyped
    <3> QED
      BY <1>8, <3>1 DEF SInv, KindsAgree
  <2> QED
    BY <1>1, <1>8, <2>1, <2>2 DEF KindsAgree
<1>12. NoSilentStall'
  <2> SUFFICES ASSUME NEW i \in Ids, rows'[i].status = "active", rows'[i].next = Never, i \notin lost
               PROVE  \E g \in Folders : running'[g].id = i /\ running'[g].pc = "agent"
    BY <1>1 DEF NoSilentStall
  <2>1. CASE i = k
    BY <1>5, <1>9, <2>1
  <2>2. CASE i # k
    <3>1. rows[i].status = "active" /\ rows[i].next = Never
      BY <1>8, <2>2
    <3>2. PICK g \in Folders : running[g].id = i /\ running[g].pc = "agent"
      BY <3>1 DEF SInv, NoSilentStall
    <3>3. g # f
      BY <1>1, <3>2
    <3> QED
      BY <1>9, <3>2, <3>3
  <2> QED
    BY <2>1, <2>2
<1>13. PauseKept
  <2>1. \A i \in Ids : rows'[i].status = rows[i].status
    BY <1>6, <1>8
  <2> QED
    BY <1>1, <2>1 DEF PauseKept
<1> QED
  BY <1>10, <1>11, <1>12, <1>13 DEF SInv

LEMMA GroupMissingSInv ==
  ASSUME SInv, NEW f \in Folders, GroupMissing(f)
  PROVE  SInv' /\ PauseKept
<1>1. UNCHANGED <<clock, config, rows, hostjob, poller, waiting, disturbed>> /\ running[f].pc = "agent"
  BY DEF GroupMissing
<1>2. running[f].id \in Ids /\ running[f].kind \in Kinds /\ running[f].kind = rows[running[f].id].kind
  BY <1>1, RunningOf
<1>3. Idle \in RunOf /\ Idle.id = 0 /\ Idle.pc = "idle"
  BY DEF Idle, RunOf, Kinds
<1>4. /\ running' \in [Folders -> RunOf] /\ running'[f] = Idle
      /\ \A g \in Folders \ {f} : running'[g] = running[g]
  BY <1>3, SchedulerTypes DEF GroupMissing
<1>5. lost' \subseteq Ids /\ lost \subseteq lost' /\ (running[f].kind = "once" => running[f].id \in lost')
  BY <1>2 DEF GroupMissing, SInv, SchedulerTypeOK
<1>6. SchedulerTypeOK'
  BY <1>1, <1>3, <1>4, <1>5 DEF SInv, SchedulerTypeOK, RunOf
<1>7. KindsAgree'
  <2>1. \A g \in Folders : running'[g].pc # "idle" => g # f /\ running'[g] = running[g]
    BY <1>3, <1>4
  <2>2. rows' = rows /\ waiting' = waiting
    BY <1>1
  <2> QED
    BY <2>1, <2>2 DEF SInv, KindsAgree, Stored
<1>8. NoSilentStall'
  <2> SUFFICES ASSUME NEW i \in Ids, rows[i].status = "active", rows[i].next = Never, i \notin lost'
               PROVE  \E g \in Folders : running'[g].id = i /\ running'[g].pc = "agent"
    BY <1>1 DEF NoSilentStall
  <2>1. PICK g \in Folders : running[g].id = i /\ running[g].pc = "agent"
    BY <1>5 DEF SInv, NoSilentStall
  <2>2. rows[i].kind = "repeat" => rows[i].next # Never
    BY DEF SInv, KindsAgree, Stored
  <2>3. g # f
    BY <1>2, <1>5, <2>1, <2>2 DEF Kinds
  <2> QED
    BY <1>4, <2>1, <2>3
<1> QED
  BY <1>1, <1>6, <1>7, <1>8 DEF SInv, PauseKept

LEMMA TaskRunEndsSInv ==
  ASSUME SInv, NEW f \in Folders, TaskRunEnds(f)
  PROVE  SInv' /\ PauseKept
<1> DEFINE k == running[f].id
           next == ComputeNextRun(running[f].kind)
           new == AfterRun(rows[k], next)
<1>1. UNCHANGED <<clock, config, hostjob, poller, waiting, lost, disturbed>> /\ running[f].pc = "agent"
  BY DEF TaskRunEnds
<1>2. /\ k \in Ids /\ rows[k] \in Row /\ rows[k].status # "unused" /\ running[f].kind = rows[k].kind
      /\ running[f].kind \in Kinds
  BY <1>1, RunningOf
<1>3. next \in 0..Never /\ (next = Never <=> running[f].kind = "once")
  BY <1>2, NextRunTyped
<1>4. rows' = [rows EXCEPT ![k] = new] /\ running' = [running EXCEPT ![f] = Idle]
  BY DEF TaskRunEnds
<1>5. Idle \in RunOf /\ Idle.id = 0 /\ Idle.pc = "idle"
  BY DEF Idle, RunOf, Kinds
<1> HIDE DEF next
<1>6. /\ new \in Row /\ new.kind = rows[k].kind /\ (~Stored(rows[k]) => new = rows[k])
      /\ Stored(rows[k]) => /\ new.next = next
                            /\ new.status = IF next = Never THEN "completed" ELSE rows[k].status
  BY <1>2, <1>3, AfterRunTyped
<1> HIDE DEF k, new
<1>7. /\ Stored(new) /\ new.kind = "repeat" => new.next # Never
      /\ rows[k].status # "unused" => new.status # "unused" /\ new.kind = rows[k].kind
      /\ new.status = "active" => rows[k].status = "active" /\ new.next # Never
      /\ rows[k].status = "gone" => new.status = "gone"
  BY <1>2, <1>3, <1>6 DEF Stored
<1>8. /\ rows' \in Rows /\ rows'[k] = new /\ \A i \in Ids \ {k} : rows'[i] = rows[i]
      /\ \A i \in Ids : /\ Stored(rows'[i]) /\ rows'[i].kind = "repeat" => rows'[i].next # Never
                        /\ rows[i].status # "unused" => rows'[i].status # "unused" /\ rows'[i].kind = rows[i].kind
  BY <1>2, <1>4, <1>6, <1>7, RowWritten
<1>9. /\ running' \in [Folders -> RunOf] /\ running'[f] = Idle
      /\ \A g \in Folders \ {f} : running'[g] = running[g]
  BY <1>4, <1>5, SchedulerTypes
<1>10. SchedulerTypeOK'
  BY <1>1, <1>5, <1>8, <1>9 DEF SInv, SchedulerTypeOK, RunOf, Rows
<1>11. KindsAgree'
  <2>1. ASSUME NEW g \in Folders, running'[g].pc # "idle"
        PROVE  rows'[running'[g].id].status # "unused" /\ running'[g].kind = rows'[running'[g].id].kind
    <3>1. g # f /\ running'[g] = running[g]
      BY <1>5, <1>9, <2>1
    <3>2. running[g].id \in Ids /\ rows[running[g].id].status # "unused" /\ running[g].kind = rows[running[g].id].kind
      BY <2>1, <3>1, RunningOf
    <3> QED
      BY <1>8, <3>1, <3>2
  <2>2. ASSUME NEW g \in Folders, NEW n \in DOMAIN waiting[g]
        PROVE  rows'[waiting[g][n].id].status # "unused" /\ waiting[g][n].kind = rows'[waiting[g][n].id].kind
    <3>1. waiting[g][n].id \in Ids
      BY EntriesTyped
    <3> QED
      BY <1>8, <3>1 DEF SInv, KindsAgree
  <2> QED
    BY <1>1, <1>8, <2>1, <2>2 DEF KindsAgree
<1>12. NoSilentStall'
  <2> SUFFICES ASSUME NEW i \in Ids, rows'[i].status = "active", rows'[i].next = Never, i \notin lost
               PROVE  \E g \in Folders : running'[g].id = i /\ running'[g].pc = "agent"
    BY <1>1 DEF NoSilentStall
  <2>1. i # k
    BY <1>7, <1>8
  <2>2. rows[i].status = "active" /\ rows[i].next = Never
    BY <1>8, <2>1
  <2>3. PICK g \in Folders : running[g].id = i /\ running[g].pc = "agent"
    BY <2>2 DEF SInv, NoSilentStall
  <2>4. g # f
    BY <2>1, <2>3 DEF k
  <2> QED
    BY <1>9, <2>3, <2>4
<1>13. PauseKept
  <2>1. \A i \in Ids : /\ rows'[i].status = "active" => rows[i].status = "active"
                       /\ rows[i].status = "gone" => rows'[i].status = "gone"
    BY <1>7, <1>8
  <2> QED
    BY <1>1, <2>1 DEF PauseKept
<1> QED
  BY <1>10, <1>11, <1>12, <1>13 DEF SInv

\* A request writes one row and disturbs nothing else.
LEMMA RequestWrites ==
  ASSUME SInv, NEW k \in Ids, NEW new \in Row, rows' = [rows EXCEPT ![k] = new],
         rows[k].status # "unused" => new.status # "unused" /\ new.kind = rows[k].kind,
         Stored(new) /\ new.kind = "repeat" => new.next # Never,
         new.status = "active" /\ new.next = Never => k \in lost',
         lost' \subseteq Ids, lost \subseteq lost', Disturbs, UNCHANGED <<clock, config, hostjob, memory>>
  PROVE  SInv'
<1>1. /\ rows' \in Rows /\ rows'[k] = new /\ \A i \in Ids \ {k} : rows'[i] = rows[i]
      /\ \A i \in Ids : /\ Stored(rows'[i]) /\ rows'[i].kind = "repeat" => rows'[i].next # Never
                        /\ rows[i].status # "unused" => rows'[i].status # "unused" /\ rows'[i].kind = rows[i].kind
  BY RowWritten
<1>2. UNCHANGED <<poller, waiting, running>>
  BY DEF memory
<1>3. KindsAgree'
  BY <1>1, <1>2, RowsKeepKinds
<1>4. NoSilentStall'
  BY <1>1, <1>2 DEF SInv, NoSilentStall
<1>5. SchedulerTypeOK'
  BY <1>1, <1>2, DisturbsTyped DEF SInv, SchedulerTypeOK, Rows
<1> QED
  BY <1>3, <1>4, <1>5 DEF SInv

LEMMA HandleScheduleTaskSInv ==
  ASSUME SInv, NEW s \in Folders, NEW t \in Folders, NEW kind \in Kinds, HandleScheduleTask(s, t, kind)
  PROVE  SInv' /\ PauseKept
<1> DEFINE k == FreshId(rows)
           next == IF kind = "once" THEN clock ELSE ComputeNextRun(kind)
           new == NewRow(t, kind, "own", next)
<1>1. k \in Ids /\ rows[k].status = "unused"
  <2>1. k \in FreshIds(rows)
    BY FirstTask DEF HandleScheduleTask
  <2> QED
    BY <2>1 DEF FreshIds
<1>2. next \in 0..Never /\ next # Never
  BY NextRunTyped
<1>3. rows' = [rows EXCEPT ![k] = new]
  BY DEF HandleScheduleTask
<1> HIDE DEF next, k
<1>4. new \in Row /\ new.status = "active" /\ new.next = next
  BY <1>2 DEF NewRow, Row
<1> HIDE DEF new
<1>5. lost \subseteq Ids /\ lost' = lost /\ Disturbs /\ UNCHANGED <<clock, config, hostjob, memory>>
  BY DEF HandleScheduleTask, SInv, SchedulerTypeOK
<1>6. SInv'
  BY <1>1, <1>2, <1>3, <1>4, <1>5, RequestWrites
<1>7. PauseKept
  <2>1. rows'[k] = new /\ \A i \in Ids \ {k} : rows'[i] = rows[i]
    BY <1>1, <1>3, SchedulerTypes DEF Rows
  <2> QED
    BY <1>1, <1>5, <2>1 DEF PauseKept
<1> QED
  BY <1>6, <1>7

LEMMA StatusRequestSInv ==
  ASSUME SInv, NEW s \in Folders, NEW k \in Ids,
         HandlePauseTask(s, k) \/ HandleResumeTask(s, k) \/ HandleCancelTask(s, k)
  PROVE  SInv' /\ PauseKept
<1>1. rows[k] \in Row /\ rows \in Rows
  BY SchedulerTypes DEF Rows
<1>2. rows[k].status \notin {"unused", "gone"} /\ Disturbs /\ UNCHANGED <<clock, config, hostjob, memory>>
  BY DEF HandlePauseTask, HandleResumeTask, HandleCancelTask, MayActOn, Stored
<1>3. /\ lost' \subseteq Ids /\ lost \subseteq lost'
      /\ HandleResumeTask(s, k) /\ rows[k].next = Never => k \in lost'
  BY DEF HandlePauseTask, HandleResumeTask, HandleCancelTask, SInv, SchedulerTypeOK
<1>4. PICK st \in {"active", "paused", "gone"} :
        rows' = [rows EXCEPT ![k].status = st] /\ (st = "active" => HandleResumeTask(s, k))
  BY DEF HandlePauseTask, HandleResumeTask, HandleCancelTask
<1> DEFINE new == [rows[k] EXCEPT !.status = st]
<1>5. new \in Row /\ new.status = st /\ new.next = rows[k].next /\ new.kind = rows[k].kind
  BY <1>1 DEF Row
<1>6. rows' = [rows EXCEPT ![k] = new]
  BY <1>4
<1> HIDE DEF new
<1>7. Stored(new) /\ new.kind = "repeat" => new.next # Never
  BY <1>2, <1>5 DEF SInv, KindsAgree, Stored
<1>8. SInv'
  BY <1>2, <1>3, <1>4, <1>5, <1>6, <1>7, RequestWrites
<1>9. PauseKept
  <2>1. rows'[k] = new /\ \A i \in Ids \ {k} : rows'[i] = rows[i]
    BY <1>1, <1>6 DEF Rows
  <2> QED
    BY <1>2, <1>4, <1>5, <2>1 DEF PauseKept
<1> QED
  BY <1>8, <1>9

\* The rows are reconciled with a configuration nobody has seen before.
LEMMA SchedulerCrashSInv ==
  ASSUME SInv, SchedulerCrash
  PROVE  SInv' /\ PauseKept
<1>1. PICK cfg \in Configs : config' = cfg /\ rows' = Reconciled(rows, cfg)
  BY DEF SchedulerCrash
<1>2. cfg \in ConfigSpace
  BY ConfigsAssumption DEF ConfigSpace
<1>3. rows' \in Rows /\ \A i \in Ids : Reconciles(rows[i], rows'[i])
  BY <1>1, <1>2, ReconciledRows, SchedulerTypes
<1>4. UNCHANGED <<clock, hostjob>> /\ Disturbs /\ poller' = AtRest
      /\ waiting' = [f \in Folders |-> <<>>] /\ running' = [f \in Folders |-> Idle]
  BY DEF SchedulerCrash
<1>5. lost' = lost \cup {i \in Ids : \E f \in Folders : running[f].id = i /\ running[f].pc = "agent"
                                       /\ running[f].kind = "once"}
  BY DEF SchedulerCrash
<1>6. Idle \in RunOf /\ Idle.id = 0 /\ Idle.pc = "idle" /\ <<>> \in Seq(QueueEntry) /\ DOMAIN <<>> = {}
  BY DEF Idle, RunOf, Kinds
<1>7. /\ waiting' \in [Folders -> Seq(QueueEntry)] /\ running' \in [Folders -> RunOf]
      /\ \A f \in Folders : running'[f].pc = "idle" /\ running'[f].id = 0 /\ waiting'[f] = <<>>
  BY <1>4, <1>6
<1>8. \A i \in Ids : rows[i] \in Row /\ rows'[i] \in Row
  BY <1>3, SchedulerTypes DEF Rows
<1>9. clock \in 0..MaxClock /\ clock + 1 # Never
  BY SchedulerTypes DEF Never
<1>10. SchedulerTypeOK'
  <2>1. poller' \in [pc : {"sleep", "job_run", "tasks", "recheck"}, due : Seq(Ids)]
    BY <1>4 DEF AtRest
  <2> QED
    BY <1>1, <1>3, <1>4, <1>5, <1>7, <2>1, DisturbsTyped DEF SInv, SchedulerTypeOK, Rows, QueueEntry, RunOf
<1>11. ASSUME NEW i \in Ids
       PROVE  /\ Stored(rows'[i]) /\ rows'[i].kind = "repeat" => rows'[i].next # Never
              /\ rows'[i].status = "active" /\ rows'[i].next = Never => rows[i] = rows'[i]
              /\ rows'[i].status = "active" => rows[i].status # "paused"
              /\ rows[i].status = "gone" => rows'[i].status = "gone"
  <2>1. Stored(rows[i]) /\ rows[i].kind = "repeat" => rows[i].next # Never
    BY DEF SInv, KindsAgree
  <2>2. CASE rows'[i] = rows[i]
    BY <2>1, <2>2
  <2>3. CASE rows[i].status \in {"unused", "active"} /\ rows'[i].next = clock + 1
    BY <1>9, <2>3
  <2>4. CASE rows[i].status = "active" /\ rows'[i] = [rows[i] EXCEPT !.status = "paused"]
    <3>1. rows'[i].status = "paused" /\ rows'[i].next = rows[i].next /\ rows'[i].kind = rows[i].kind
      BY <1>8, <2>4 DEF Row
    <3> QED
      BY <2>1, <2>4, <3>1 DEF Stored
  <2> QED
    BY <1>3, <2>2, <2>3, <2>4 DEF Reconciles
<1>12. KindsAgree'
  BY <1>6, <1>7, <1>11 DEF KindsAgree
<1>13. NoSilentStall'
  <2> SUFFICES ASSUME NEW i \in Ids, rows'[i].status = "active", rows'[i].next = Never
               PROVE  i \in lost'
    BY DEF NoSilentStall
  <2>1. rows[i].status = "active" /\ rows[i].next = Never
    BY <1>11
  <2>2. CASE i \in lost
    BY <1>5, <2>2
  <2>3. CASE i \notin lost
    <3>1. PICK f \in Folders : running[f].id = i /\ running[f].pc = "agent"
      BY <2>1, <2>3 DEF SInv, NoSilentStall
    <3>2. running[f].kind \in Kinds /\ running[f].kind = rows[i].kind
      BY <3>1, RunningOf
    <3>3. running[f].kind = "once"
      BY <2>1, <3>2 DEF SInv, KindsAgree, Stored, Kinds
    <3> QED
      BY <1>5, <3>1, <3>3
  <2> QED
    BY <2>2, <2>3
<1>14. PauseKept
  BY <1>4, <1>11 DEF PauseKept
<1> QED
  BY <1>10, <1>12, <1>13, <1>14 DEF SInv

LEMMA SchedulerSteps ==
  ASSUME SInv, SchedulerNext
  PROVE  SInv' /\ PauseKept
BY ClockAndPollerSInv, HostJobActionSInv, RecheckSInv, TaskTakenSInv, RunScheduledAgentSInv, GroupMissingSInv,
   TaskRunEndsSInv, HandleScheduleTaskSInv, StatusRequestSInv, SchedulerCrashSInv
   DEF SchedulerNext, PollStep, TaskStep, AgentRequest

LEMMA SchedulerStutters ==
  ASSUME SInv, UNCHANGED scheduler_vars
  PROVE  SInv'
<1>1. UNCHANGED <<clock, config, rows, hostjob, poller, waiting, running, lost, disturbed>>
  BY DEF scheduler_vars, memory
<1>2. SchedulerTypeOK'
  BY <1>1 DEF SInv, SchedulerTypeOK
<1> QED
  BY <1>1, <1>2, RowsAlone DEF SInv

LEMMA SchedulerStarts ==
  ASSUME SchedulerInit
  PROVE  SInv
<1> DEFINE blank == [i \in Ids |-> Unused]
           r == Reconciled(blank, config)
<1>1. /\ clock = 0 /\ config \in Configs /\ poller = AtRest /\ lost = {} /\ disturbed = 0
      /\ waiting = [f \in Folders |-> <<>>] /\ running = [f \in Folders |-> Idle]
  BY DEF SchedulerInit
<1>2. /\ clock \in 0..MaxClock /\ MaxClock \in Nat /\ 0 \in 0..Never /\ 0 # Never /\ Never \in Nat /\ 1 # Never
      /\ disturbed \in 0..MaxDisturbed /\ config \in ConfigSpace
  BY <1>1, SchedulerBounds, ConfigsAssumption DEF Never, ConfigSpace
<1>3. Unused \in Row /\ Unused.status = "unused"
  BY <1>2, FoldersAssumption DEF Unused, NoRow, Row, Kinds
<1>4. blank \in Rows
  BY <1>3 DEF Rows
<1>5. r \in Rows /\ \A i \in Ids : Reconciles(Unused, r[i])
  <2>1. \A i \in Ids : blank[i] = Unused
    OBVIOUS
  <2> HIDE DEF blank
  <2> QED
    BY <1>2, <1>4, <2>1, ReconciledRows
<1>6. FreshIds(r) # {} /\ \E k \in Kinds : /\ rows = [r EXCEPT ![FreshId(r)] = NewRow(Admin, k, "own", 0)]
                                           /\ hostjob = NewRow(Admin, k, "own", 0)
  BY DEF SchedulerInit
<1> HIDE DEF r
<1>7. FreshId(r) \in Ids
  BY <1>6, FirstTask
<1>8. PICK row \in Row : row.status = "active" /\ row.next = 0 /\ rows = [r EXCEPT ![FreshId(r)] = row] /\ hostjob = row
  <2>1. \A k \in Kinds : /\ NewRow(Admin, k, "own", 0) \in Row /\ NewRow(Admin, k, "own", 0).status = "active"
                         /\ NewRow(Admin, k, "own", 0).next = 0
    BY <1>2, FoldersAssumption DEF NewRow, Row
  <2> QED
    BY <1>6, <2>1
<1>9. rows \in Rows /\ \A i \in Ids : rows[i] = row \/ rows[i] = r[i]
  BY <1>5, <1>7, <1>8 DEF Rows
<1>10. \A i \in Ids : Stored(rows[i]) => rows[i].next # Never
  <2>1. ASSUME NEW i \in Ids, Stored(r[i]) PROVE r[i].next # Never
    BY <1>1, <1>2, <1>3, <1>5, <2>1 DEF Reconciles, Stored
  <2> QED
    BY <1>2, <1>8, <1>9, <2>1
<1>11. Idle \in RunOf /\ Idle.id = 0 /\ Idle.pc = "idle" /\ <<>> \in Seq(QueueEntry) /\ DOMAIN <<>> = {}
  BY DEF Idle, RunOf, Kinds
<1>12. KindsAgree /\ NoSilentStall
  BY <1>1, <1>10, <1>11 DEF KindsAgree, NoSilentStall, Stored
<1>13. SchedulerTypeOK
  <2>1. poller \in [pc : {"sleep", "job_run", "tasks", "recheck"}, due : Seq(Ids)]
    BY <1>1 DEF AtRest
  <2> QED
    BY <1>1, <1>2, <1>8, <1>9, <1>11, <2>1 DEF SchedulerTypeOK, Rows, QueueEntry, RunOf
<1> QED
  BY <1>12, <1>13 DEF SInv

\* The rows, the loop, what waits and what runs have their types, what waits or
\* runs is of its row's kind, and no active row is without a next run but for the
\* reasons there are (task_scheduler.py, state/tasks.py).
THEOREM SchedulerInvariant == SchedulerSpec => []SInv
<1>1. SInv /\ [SchedulerNext]_scheduler_vars => SInv'
  BY SchedulerSteps, SchedulerStutters
<1> QED
  BY <1>1, SchedulerStarts, PTL DEF SchedulerSpec

LEMMA SchedulerInvSound == SInv => SchedulerSound
<1> SUFFICES ASSUME SInv PROVE SchedulerSound
  OBVIOUS
<1>1. ReconcileIdempotent
  <2> DEFINE once == Reconciled(rows, config)
  <2> SUFFICES ASSUME Cardinality(NeededIn(rows, config)) <= Cardinality(FreshIds(rows))
               PROVE  /\ Reconciled(once, config) = once
                      /\ \A f \in Folders : ActiveOf(once, f) # {} <=> Periodic(config, f)
    BY DEF ReconcileIdempotent, NeededIn
  <2> HIDE DEF once
  <2> QED
    BY SchedulerTypes, ReconciledTwice DEF once
<1> QED
  BY <1>1 DEF SInv, SchedulerSound

\* No task stalls silently, and reconciling with config.toml is idempotent and
\* leaves an active task for exactly the periodic workspaces, for any number of
\* them (task_scheduler.py, workspace_config.reconcile_workspaces).
THEOREM SchedulerStaysSound == SchedulerSpec => []SchedulerSound
BY SchedulerInvSound, SchedulerInvariant, PTL

\* Every variable of the scheduler has its type (task_scheduler.py).
THEOREM SchedulerStaysTyped == SchedulerSpec => []SchedulerTypeOK
<1>1. SInv => SchedulerTypeOK
  BY DEF SInv
<1> QED
  BY <1>1, SchedulerInvariant, PTL

\* A row or a host job that is paused becomes active by a resume only, and one
\* that is cancelled stays away, whatever runs, polls and restarts race with it
\* (state/tasks.py, ipc/handlers_tasks.py).
THEOREM PausesHold == SchedulerSpec => PauseHolds
<1>1. SInv /\ [SchedulerNext]_scheduler_vars => [PauseKept]_scheduler_vars
  BY SchedulerSteps
<1>2. [PauseKept]_scheduler_vars
      => [\A i \in Ids :
            /\ rows[i].status = "paused" /\ rows'[i].status = "active" => \E s \in Folders : HandleResumeTask(s, i)
            /\ rows[i].status = "gone" => rows'[i].status = "gone"
            /\ hostjob.status = "paused" /\ hostjob'.status = "active" => HostJobAction(Admin, "active")
            /\ hostjob.status = "gone" => hostjob'.status = "gone"]_scheduler_vars
  BY DEF PauseKept
<1> QED
  BY <1>1, <1>2, SchedulerInvariant, PTL DEF SchedulerSpec, PauseHolds


-----------------------------------------------------------------------------
\* Deploy

\* The state of Deploy, by type.
Continuation == [previous : 0..newest \cup {NoCommit}, who : SUBSET SessionGroups]
Request == [pc : RequestPcs, previous : 0..newest, who : SUBSET SessionGroups]
Past == [mishaps : 0..MaxDeployMishaps, asked : 0..MaxRequests, written : Nat, rollbacks : Nat]

HistoryTyped == history \in Seq(CommitKinds) /\ newest <= MaxCommits
CodeTyped ==
  /\ head \in 0..newest /\ loaded \in 0..newest /\ baseline \in 0..newest /\ fetched \in 0..newest
  /\ phase \in {"down", "core", "later", "boot", "telling", "up", "stopping"}
FileTyped == cont = <<>> \/ \E c \in Continuation : cont = <<c>>
RequestsAreTyped == req \in [Paths -> Request]

\* Whom a start has still to tell is told in that phase, so that reading the
\* continuation file loses nobody; a rollback is paid for by a commit to go back
\* to, and that is in the file at most once for each time it was written.
ToldByTheStart ==
  /\ sessions \cup telling \cup owed \subseteq SessionGroups
  /\ telling # {} => phase = "telling"
  /\ SessionsCarried
RollbacksPaid ==
  dep_past \in Past /\ dep_past.rollbacks + (IF KnowsPrevious THEN 1 ELSE 0) <= dep_past.written

DInv == HistoryTyped /\ CodeTyped /\ FileTyped /\ RequestsAreTyped /\ ToldByTheStart /\ RollbacksPaid

LEMMA OneRecord ==
  /\ UNION {<<>>[i].who : i \in DOMAIN <<>>} = {}
  /\ \A c : UNION {<<c>>[i].who : i \in DOMAIN <<c>>} = c.who
<1>1. DOMAIN <<>> = {}
  OBVIOUS
<1>2. \A c : DOMAIN <<c>> = {1} /\ <<c>>[1] = c
  OBVIOUS
<1>3. ASSUME NEW c PROVE UNION {<<c>>[i].who : i \in DOMAIN <<c>>} = c.who
  BY <1>2
<1> QED
  BY <1>1, <1>3

LEMMA InitDInv == DeployInit /\ DeployBounds => DInv
<1> SUFFICES ASSUME DeployInit, DeployBounds PROVE DInv
  OBVIOUS
<1>1. newest = 0 /\ history \in Seq(CommitKinds)
  BY DEF DeployInit, newest
<1> QED
  BY <1>1, OneRecord DEF DeployInit, DInv, HistoryTyped, CodeTyped, FileTyped, RequestsAreTyped, ToldByTheStart, RollbacksPaid,
     Past, Request, RequestPcs, NoRequest, DeployBounds, KnowsPrevious, SessionsCarried

\* The history only grows, and with it what may refer to it.
LEMMA HistoryGrows ==
  ASSUME DInv, NEW k \in CommitKinds, newest < MaxCommits, history' = Append(history, k)
  PROVE  /\ newest' = newest + 1 /\ HistoryTyped'
         /\ 0..newest \subseteq 0..newest'
         /\ Continuation \subseteq Continuation' /\ Request \subseteq Request'
<1>1. newest' = newest + 1 /\ HistoryTyped' /\ newest \in Nat
  BY DeployBounds DEF DInv, HistoryTyped, newest
<1>2. 0..newest \subseteq 0..newest'
  BY <1>1
<1> QED
  BY <1>1, <1>2 DEF Continuation, Request, NoCommit

LEMMA HistoryStays ==
  ASSUME HistoryTyped, UNCHANGED history
  PROVE  newest' = newest /\ HistoryTyped' /\ Continuation' = Continuation /\ Request' = Request
BY DEF newest, HistoryTyped, Continuation, Request, NoCommit

LEMMA OriginAdvancesDInv == ASSUME DInv, OriginAdvances PROVE DInv'
<1>1. PICK k \in CommitKinds : newest < MaxCommits /\ history' = Append(history, k)
  BY DEF OriginAdvances
<1>2. UNCHANGED <<head, pulls, process, cont, req, resume, dep_past>>
  BY DEF OriginAdvances
<1>3. /\ newest' = newest + 1 /\ HistoryTyped'
      /\ 0..newest \subseteq 0..newest'
      /\ Continuation \subseteq Continuation' /\ Request \subseteq Request'
  BY <1>1, HistoryGrows
<1>4. CodeTyped' /\ FileTyped' /\ RequestsAreTyped'
  BY <1>2, <1>3 DEF DInv, CodeTyped, FileTyped, RequestsAreTyped, process
<1>5. ToldByTheStart' /\ RollbacksPaid'
  BY <1>2 DEF DInv, ToldByTheStart, RollbacksPaid, SessionsCarried, KnowsPrevious, NoCommit, resume, process, Past
<1> QED
  BY <1>3, <1>4, <1>5 DEF DInv


\* Counting requests and mishaps leaves what was written and rolled back.
LEMMA PastCounts ==
  ASSUME DInv, UNCHANGED dep_past \/ Asked \/ DeployMishap
  PROVE  /\ dep_past' \in Past
         /\ dep_past'.written = dep_past.written /\ dep_past'.rollbacks = dep_past.rollbacks
<1>1. dep_past \in Past
  BY DEF DInv, RollbacksPaid
<1>2. CASE UNCHANGED dep_past
  BY <1>1, <1>2
<1>3. CASE Asked
  BY <1>1, <1>3, DeployBounds DEF Asked, Past
<1>4. CASE DeployMishap
  BY <1>1, <1>4, DeployBounds DEF DeployMishap, Past
<1> QED
  BY <1>2, <1>3, <1>4

\* Steps that touch requests, and at most the head, and leave the file alone.
LEMMA RequestsMove ==
  ASSUME DInv, UNCHANGED <<history, process, cont, resume>>, head' \in 0..newest,
         req' \in [Paths -> Request], UNCHANGED dep_past \/ Asked \/ DeployMishap
  PROVE  DInv'
<1>1. newest' = newest /\ HistoryTyped' /\ Continuation' = Continuation /\ Request' = Request
  BY HistoryStays DEF DInv
<1>2. CodeTyped' /\ FileTyped' /\ RequestsAreTyped'
  BY <1>1 DEF DInv, CodeTyped, FileTyped, RequestsAreTyped, process
<1>3. ToldByTheStart'
  BY DEF DInv, ToldByTheStart, SessionsCarried, resume, process
<1>4. KnowsPrevious' <=> KnowsPrevious
  BY DEF KnowsPrevious, NoCommit
<1>5. RollbacksPaid'
  BY <1>4, PastCounts DEF DInv, RollbacksPaid, Past
<1> QED
  BY <1>1, <1>2, <1>3, <1>5 DEF DInv

LEMMA AskingDInv ==
  ASSUME DInv, HandleDeploy \/ ValidationFails \/ IpcDeploy \/ TriggerManualRedeploy \/ PollDeploys
  PROVE  DInv'
<1>1. /\ head \in 0..newest /\ newest \in 0..newest /\ baseline \in 0..newest
      /\ req \in [Paths -> Request]
  BY DEF DInv, CodeTyped, HistoryTyped, RequestsAreTyped, newest
<1>2. \A pc \in RequestPcs, h \in 0..newest : [NoRequest EXCEPT !.pc = pc, !.previous = h] \in Request
  BY DEF NoRequest, Request
<1>3. \A pc \in RequestPcs : [NoRequest EXCEPT !.pc = pc] \in Request
  BY <1>1 DEF NoRequest, Request
<1>4. {"build", "sessions", "signal"} \subseteq RequestPcs
  BY DEF RequestPcs
<1>10. \A p \in Paths, r \in Request : [req EXCEPT ![p] = r] \in [Paths -> Request]
  BY <1>1
<1>11. {"http", "ipc", "manual", "poll"} \subseteq Paths
  BY DEF Paths
<1>5. CASE HandleDeploy
  <2>1. head' \in 0..newest
    BY <1>1, <1>5 DEF HandleDeploy
  <2>2. CASE head' = head
    <3>1. req' = [req EXCEPT !["http"] = [NoRequest EXCEPT !.pc = "signal"]]
      BY <1>5, <2>2 DEF HandleDeploy
    <3>2. req' \in [Paths -> Request]
      BY <1>3, <1>4, <1>10, <1>11, <3>1
    <3> QED
      BY <1>5, <2>1, <3>2, RequestsMove DEF HandleDeploy
  <2>3. CASE head' # head
    <3>1. PICK pc \in {"build", "sessions"} : req' = [req EXCEPT !["http"] = [NoRequest EXCEPT !.pc = pc, !.previous = head]]
      <4> DEFINE pc == IF Rebuilds(head, head') THEN "build" ELSE "sessions"
      <4>1. req' = [req EXCEPT !["http"] = [NoRequest EXCEPT !.pc = pc, !.previous = head]]
        BY <1>5, <2>3 DEF HandleDeploy
      <4> HIDE DEF pc
      <4> QED
        BY <4>1 DEF pc
    <3>2. req' \in [Paths -> Request]
      BY <1>1, <1>2, <1>4, <1>10, <1>11, <3>1
    <3> QED
      BY <1>5, <2>1, <3>2, RequestsMove DEF HandleDeploy
  <2> QED
    BY <2>2, <2>3
<1>6. CASE ValidationFails
  BY <1>1, <1>6, RequestsMove DEF ValidationFails, code
<1>7. CASE IpcDeploy
  <2>1. PICK pc \in {"build", "sessions"} : req' = [req EXCEPT !["ipc"] = [NoRequest EXCEPT !.pc = pc, !.previous = head]]
    BY <1>7 DEF IpcDeploy
  <2>2. req' \in [Paths -> Request]
    BY <1>1, <1>2, <1>4, <2>1
  <2> QED
    BY <1>1, <1>7, <2>2, RequestsMove DEF IpcDeploy, code
<1>8. CASE TriggerManualRedeploy
  <2>1. req' \in [Paths -> Request]
    BY <1>1, <1>2, <1>4, <1>8 DEF TriggerManualRedeploy
  <2> QED
    BY <1>1, <1>8, <2>1, RequestsMove DEF TriggerManualRedeploy, code
<1>9. CASE PollDeploys
  <2>2. PICK pc \in {"build", "sessions"} : req' = [req EXCEPT !["poll"] = [NoRequest EXCEPT !.pc = pc, !.previous = baseline]]
    <3>1. CASE head # baseline /\ NothingFails /\ req' = [req EXCEPT !["poll"] =
             [NoRequest EXCEPT !.pc = IF Rebuilds(baseline, head) THEN "build" ELSE "sessions", !.previous = baseline]]
      <4> DEFINE pc == IF Rebuilds(baseline, head) THEN "build" ELSE "sessions"
      <4>1. req' = [req EXCEPT !["poll"] = [NoRequest EXCEPT !.pc = pc, !.previous = baseline]]
        BY <3>1
      <4> HIDE DEF pc
      <4> QED
        BY <4>1 DEF pc
    <3>2. CASE req' = [req EXCEPT !["poll"] = [NoRequest EXCEPT !.pc = "sessions", !.previous = baseline]]
      BY <3>2
    <3> QED
      BY <1>9, <3>1, <3>2 DEF PollDeploys
  <2>1. req' \in [Paths -> Request]
    BY <1>1, <1>2, <1>4, <1>10, <1>11, <2>2
  <2> QED
    BY <1>1, <1>9, <2>1, RequestsMove DEF PollDeploys, code, NothingFails
<1> QED
  BY <1>5, <1>6, <1>7, <1>8, <1>9

LEMMA RequestFields ==
  ASSUME req \in [Paths -> Request], NEW p \in Paths
  PROVE  /\ (NoRequest \in Request /\ Drop(p)) => req' \in [Paths -> Request]
         /\ \A pc \in RequestPcs : Next0(p, pc) => req' \in [Paths -> Request]
         /\ \A who \in SUBSET SessionGroups :
              req' = [req EXCEPT ![p].pc = "write", ![p].who = who] => req' \in [Paths -> Request]
<1>1. req[p] \in Request
  OBVIOUS
<1>2. \A pc \in RequestPcs : [req[p] EXCEPT !.pc = pc] \in Request
  BY <1>1 DEF Request
<1>3. \A who \in SUBSET SessionGroups : [req[p] EXCEPT !.pc = "write", !.who = who] \in Request
  BY <1>1 DEF Request, RequestPcs
<1> QED
  BY <1>2, <1>3 DEF Next0, Drop

\* Steps of a deployment.
LEMMA RequestStepsDInv ==
  ASSUME DInv, NEW p \in Paths, BuildContainerImage(p) \/ CollectSessions(p)
  PROVE  DInv'
<1>1. head \in 0..newest /\ req \in [Paths -> Request] /\ NoRequest \in Request /\ sessions \in SUBSET SessionGroups
  BY DEF DInv, CodeTyped, HistoryTyped, RequestsAreTyped, newest, NoRequest, Request, RequestPcs, ToldByTheStart
<1>2. CASE BuildContainerImage(p)
  <2>1. req' \in [Paths -> Request]
    BY <1>1, <1>2, RequestFields DEF BuildContainerImage, RequestPcs
  <2> QED
    BY <1>1, <1>2, <2>1, RequestsMove DEF BuildContainerImage, code, NothingFails
<1>3. CASE CollectSessions(p)
  <2>1. req' \in [Paths -> Request]
    BY <1>1, <1>3, RequestFields DEF CollectSessions
  <2> QED
    BY <1>1, <1>3, <2>1, RequestsMove DEF CollectSessions, code
<1> QED
  BY <1>2, <1>3

LEMMA WriteContinuationDInv ==
  ASSUME DInv, NEW p \in Paths, WriteContinuation(p)
  PROVE  DInv'
<1> DEFINE c == [previous |-> req[p].previous, who |-> req[p].who]
<1>1. newest' = newest /\ HistoryTyped' /\ Continuation' = Continuation /\ Request' = Request
  BY HistoryStays DEF DInv, WriteContinuation, code
<1>2. c \in Continuation /\ cont' = <<c>> /\ owed' = c.who /\ c.who \subseteq SessionGroups
  BY DEF DInv, RequestsAreTyped, Request, Continuation, WriteContinuation
<1> HIDE DEF c
<1>3. req' \in [Paths -> Request]
  BY RequestFields DEF DInv, RequestsAreTyped, WriteContinuation, RequestPcs
<1>4. CodeTyped' /\ FileTyped' /\ RequestsAreTyped'
  BY <1>1, <1>2, <1>3 DEF DInv, CodeTyped, FileTyped, RequestsAreTyped, process, code, WriteContinuation
<1>5. ToldByTheStart'
  BY <1>2, OneRecord DEF DInv, ToldByTheStart, SessionsCarried, process, WriteContinuation
<1>6. /\ dep_past' \in Past /\ dep_past'.rollbacks = dep_past.rollbacks
      /\ dep_past'.written = dep_past.written + 1
      /\ dep_past.rollbacks <= dep_past.written
      /\ dep_past.rollbacks \in Nat /\ dep_past.written \in Nat
  BY DEF DInv, RollbacksPaid, Past, WriteContinuation
<1>7. RollbacksPaid'
  BY <1>6 DEF RollbacksPaid, Past
<1> QED
  BY <1>1, <1>4, <1>5, <1>7 DEF DInv

\* Steps of the process that leave the file alone: who is no longer to be told
\* has been told, or has nothing to wait for any more.
LEMMA ProcessMoves ==
  ASSUME DInv, UNCHANGED <<history, cont, sessions>>,
         head' \in 0..newest, loaded' \in 0..newest, baseline' \in 0..newest, fetched' \in 0..newest,
         phase' \in {"down", "core", "later", "boot", "telling", "up", "stopping"},
         req' \in [Paths -> Request],
         telling' \subseteq telling, owed' \subseteq owed, owed' \cap telling \subseteq telling',
         telling' # {} => phase' = "telling",
         UNCHANGED dep_past \/ Asked \/ DeployMishap
  PROVE  DInv'
<1>1. newest' = newest /\ HistoryTyped' /\ Continuation' = Continuation /\ Request' = Request
  BY HistoryStays DEF DInv
<1>2. CodeTyped' /\ FileTyped' /\ RequestsAreTyped'
  BY <1>1 DEF DInv, CodeTyped, FileTyped, RequestsAreTyped
<1>3. ToldByTheStart'
  BY DEF DInv, ToldByTheStart, SessionsCarried
<1>4. KnowsPrevious' <=> KnowsPrevious
  BY DEF KnowsPrevious, NoCommit
<1>5. RollbacksPaid'
  BY <1>4, PastCounts DEF DInv, RollbacksPaid, Past
<1> QED
  BY <1>1, <1>2, <1>3, <1>5 DEF DInv

LEMMA ProcessStepsDInv ==
  ASSUME DInv, \/ \E p \in Paths : Signal(p)
               \/ ShutdownApp \/ ProcessDies \/ Start \/ StartSubsystems \/ CheckDeployContinuation \/ Up
  PROVE  DInv'
<1>1. /\ head \in 0..newest /\ loaded \in 0..newest /\ baseline \in 0..newest /\ fetched \in 0..newest
      /\ newest \in 0..newest
      /\ phase \in {"down", "core", "later", "boot", "telling", "up", "stopping"}
      /\ req \in [Paths -> Request] /\ NoRequest \in Request
      /\ (telling # {}) => phase = "telling"
  BY DEF DInv, CodeTyped, HistoryTyped, RequestsAreTyped, newest, NoRequest, Request, RequestPcs, ToldByTheStart
<1>2. [q \in Paths |-> NoRequest] \in [Paths -> Request]
  BY <1>1
<1>3. ASSUME NEW p \in Paths, Signal(p) PROVE DInv'
  <2>1. req' \in [Paths -> Request]
    BY <1>1, <1>2, <1>3 DEF Signal
  <2>2. /\ telling' = {} /\ owed' = owed \ telling /\ phase' \in {"down", "stopping"}
        /\ UNCHANGED <<code, loaded, baseline, fetched, cont, sessions, dep_past>>
    BY <1>3 DEF Signal
  <2> QED
    BY <1>1, <2>1, <2>2, ProcessMoves DEF code
<1>4. CASE ShutdownApp
  BY <1>1, <1>2, <1>4, ProcessMoves DEF ShutdownApp, code, resume
<1>5. CASE ProcessDies
  BY <1>1, <1>2, <1>5, ProcessMoves DEF ProcessDies, code
<1>6. CASE Start
  BY <1>1, <1>6, ProcessMoves DEF Start, resume
<1>7. CASE StartSubsystems
  BY <1>1, <1>7, ProcessMoves DEF StartSubsystems, code, resume
<1>8. CASE CheckDeployContinuation
  BY <1>1, <1>8, ProcessMoves DEF CheckDeployContinuation, code, process
<1>9. CASE Up
  BY <1>1, <1>9, ProcessMoves DEF Up, code, resume
<1> QED
  BY <1>3, <1>4, <1>5, <1>6, <1>7, <1>8, <1>9

\* Reading the file: nobody was left to be told by an earlier start.
LEMMA SendBootNotificationDInv ==
  ASSUME DInv, SendBootNotification
  PROVE  DInv'
<1>1. newest' = newest /\ HistoryTyped' /\ Continuation' = Continuation /\ Request' = Request
  BY HistoryStays DEF DInv, SendBootNotification, code
<1>2. CodeTyped' /\ FileTyped' /\ RequestsAreTyped'
  BY <1>1 DEF DInv, CodeTyped, FileTyped, RequestsAreTyped, SendBootNotification, code
<1>3. UNION {cont[i].who : i \in DOMAIN cont} \subseteq SessionGroups
  BY OneRecord DEF DInv, FileTyped, Continuation
<1>4. telling = {}
  BY DEF DInv, ToldByTheStart, SendBootNotification
<1>5. ToldByTheStart'
  BY <1>3, <1>4 DEF DInv, ToldByTheStart, SessionsCarried, SendBootNotification
<1>6. ~KnowsPrevious'
  BY DEF KnowsPrevious, SendBootNotification
<1>7. RollbacksPaid'
  BY <1>6 DEF DInv, RollbacksPaid, Past, SendBootNotification
<1> QED
  BY <1>1, <1>2, <1>5, <1>7 DEF DInv

\* A rollback spends the commit the file was written with.
LEMMA AutoRollbackSound ==
  ASSUME DInv, UNCHANGED <<history, loaded, baseline, fetched, req, resume>>, phase' = "down",
         telling = {},
         NEW counts \in Past, counts.written = dep_past.written, counts.rollbacks = dep_past.rollbacks,
         AutoRollback(counts)
  PROVE  DInv'
<1>1. newest' = newest /\ HistoryTyped' /\ Continuation' = Continuation /\ Request' = Request
  BY HistoryStays DEF DInv
<1>2. RequestsAreTyped'
  BY <1>1 DEF DInv, RequestsAreTyped
<1>3. CASE KnowsPrevious /\ head' = cont[1].previous /\ cont' = WithoutPrevious /\ dep_past' = RolledBack(counts)
  <2>1. PICK c \in Continuation : cont = <<c>>
    BY <1>3 DEF DInv, FileTyped, KnowsPrevious
  <2> DEFINE d == [c EXCEPT !.previous = NoCommit]
  <2>2. cont' = <<d>> /\ d \in Continuation /\ d.who = c.who /\ head' \in 0..newest
    BY <1>3, <2>1 DEF WithoutPrevious, Continuation, KnowsPrevious
  <2>6. d.previous = NoCommit
    BY DEF Continuation
  <2> HIDE DEF d
  <2>3. CodeTyped' /\ FileTyped'
    BY <1>1, <2>2 DEF DInv, CodeTyped, FileTyped
  <2>4. ToldByTheStart'
    BY <2>1, <2>2, OneRecord DEF DInv, ToldByTheStart, SessionsCarried, resume
  <2>7. NoCommit' = NoCommit
    BY DEF NoCommit
  <2>8. ~KnowsPrevious'
    BY <2>2, <2>6, <2>7 DEF KnowsPrevious
  <2>5. RollbacksPaid'
    <3>1. dep_past.rollbacks + 1 <= dep_past.written
      BY <1>3 DEF DInv, RollbacksPaid
    <3>2. dep_past' \in Past /\ dep_past'.rollbacks = dep_past.rollbacks + 1 /\ dep_past'.written = dep_past.written
      BY <1>3 DEF RolledBack, Past
    <3> QED
      BY <2>8, <3>1, <3>2 DEF RollbacksPaid, Past
  <2> QED
    BY <1>1, <1>2, <2>3, <2>4, <2>5 DEF DInv
<1>4. CASE /\ UNCHANGED <<head, cont>>
           /\ dep_past' = counts \/ (counts.mishaps < MaxDeployMishaps /\ dep_past' = [counts EXCEPT !.mishaps = @ + 1])
  <2>1. CodeTyped' /\ FileTyped'
    BY <1>1, <1>4 DEF DInv, CodeTyped, FileTyped
  <2>2. ToldByTheStart'
    BY <1>4 DEF DInv, ToldByTheStart, SessionsCarried, resume
  <2>3. dep_past' \in Past /\ dep_past'.rollbacks = dep_past.rollbacks /\ dep_past'.written = dep_past.written
    BY <1>4, DeployBounds DEF Past
  <2>4. KnowsPrevious' <=> KnowsPrevious
    BY <1>4 DEF KnowsPrevious, NoCommit
  <2>5. RollbacksPaid'
    BY <2>3, <2>4 DEF DInv, RollbacksPaid, Past
  <2> QED
    BY <1>1, <1>2, <2>1, <2>2, <2>5 DEF DInv
<1> QED
  BY <1>3, <1>4 DEF AutoRollback

LEMMA InitializeCoreDInv ==
  ASSUME DInv, InitializeCore
  PROVE  DInv'
<1>1. telling = {} /\ dep_past \in Past
  BY DEF DInv, ToldByTheStart, InitializeCore, RollbacksPaid
<1>2. CASE phase' = "later" /\ UNCHANGED <<head, cont, dep_past>>
  BY <1>1, <1>2, ProcessMoves DEF InitializeCore, resume, DInv, CodeTyped, RequestsAreTyped
<1>3. CASE phase' = "down" /\ AutoRollback(dep_past)
  BY <1>1, <1>3, AutoRollbackSound DEF InitializeCore
<1>4. CASE phase' = "down" /\ dep_past.mishaps < MaxDeployMishaps /\ AutoRollback([dep_past EXCEPT !.mishaps = @ + 1])
  <2> DEFINE counts == [dep_past EXCEPT !.mishaps = @ + 1]
  <2>1. counts \in Past /\ counts.written = dep_past.written /\ counts.rollbacks = dep_past.rollbacks
    BY <1>1, <1>4, DeployBounds DEF Past
  <2>2. AutoRollback(counts)
    BY <1>4
  <2> HIDE DEF counts
  <2> QED
    BY <1>1, <1>4, <2>1, <2>2, AutoRollbackSound DEF InitializeCore
<1> QED
  BY <1>2, <1>3, <1>4 DEF InitializeCore

LEMMA HeadMovesDInv == ASSUME DInv, HeadMoves PROVE DInv'
<1>1. UNCHANGED <<pulls, phase, loaded, baseline, cont, req, resume, dep_past>> /\ head' = newest'
  BY DEF HeadMoves, newest
<1>2. CASE newest < MaxCommits /\ (\E k \in CommitKinds : history' = Append(history, k)) /\ UNCHANGED fetched
  <2>1. PICK k \in CommitKinds : history' = Append(history, k)
    BY <1>2
  <2>2. /\ newest' = newest + 1 /\ HistoryTyped'
        /\ 0..newest \subseteq 0..newest'
        /\ Continuation \subseteq Continuation' /\ Request \subseteq Request'
    BY <1>2, <2>1, HistoryGrows
  <2>3. newest \in Nat
    BY DEF DInv, HistoryTyped, newest
  <2>4. CodeTyped' /\ FileTyped' /\ RequestsAreTyped'
    BY <1>1, <1>2, <2>2, <2>3 DEF DInv, CodeTyped, FileTyped, RequestsAreTyped
  <2>5. ToldByTheStart' /\ RollbacksPaid'
    BY <1>1 DEF DInv, ToldByTheStart, RollbacksPaid, SessionsCarried, KnowsPrevious, NoCommit, resume, Past
  <2> QED
    BY <2>2, <2>4, <2>5 DEF DInv
<1>3. CASE fetched' = newest /\ UNCHANGED history
  <2>1. newest' = newest
    BY <1>3 DEF newest
  <2> QED
    BY <1>1, <1>3, <2>1, ProcessMoves DEF DInv, CodeTyped, HistoryTyped, newest, RequestsAreTyped, resume, ToldByTheStart
<1> QED
  BY <1>2, <1>3 DEF HeadMoves

LEMMA SessionStartsDInv == ASSUME DInv, NEW g \in SessionGroups, SessionStarts(g) PROVE DInv'
<1>1. newest' = newest /\ HistoryTyped' /\ Continuation' = Continuation /\ Request' = Request
  BY HistoryStays DEF DInv, SessionStarts, code
<1>2. CodeTyped' /\ FileTyped' /\ RequestsAreTyped'
  BY <1>1 DEF DInv, CodeTyped, FileTyped, RequestsAreTyped, SessionStarts, code, process
<1>3. ToldByTheStart' /\ RollbacksPaid'
  BY DEF DInv, ToldByTheStart, RollbacksPaid, SessionsCarried, KnowsPrevious, NoCommit, Past, SessionStarts, process
<1> QED
  BY <1>1, <1>2, <1>3 DEF DInv

LEMMA NextDInv == ASSUME DInv, [DeployNext]_dep_vars PROVE DInv'
<1>1. CASE UNCHANGED dep_vars
  BY <1>1, RequestsMove DEF dep_vars, code, DInv, CodeTyped, RequestsAreTyped
<1>2. CASE DeployNext
  BY <1>2, OriginAdvancesDInv, AskingDInv, RequestStepsDInv, WriteContinuationDInv, ProcessStepsDInv,
     SendBootNotificationDInv, InitializeCoreDInv, HeadMovesDInv, SessionStartsDInv
     DEF DeployNext, RequestStep, ProcessStep
<1> QED
  BY <1>1, <1>2

\* Whatever deployments, crashes, failing starts and signals interleave, the
\* state of a deployment is of its type, every session it has promised to resume
\* is in the file or being told, and rollbacks are paid for (deploy.py,
\* lifecycle.py, startup_handler.py).
THEOREM DeployInvariant == DeploySpec => []DInv
BY InitDInv, NextDInv, DeployBounds, PTL DEF DeploySpec

LEMMA DeployInvSound == DInv => DeploySound
BY DEF DInv, RollbacksPaid, ToldByTheStart, DeploySound, RollbackOnce, Past

\* A start rolls back at most once for each continuation that was written with a
\* commit to go back to, and no session is lost between the file and the start
\* that tells it (deploy.py, startup_handler.py).
THEOREM DeployStaysSound == DeploySpec => []DeploySound
BY DeployInvSound, DeployInvariant, PTL


-----------------------------------------------------------------------------
\* GitSync

\* What a branch has of its own are its changes that the base has not.
LEMMA OwnChanges ==
  ASSUME NEW S, NEW b \in Seq(S), NEW base \in Seq(S)
  PROVE  Own(b, base) \in Seq(S) /\ ToSet(Own(b, base)) = ToSet(b) \ ToSet(base)
<1> DEFINE Body(own, n) ==
             IF n = 0 THEN <<>>
             ELSE IF b[n] \in ToSet(base) THEN own[n - 1] ELSE Append(own[n - 1], b[n])
           own == CHOOSE f : f = [n \in 0..Len(b) |-> Body(f, n)]
<1>1. Own(b, base) = own[Len(b)]
  BY DEF Own
<1>2. own = [n \in 0..Len(b) |-> Body(own, n)]
  <2> DEFINE step == [n \in 1..Len(b) |-> [x \in Seq(S) |-> IF b[n] \in ToSet(base) THEN x ELSE Append(x, b[n])]]
  <2>1. step \in [1..Len(b) -> [Seq(S) -> Seq(S)]]
    OBVIOUS
  <2>2. <<>> \in Seq(S) /\ Len(b) \in Nat
    OBVIOUS
  <2>3. PICK f \in [0..Len(b) -> Seq(S)] : f[0] = <<>> /\ \A n \in 1..Len(b) : f[n] = step[n][f[n - 1]]
    <3> DEFINE X == Seq(S)
               base0 == <<>>
    <3>1. step \in StepFunctions(Len(b), X) /\ base0 \in X /\ Len(b) \in Nat
      BY <2>1, <2>2 DEF StepFunctions
    <3> HIDE DEF step, X, base0
    <3>2. \E f : Recurs(f, Len(b), X, base0, step)
      BY <3>1, RecursionTo
    <3> QED
      BY <3>2 DEF X, base0, Recurs
  <2>4. ASSUME NEW n \in 0..Len(b) PROVE f[n] = Body(f, n)
    <3>1. CASE n = 0
      BY <2>3, <3>1
    <3>2. CASE n \in 1..Len(b)
      <4>1. f[n - 1] \in Seq(S)
        BY <2>3, <3>2
      <4> QED
        BY <2>3, <3>2, <4>1
    <3> QED
      BY <3>1, <3>2
  <2>5. f = [n \in 0..Len(b) |-> Body(f, n)]
    BY <2>3, <2>4
  <2> HIDE DEF Body
  <2> QED
    BY <2>5
<1> HIDE DEF own
<1> DEFINE Good(n) == own[n] \in Seq(S) /\ ToSet(own[n]) = {b[k] : k \in 1..n} \ ToSet(base)
           Wrong == {n \in 0..Len(b) : ~Good(n)}
<1>3. Good(0)
  <2>1. own[0] = <<>>
    <3>1. 0 \in 0..Len(b)
      OBVIOUS
    <3>2. own[0] = Body(own, 0)
      <4> HIDE DEF Body
      <4> QED
        BY <1>2, <3>1
    <3> QED
      BY <3>2
  <2> QED
    BY <2>1 DEF ToSet
<1>4. ASSUME NEW n \in 1..Len(b), Good(n - 1) PROVE Good(n)
  <2>1. own[n] = IF b[n] \in ToSet(base) THEN own[n - 1] ELSE Append(own[n - 1], b[n])
    <3>1. n \in 0..Len(b) /\ n # 0
      OBVIOUS
    <3>2. own[n] = Body(own, n)
      <4> HIDE DEF Body
      <4> QED
        BY <1>2, <3>1
    <3> QED
      BY <3>1, <3>2
  <2>2. {b[k] : k \in 1..n} = {b[k] : k \in 1..(n - 1)} \cup {b[n]}
    <3>1. 1..n = (1..(n - 1)) \cup {n}
      OBVIOUS
    <3> QED
      BY <3>1
  <2>3. b[n] \in S
    OBVIOUS
  <2>4. CASE b[n] \in ToSet(base)
    BY <1>4, <2>1, <2>2, <2>4
  <2>5. CASE b[n] \notin ToSet(base)
    <3>1. own[n - 1] \in Seq(S)
      BY <1>4
    <3>2. own[n] \in Seq(S) /\ ToSet(own[n]) = ToSet(own[n - 1]) \cup {b[n]}
      BY <2>1, <2>3, <2>5, <3>1, ToSetFacts
    <3> QED
      BY <1>4, <2>2, <2>5, <3>2
  <2> QED
    BY <2>4, <2>5
<1> HIDE DEF Good
<1>5. Wrong = {}
  <2> SUFFICES ASSUME Wrong # {} PROVE FALSE
    OBVIOUS
  <2>1. PICK k \in Wrong : \A m \in Wrong : k <= m
    <3>1. Wrong \subseteq Nat
      OBVIOUS
    <3> HIDE DEF Wrong
    <3> QED
      BY <3>1, LeastOf
  <2>2. k # 0 /\ k \in 1..Len(b) /\ k - 1 \in 0..Len(b) /\ k - 1 \notin Wrong
    BY <1>3, <2>1
  <2> QED
    BY <1>4, <2>1, <2>2
<1>6. Good(Len(b))
  BY <1>5
<1>7. {b[k] : k \in 1..Len(b)} = ToSet(b)
  BY DEF ToSet
<1> QED
  BY <1>1, <1>6, <1>7 DEF Good

LEMMA RebasedChanges ==
  ASSUME NEW S, NEW b \in Seq(S), NEW base \in Seq(S)
  PROVE  Rebased(b, base) \in Seq(S) /\ ToSet(Rebased(b, base)) = ToSet(b) \cup ToSet(base)
BY OwnChanges, ToSetFacts DEF Rebased

-----------------------------------------------------------------------------
\* Types, and what a thread that is somewhere in a merge relies on.

Branch == Seq(Commits)
Job == [pc : Pcs, g : Groups \cup {"none"}, want : SUBSET Commits, todo : SUBSET Groups, try : {0, 1}]
Baselines == [origin : Branch, deployed : Branch, local : Branch, seen : Branch]
GitPast == [mishaps : 0..MaxMishaps, recreated : SUBSET Groups, by : [Groups -> SUBSET Changes]]

RefsTyped == main \in Branch /\ origin \in Branch /\ tracking \in Branch /\ prs \in SUBSET Groups
TreesTyped ==
  /\ wt \in [Groups -> Branch] /\ onto \in [Groups -> Branch]
  /\ tree \in [Groups -> {"clean", "dirty", "conflict", "broken"}]
RestTyped ==
  /\ root \in {"clean", "dirty", "stashed"} /\ poll \in Baselines
  /\ notified \in Branch /\ loadedMain \in Branch
GTyped == RefsTyped /\ TreesTyped /\ RestTyped /\ job \in [Jobs -> Job] /\ git_past \in GitPast

\* A thread that works on a worktree has been told which.
FineAt(j, pc, g) ==
  /\ pc \in {"rebase_wt", "ff", "push_branch", "pr"} => j # "poll" /\ g \in Groups
  /\ pc \in {"fetch", "rebase_main"} => (j # "poll" => g \in Groups)

\* Where the commits that a merge was asked for are by now.
WantedAt(pc, g, want, m, o, w) ==
  /\ pc \in {"fetch", "rebase_main", "rebase_wt", "ff"} => want \subseteq ToSet(w[g])
  /\ pc \in {"push_fetch", "push_rebase", "push", "refetch"} => want \subseteq ToSet(m)
  /\ pc = "reply" => want \subseteq ToSet(o)

TrackingBehind == ToSet(tracking) \subseteq ToSet(origin)
JobsFine == \A j \in Jobs : FineAt(j, job[j].pc, job[j].g)
WantedKept == WantedAt(job["ipc"].pc, job["ipc"].g, job["ipc"].want, main, origin, wt)

GInv == GTyped /\ TrackingBehind /\ JobsFine /\ WantedKept /\ ChangesKept

\* What a step does to the refs, the worktrees, the history and a thread.
GrowRefs ==
  /\ RefsTyped' /\ TrackingBehind'
  /\ ToSet(main) \subseteq ToSet(main') /\ ToSet(origin) \subseteq ToSet(origin')
GrowTrees == TreesTyped' /\ \A g \in Groups : ToSet(wt[g]) \subseteq ToSet(wt'[g])
GrowPast ==
  /\ git_past' \in GitPast /\ git_past'.recreated = git_past.recreated
  /\ \A g \in Groups : git_past'.by[g] \subseteq git_past.by[g] \cup ToSet(wt'[g])
JobMoved ==
  \/ job' = job
  \/ \E j \in Jobs, r \in Job :
       /\ job' = [job EXCEPT ![j] = r] /\ FineAt(j, r.pc, r.g)
       /\ j = "ipc" => WantedAt(r.pc, r.g, r.want, main', origin', wt')
Grows == GrowRefs /\ GrowTrees /\ GrowPast /\ JobMoved /\ RestTyped'

LEMMA GrowsKeeps ==
  ASSUME GInv, Grows
  PROVE  GInv'
<1> USE DEF GInv, Grows, GTyped
<1>1. job' \in [Jobs -> Job] /\ JobsFine' /\ WantedKept'
  <2>1. CASE job' = job
    <3>1. WantedKept'
      <4>1. job["ipc"].pc \in {"fetch", "rebase_main", "rebase_wt", "ff"} => job["ipc"].g \in Groups
        BY DEF JobsFine, FineAt, Jobs
      <4> QED
        BY <2>1, <4>1 DEF WantedKept, WantedAt, GrowRefs, GrowTrees
    <3> QED
      BY <2>1, <3>1 DEF JobsFine
  <2>2. ASSUME NEW j \in Jobs, NEW r \in Job, job' = [job EXCEPT ![j] = r], FineAt(j, r.pc, r.g),
               j = "ipc" => WantedAt(r.pc, r.g, r.want, main', origin', wt')
        PROVE  job' \in [Jobs -> Job] /\ JobsFine' /\ WantedKept'
    <3>1. job' \in [Jobs -> Job] /\ \A k \in Jobs : job'[k] = IF k = j THEN r ELSE job[k]
      BY <2>2
    <3>2. JobsFine'
      BY <2>2, <3>1 DEF JobsFine
    <3>3. WantedKept'
      <4>1. CASE j = "ipc"
        BY <2>2, <3>1, <4>1 DEF WantedKept
      <4>2. CASE j # "ipc"
        <5>1. job["ipc"].pc \in {"fetch", "rebase_main", "rebase_wt", "ff"} => job["ipc"].g \in Groups
          BY DEF JobsFine, FineAt, Jobs
        <5>2. job'["ipc"] = job["ipc"]
          BY <3>1, <4>2 DEF Jobs
        <5> QED
          BY <5>1, <5>2 DEF WantedKept, WantedAt, GrowRefs, GrowTrees
      <4> QED
        BY <4>1, <4>2
    <3> QED
      BY <3>1, <3>2, <3>3
  <2> QED
    BY <2>1, <2>2 DEF JobMoved
<1>2. ChangesKept'
  <2> SUFFICES ASSUME NEW g \in Groups \ git_past'.recreated
               PROVE  git_past'.by[g] \subseteq ToSet(wt'[g]) \cup ToSet(main')
    BY DEF ChangesKept
  <2>1. git_past.by[g] \subseteq ToSet(wt[g]) \cup ToSet(main)
    BY DEF ChangesKept, GrowPast
  <2> QED
    BY <2>1 DEF GrowPast, GrowTrees, GrowRefs
<1>3. GTyped' /\ TrackingBehind'
  BY <1>1 DEF GrowRefs, GrowTrees, GrowPast
<1> QED
  BY <1>1, <1>2, <1>3

-----------------------------------------------------------------------------
\* The parts of a step.

LEMMA RefsStay ==
  ASSUME GInv, UNCHANGED refs
  PROVE  GrowRefs
BY DEF GInv, GTyped, RefsTyped, TrackingBehind, GrowRefs, refs

LEMMA TreesStay ==
  ASSUME GInv, UNCHANGED trees
  PROVE  GrowTrees
BY DEF GInv, GTyped, TreesTyped, GrowTrees, trees

LEMMA PastStays ==
  ASSUME GInv, Fine \/ Mishap
  PROVE  GrowPast
<1>1. MaxMishaps \in Nat
  BY GitBounds
<1>2. git_past \in GitPast
  BY DEF GInv, GTyped
<1>3. CASE Fine
  BY <1>2, <1>3 DEF Fine, GrowPast, GitPast
<1>4. CASE Mishap
  BY <1>1, <1>2, <1>4 DEF Mishap, GrowPast, GitPast
<1> QED
  BY <1>3, <1>4

LEMMA RestStays ==
  ASSUME GInv, Quiet
  PROVE  RestTyped'
BY DEF GInv, GTyped, RestTyped, Quiet

LEMMA FetchGrows ==
  ASSUME GInv, Fetch
  PROVE  GrowRefs
BY DEF GInv, GTyped, RefsTyped, TrackingBehind, GrowRefs, Fetch

LEMMA RebaseMainGrows ==
  ASSUME GInv, NEW ok \in BOOLEAN, RebaseMain(ok)
  PROVE  GrowRefs /\ GrowPast
<1>1. CASE main' = Rebased(main, tracking) /\ Fine /\ UNCHANGED <<origin, tracking, prs>>
  <2>1. main \in Branch /\ tracking \in Branch
    BY DEF GInv, GTyped, RefsTyped
  <2>2. main' \in Branch /\ ToSet(main') = ToSet(main) \cup ToSet(tracking)
    BY <1>1, <2>1, RebasedChanges DEF Branch
  <2> QED
    BY <1>1, <2>2, PastStays DEF GInv, GTyped, RefsTyped, TrackingBehind, GrowRefs
<1>2. CASE (Fine \/ Mishap) /\ UNCHANGED refs
  BY <1>2, PastStays, RefsStay
<1> QED
  BY <1>1, <1>2 DEF RebaseMain

LEMMA TreeRebased ==
  ASSUME GInv, NEW g \in Groups, NEW base \in Branch,
         wt' = [wt EXCEPT ![g] = Rebased(@, base)], onto' \in [Groups -> Branch],
         tree' \in [Groups -> {"clean", "dirty", "conflict", "broken"}]
  PROVE  GrowTrees /\ ToSet(wt'[g]) = ToSet(wt[g]) \cup ToSet(base)
<1>1. wt \in [Groups -> Branch]
  BY DEF GInv, GTyped, TreesTyped
<1> DEFINE new == Rebased(wt[g], base)
<1>2. new \in Branch /\ ToSet(new) = ToSet(wt[g]) \cup ToSet(base)
  <2>1. wt[g] \in Branch
    BY <1>1
  <2> QED
    BY <2>1, RebasedChanges DEF Branch
<1>3. wt' = [wt EXCEPT ![g] = new]
  OBVIOUS
<1> HIDE DEF new
<1> QED
  BY <1>1, <1>2, <1>3 DEF GrowTrees, TreesTyped

LEMMA ConflictLeft ==
  ASSUME GInv, NEW g \in Groups, NEW base \in Branch, LeaveConflict(g, base)
  PROVE  GrowTrees /\ GrowPast
<1>1. GrowPast
  BY PastStays DEF LeaveConflict
<1> QED
  BY <1>1 DEF GInv, GTyped, TreesTyped, GrowTrees, LeaveConflict

LEMMA SafeRebaseFailing ==
  ASSUME GInv, NEW g \in Groups, NEW base, SafeRebaseFails(g, base)
  PROVE  GrowTrees /\ GrowPast
<1>1. GrowPast
  BY PastStays DEF SafeRebaseFails
<1>2. CASE UNCHANGED trees
  BY <1>1, <1>2, TreesStay
<1>3. CASE tree' = [tree EXCEPT ![g] = "clean"] /\ UNCHANGED <<wt, onto>>
  BY <1>1, <1>3 DEF GInv, GTyped, TreesTyped, GrowTrees
<1> QED
  BY <1>2, <1>3 DEF SafeRebaseFails

LEMMA JobsTyped ==
  ASSUME GInv, NEW j \in Jobs
  PROVE  /\ job[j] \in Job /\ FineAt(j, job[j].pc, job[j].g)
         /\ j = "ipc" => WantedAt(job[j].pc, job[j].g, job[j].want, main, origin, wt)
BY DEF GInv, GTyped, JobsFine, WantedKept

LEMMA JobGoes ==
  ASSUME GInv, NEW j \in Jobs, NEW pc \in Pcs, Go(j, pc), FineAt(j, pc, job[j].g),
         j = "ipc" => WantedAt(pc, job[j].g, job[j].want, main', origin', wt')
  PROVE  JobMoved
<1> DEFINE r == [job[j] EXCEPT !.pc = pc]
<1>1. job[j] \in Job
  BY JobsTyped
<1>2. r \in Job /\ r.pc = pc /\ r.g = job[j].g /\ r.want = job[j].want
  BY <1>1 DEF Job
<1>3. job' = [job EXCEPT ![j] = r]
  BY DEF Go
<1> HIDE DEF r
<1> QED
  BY <1>2, <1>3 DEF JobMoved

LEMMA DoneFine ==
  ASSUME GInv, NEW j \in Jobs, Done(j)
  PROVE  JobMoved
<1>1. Free \in Job /\ Free.pc = "idle"
  BY DEF Free, Job, Pcs
<1>2. FineAt(j, Free.pc, Free.g) /\ WantedAt(Free.pc, Free.g, Free.want, main', origin', wt')
  BY <1>1 DEF FineAt, WantedAt
<1> QED
  BY <1>1, <1>2 DEF JobMoved, Done

\* The end of a push, for whoever pushed.
LEMMA PushOver ==
  ASSUME GInv, NEW j \in Jobs, NEW ok \in BOOLEAN, PushEnds(j, ok),
         (j = "ipc" /\ ok) => job[j].want \subseteq ToSet(origin')
  PROVE  JobMoved
<1>1. CASE Done(j)
  BY <1>1, DoneFine
<1>2. CASE j = "poll" /\ Go(j, "pop")
  <2>1. "pop" \in Pcs /\ FineAt(j, "pop", job[j].g)
    BY <1>2 DEF Pcs, FineAt
  <2> QED
    BY <1>2, <2>1, JobGoes
<1>3. CASE j = "ipc" /\ ok /\ Go(j, "reply")
  <2>1. /\ "reply" \in Pcs /\ FineAt(j, "reply", job[j].g)
        /\ WantedAt("reply", job[j].g, job[j].want, main', origin', wt')
    BY <1>3 DEF Pcs, FineAt, WantedAt
  <2> QED
    BY <1>3, <2>1, JobGoes
<1> QED
  BY <1>1, <1>2, <1>3 DEF PushEnds, Jobs

-----------------------------------------------------------------------------
\* The steps.

LEMMA AgentsGrow ==
  ASSUME GInv, NEW g \in Groups, Commit(g) \/ Edit(g) \/ Resolve(g) \/ Breaks(g)
  PROVE  Grows
<1> USE DEF GInv, GTyped
<1>1. JobMoved /\ RestTyped' /\ GrowRefs
  BY RestStays, RefsStay DEF Commit, Edit, Resolve, Breaks, JobMoved
<1>2. CASE Commit(g)
  <2>1. PICK c \in Changes : /\ wt' = [wt EXCEPT ![g] = Append(@, c)]
                             /\ git_past' = [git_past EXCEPT !.by[g] = @ \cup {c}]
    BY <1>2 DEF Commit
  <2>2. wt[g] \in Branch /\ c \in Commits
    BY DEF TreesTyped, Commits
  <2> DEFINE new == Append(wt[g], c)
             by == [git_past.by EXCEPT ![g] = @ \cup {c}]
  <2>3. new \in Branch /\ ToSet(new) = ToSet(wt[g]) \cup {c}
    BY <2>2, ToSetFacts DEF Branch
  <2>4. wt' = [wt EXCEPT ![g] = new]
    BY <2>1
  <2>5. tree' \in [Groups -> {"clean", "dirty", "conflict", "broken"}] /\ onto' = onto
    BY <1>2 DEF Commit, TreesTyped
  <2>6. git_past' = [git_past EXCEPT !.by = by]
    BY <2>1
  <2>7. by \in [Groups -> SUBSET Changes] /\ \A k \in Groups : by[k] = git_past.by[k] \cup (IF k = g THEN {c} ELSE {})
    BY DEF GitPast
  <2> HIDE DEF new, by
  <2>8. GrowTrees
    BY <2>3, <2>4, <2>5 DEF GrowTrees, TreesTyped
  <2>9. ToSet(wt'[g]) = ToSet(wt[g]) \cup {c}
    BY <2>3, <2>4 DEF TreesTyped
  <2>10. git_past' \in GitPast /\ git_past'.recreated = git_past.recreated /\ git_past'.by = by
    BY <2>6, <2>7 DEF GitPast
  <2>11. GrowPast
    BY <2>7, <2>9, <2>10 DEF GrowPast
  <2> QED
    BY <1>1, <2>8, <2>11 DEF Grows
<1>3. CASE Edit(g) \/ Breaks(g)
  <2>1. GrowPast
    BY <1>3, PastStays DEF Edit, Breaks
  <2>2. GrowTrees
    BY <1>3 DEF Edit, Breaks, TreesTyped, GrowTrees
  <2> QED
    BY <1>1, <2>1, <2>2 DEF Grows
<1>4. CASE Resolve(g)
  <2>1. GrowPast
    BY <1>4, PastStays DEF Resolve, Fine
  <2>2. onto' \in [Groups -> Branch]
    <3>1. <<>> \in Branch
      BY DEF Branch
    <3> QED
      BY <1>4, <3>1 DEF Resolve, TreesTyped
  <2>3. /\ tree' \in [Groups -> {"clean", "dirty", "conflict", "broken"}] /\ onto[g] \in Branch
        /\ wt' = [wt EXCEPT ![g] = Rebased(@, onto[g])]
    BY <1>4 DEF Resolve, TreesTyped
  <2>4. GrowTrees
    BY <2>2, <2>3, TreeRebased
  <2> QED
    BY <1>1, <2>1, <2>4 DEF Grows
<1> QED
  BY <1>2, <1>3, <1>4

LEMMA OthersGrow ==
  ASSUME GInv, OthersPush \/ HostEdits
  PROVE  Grows
<1> USE DEF GInv, GTyped
<1>1. JobMoved /\ GrowTrees /\ GrowPast
  BY TreesStay, PastStays DEF OthersPush, HostEdits, JobMoved, Fine
<1>2. CASE OthersPush
  <2>1. PICK c \in External : origin' = Append(origin, c)
    BY <1>2 DEF OthersPush
  <2>2. origin \in Branch /\ c \in Commits
    BY DEF RefsTyped, Commits
  <2>3. origin' \in Branch /\ ToSet(origin') = ToSet(origin) \cup {c}
    BY <2>1, <2>2, ToSetFacts DEF Branch
  <2>4. GrowRefs
    BY <1>2, <2>3 DEF OthersPush, GrowRefs, RefsTyped, TrackingBehind
  <2> QED
    BY <1>1, <1>2, <2>4, RestStays DEF Grows, OthersPush
<1>3. CASE HostEdits
  BY <1>1, <1>3, RefsStay DEF HostEdits, Grows, RestTyped
<1> QED
  BY <1>2, <1>3

\* A merge begins, asked for or after a run.
LEMMA MergesBegin ==
  ASSUME GInv, NEW g \in Groups, SyncWorktreeToMain(g) \/ MergeWorktreeWithPolicy(g)
  PROVE  Grows
<1>1. GrowRefs /\ GrowTrees /\ GrowPast /\ RestTyped'
  BY RefsStay, TreesStay, PastStays, RestStays DEF SyncWorktreeToMain, MergeWorktreeWithPolicy, Fine
<1>2. wt[g] \in Branch /\ wt' = wt
  BY <1>1 DEF GInv, GTyped, TreesTyped, SyncWorktreeToMain, MergeWorktreeWithPolicy, trees
<1>3. ToSet(wt[g]) \subseteq Commits
  BY <1>2, ToSetFacts DEF Branch
<1>4. ASSUME NEW j \in {"ipc", "merge"}, NEW r \in Job, job' = [job EXCEPT ![j] = r], r.g = g,
             r.pc \in {"fetch", "push_branch", "rebase_wt"},
             j = "ipc" => r.want = ToSet(wt[g]) /\ r.pc # "rebase_wt"
      PROVE  JobMoved
  <2>1. FineAt(j, r.pc, r.g) /\ (j = "ipc" => WantedAt(r.pc, r.g, r.want, main', origin', wt'))
    BY <1>2, <1>4 DEF FineAt, WantedAt
  <2> QED
    BY <1>4, <2>1 DEF JobMoved, Jobs
<1>5. ASSUME SyncWorktreeToMain(g) PROVE JobMoved
  <2> DEFINE pc == IF g \in PullRequests THEN "push_branch" ELSE "fetch"
             r == [Free EXCEPT !.g = g, !.want = ToSet(wt[g]), !.pc = pc]
  <2>1. job' = [job EXCEPT !["ipc"] = r]
    BY <1>5 DEF SyncWorktreeToMain
  <2>2. r \in Job /\ r.g = g /\ r.want = ToSet(wt[g]) /\ r.pc \in {"fetch", "push_branch"}
    BY <1>3 DEF Free, Job, Pcs
  <2> HIDE DEF pc, r
  <2> QED
    BY <1>4, <2>1, <2>2
<1>6. ASSUME MergeWorktreeWithPolicy(g), NEW pc \in {"push_branch", "rebase_wt"},
             job' = [job EXCEPT !["merge"] = [Free EXCEPT !.g = g, !.pc = pc]]
      PROVE  JobMoved
  <2> DEFINE r == [Free EXCEPT !.g = g, !.pc = pc]
  <2>2. r \in Job /\ r.g = g /\ r.pc = pc
    BY DEF Free, Job, Pcs
  <2>1. job' = [job EXCEPT !["merge"] = r]
    BY <1>6
  <2> HIDE DEF r
  <2> QED
    BY <1>4, <2>1, <2>2
<1>7. ASSUME MergeWorktreeWithPolicy(g) PROVE JobMoved
  BY <1>6, <1>7 DEF MergeWorktreeWithPolicy
<1>8. JobMoved
  BY <1>5, <1>7
<1> QED
  BY <1>1, <1>8 DEF Grows

LEMMA RootTyped ==
  ASSUME GInv, NEW j \in Jobs, UNCHANGED root \/ LeaveStash(j), UNCHANGED <<poll, notified, loadedMain>>
  PROVE  RestTyped'
BY DEF GInv, GTyped, RestTyped, LeaveStash

LEMMA HostFetchGrows ==
  ASSUME GInv, NEW j \in Jobs, HostFetch(j)
  PROVE  Grows
<1>1. GrowTrees /\ GrowPast /\ RestTyped'
  BY TreesStay, PastStays, RootTyped DEF HostFetch
<1>2. GrowRefs
  BY RefsStay, FetchGrows DEF HostFetch
<1>3. CASE Done(j)
  BY <1>1, <1>2, <1>3, DoneFine DEF Grows
<1>4. CASE Go(j, "rebase_main")
  <2>1. FineAt(j, "rebase_main", job[j].g) /\ "rebase_main" \in Pcs
    BY JobsTyped DEF HostFetch, FineAt, Pcs
  <2>2. j = "ipc" => WantedAt("rebase_main", job[j].g, job[j].want, main', origin', wt')
    <3>1. UNCHANGED wt
      BY DEF HostFetch, trees
    <3> QED
      BY <3>1, JobsTyped DEF HostFetch, WantedAt
  <2> QED
    BY <1>1, <1>2, <1>4, <2>1, <2>2, JobGoes DEF Grows
<1> QED
  BY <1>3, <1>4 DEF HostFetch

LEMMA HostRebaseMainGrows ==
  ASSUME GInv, NEW j \in Jobs, HostRebaseMain(j)
  PROVE  Grows
<1>1. GrowTrees /\ GrowPast /\ GrowRefs /\ RestTyped'
  BY TreesStay, RootTyped, RebaseMainGrows DEF HostRebaseMain
<1>2. CASE Done(j)
  BY <1>1, <1>2, DoneFine DEF Grows
<1>3. CASE Go(j, IF j = "poll" THEN "push_rebase" ELSE "rebase_wt")
  <2> DEFINE pc == IF j = "poll" THEN "push_rebase" ELSE "rebase_wt"
  <2>1. FineAt(j, pc, job[j].g) /\ pc \in Pcs
    BY JobsTyped DEF HostRebaseMain, FineAt, Pcs
  <2>2. j = "ipc" => WantedAt(pc, job[j].g, job[j].want, main', origin', wt')
    <3>1. UNCHANGED wt
      BY DEF HostRebaseMain, trees
    <3> QED
      BY <3>1, JobsTyped DEF HostRebaseMain, WantedAt
  <2> HIDE DEF pc
  <2>3. Go(j, pc)
    BY <1>3 DEF pc
  <2> QED
    BY <1>1, <2>1, <2>2, <2>3, JobGoes DEF Grows
<1> QED
  BY <1>2, <1>3 DEF HostRebaseMain

LEMMA RebaseWorktreeGrows ==
  ASSUME GInv, NEW j \in Jobs, RebaseWorktree(j)
  PROVE  Grows
<1> DEFINE g == job[j].g
<1>1. g \in Groups /\ main \in Branch
  BY JobsTyped DEF RebaseWorktree, FineAt, GInv, GTyped, RefsTyped
<1>2. GrowRefs /\ RestTyped'
  BY RefsStay, RestStays DEF RebaseWorktree
<1>3. CASE RebaseTree(g, main) /\ Go(j, "ff")
  <2>1. GrowPast
    BY <1>3, PastStays DEF RebaseTree
  <2>2. GrowTrees
    <3>1. tree' = tree /\ onto' = onto /\ wt' = [wt EXCEPT ![g] = Rebased(@, main)]
      BY <1>3 DEF RebaseTree
    <3>2. onto' \in [Groups -> Branch] /\ tree' \in [Groups -> {"clean", "dirty", "conflict", "broken"}]
      BY <3>1 DEF GInv, GTyped, TreesTyped
    <3> HIDE DEF g
    <3> QED
      BY <1>1, <3>1, <3>2, TreeRebased
  <2>3. FineAt(j, "ff", job[j].g) /\ "ff" \in Pcs
    BY JobsTyped DEF RebaseWorktree, FineAt, Pcs
  <2>4. j = "ipc" => WantedAt("ff", job[j].g, job[j].want, main', origin', wt')
    BY <1>1, <2>2, JobsTyped DEF RebaseWorktree, WantedAt, GrowTrees
  <2> QED
    BY <1>2, <1>3, <2>1, <2>2, <2>3, <2>4, JobGoes DEF Grows
<1>4. CASE Done(j) /\ GrowTrees /\ GrowPast
  BY <1>2, <1>4, DoneFine DEF Grows
<1>5. CASE Done(j) /\ LeaveConflict(g, main)
  <2> HIDE DEF g
  <2> QED
    BY <1>1, <1>4, <1>5, ConflictLeft
<1>6. CASE Done(j) /\ UNCHANGED trees /\ Fine
  BY <1>4, <1>6, TreesStay, PastStays
<1>7. CASE Done(j) /\ SafeRebaseFails(g, main)
  <2> HIDE DEF g
  <2> QED
    BY <1>1, <1>4, <1>7, SafeRebaseFailing
<1> QED
  BY <1>3, <1>5, <1>6, <1>7 DEF RebaseWorktree

\* Main takes the branch of the worktree, and with it what was asked for.
LEMMA MergeFastForwardGrows ==
  ASSUME GInv, NEW j \in Jobs, MergeFastForward(j)
  PROVE  Grows
<1>1. GrowTrees /\ GrowPast /\ RestTyped'
  BY TreesStay, PastStays, RestStays DEF MergeFastForward, Fine
<1>2. CASE Done(j) /\ UNCHANGED refs
  BY <1>1, <1>2, DoneFine, RefsStay DEF Grows
<1>3. CASE /\ FastForward(job[j].g) /\ Go(j, IF j = "ipc" THEN "push_rebase" ELSE "push_fetch")
           /\ UNCHANGED <<origin, tracking, prs>>
  <2> DEFINE pc == IF j = "ipc" THEN "push_rebase" ELSE "push_fetch"
             b == wt[job[j].g]
  <2>1. job[j].g \in Groups
    BY JobsTyped DEF MergeFastForward, FineAt
  <2>2. main \in Branch /\ b \in Branch /\ IsPrefix(main, b) /\ main' = b
    BY <1>3, <2>1 DEF GInv, GTyped, RefsTyped, TreesTyped, FastForward
  <2>3. ToSet(main) \subseteq ToSet(main')
    BY <2>2, ToSetFacts DEF Branch
  <2>4. GrowRefs
    BY <1>3, <2>2, <2>3 DEF GInv, GTyped, RefsTyped, TrackingBehind, GrowRefs
  <2>5. FineAt(j, pc, job[j].g) /\ pc \in Pcs
    BY DEF FineAt, Pcs
  <2>6. j = "ipc" => WantedAt(pc, job[j].g, job[j].want, main', origin', wt')
    BY <2>2, JobsTyped DEF MergeFastForward, WantedAt
  <2> HIDE DEF pc
  <2>7. Go(j, pc)
    BY <1>3 DEF pc
  <2> QED
    BY <1>1, <2>4, <2>5, <2>6, <2>7, JobGoes DEF Grows
<1> QED
  BY <1>2, <1>3 DEF MergeFastForward

LEMMA PushFetchGrows ==
  ASSUME GInv, NEW j \in Jobs, PushFetch(j)
  PROVE  Grows
<1>1. GrowTrees /\ GrowPast /\ RestTyped' /\ GrowRefs
  BY TreesStay, PastStays, RestStays, FetchGrows, RefsStay DEF PushFetch
<1>2. CASE Fetch /\ Go(j, "push_rebase")
  <2>1. "push_rebase" \in Pcs /\ FineAt(j, "push_rebase", job[j].g)
    BY DEF Pcs, FineAt
  <2>2. j = "ipc" => WantedAt("push_rebase", job[j].g, job[j].want, main', origin', wt')
    BY <1>2, JobsTyped DEF PushFetch, WantedAt, Fetch
  <2> QED
    BY <1>1, <1>2, <2>1, <2>2, JobGoes DEF Grows
<1>3. CASE PushEnds(j, FALSE)
  BY <1>1, <1>3, PushOver DEF Grows
<1> QED
  BY <1>2, <1>3 DEF PushFetch

\* Nothing to push means that origin has all of main.
LEMMA PushRebaseGrows ==
  ASSUME GInv, NEW j \in Jobs, PushRebase(j)
  PROVE  Grows
<1>1. GrowTrees /\ GrowPast /\ RestTyped' /\ GrowRefs
  BY TreesStay, PastStays, RestStays, RebaseMainGrows, RefsStay DEF PushRebase
<1>2. j = "ipc" => job[j].want \subseteq ToSet(main)
  BY JobsTyped DEF PushRebase, WantedAt
<1>3. CASE Own(main, tracking) = <<>> /\ PushEnds(j, TRUE)
  <2>1. ToSet(main) \subseteq ToSet(tracking)
    <3>1. main \in Branch /\ tracking \in Branch
      BY DEF GInv, GTyped, RefsTyped
    <3>2. ToSet(Own(main, tracking)) = ToSet(main) \ ToSet(tracking)
      BY <3>1, OwnChanges DEF Branch
    <3>3. ToSet(<<>>) = {}
      BY DEF ToSet
    <3> QED
      BY <1>3, <3>2, <3>3
  <2>2. ToSet(main) \subseteq ToSet(origin')
    BY <1>1, <2>1 DEF GInv, TrackingBehind, GrowRefs
  <2> QED
    BY <1>1, <1>2, <1>3, <2>2, PushOver DEF Grows
<1>4. CASE Go(j, "push")
  <2>1. "push" \in Pcs /\ FineAt(j, "push", job[j].g)
    BY DEF Pcs, FineAt
  <2>2. j = "ipc" => WantedAt("push", job[j].g, job[j].want, main', origin', wt')
    BY <1>1, <1>2 DEF WantedAt, GrowRefs
  <2> QED
    BY <1>1, <1>4, <2>1, <2>2, JobGoes DEF Grows
<1>5. CASE job' = [job EXCEPT ![j].pc = "refetch", ![j].try = 1]
  <2> DEFINE r == [job[j] EXCEPT !.pc = "refetch", !.try = 1]
  <2>1. r \in Job /\ r.pc = "refetch" /\ r.g = job[j].g /\ r.want = job[j].want
    BY JobsTyped DEF Job, Pcs
  <2>2. job' = [job EXCEPT ![j] = r]
    BY <1>5
  <2> HIDE DEF r
  <2>3. FineAt(j, r.pc, r.g) /\ (j = "ipc" => WantedAt(r.pc, r.g, r.want, main', origin', wt'))
    BY <1>1, <1>2, <2>1 DEF FineAt, WantedAt, GrowRefs
  <2> QED
    BY <1>1, <2>1, <2>2, <2>3 DEF Grows, JobMoved
<1>6. CASE PushEnds(j, FALSE)
  BY <1>1, <1>6, PushOver DEF Grows
<1> QED
  BY <1>3, <1>4, <1>5, <1>6 DEF PushRebase

LEMMA PushGrows ==
  ASSUME GInv, NEW j \in Jobs, Push(j)
  PROVE  Grows
<1>1. GrowTrees /\ GrowPast /\ RestTyped'
  BY TreesStay, PastStays, RestStays DEF Push
<1>2. j = "ipc" => job[j].want \subseteq ToSet(main)
  BY JobsTyped DEF Push, WantedAt
<1>3. CASE /\ IsPrefix(origin, main) /\ origin' = main /\ tracking' = main
           /\ PushEnds(j, TRUE) /\ UNCHANGED <<main, prs>>
  <2>1. main \in Branch /\ origin \in Branch
    BY DEF GInv, GTyped, RefsTyped
  <2>2. ToSet(origin) \subseteq ToSet(main)
    BY <1>3, <2>1, ToSetFacts DEF Branch
  <2>3. GrowRefs
    BY <1>3, <2>1, <2>2 DEF GInv, GTyped, RefsTyped, TrackingBehind, GrowRefs
  <2>4. JobMoved
    BY <1>2, <1>3, PushOver
  <2> QED
    BY <1>1, <2>3, <2>4 DEF Grows
<1>4. CASE PushEnds(j, FALSE) /\ UNCHANGED refs
  BY <1>1, <1>4, PushOver, RefsStay DEF Grows
<1> QED
  BY <1>3, <1>4 DEF Push

LEMMA PullRequestsGrow ==
  ASSUME GInv, NEW j \in Jobs, PushBranch(j) \/ CreatePr(j)
  PROVE  Grows
<1>1. GrowTrees /\ GrowPast /\ RestTyped'
  BY TreesStay, PastStays, RestStays DEF PushBranch, CreatePr
<1>2. GrowRefs
  <2>1. CASE PushBranch(j)
    BY <2>1, RefsStay DEF PushBranch
  <2>2. CASE CreatePr(j)
    <3>1. job[j].g \in Groups
      BY <2>2, JobsTyped DEF CreatePr, FineAt
    <3> QED
      BY <2>2, <3>1 DEF CreatePr, GInv, GTyped, RefsTyped, TrackingBehind, GrowRefs
  <2> QED
    BY <2>1, <2>2
<1>3. CASE Done(j)
  BY <1>1, <1>2, <1>3, DoneFine DEF Grows
<1>4. CASE PushBranch(j) /\ Go(j, "pr")
  <2>1. /\ "pr" \in Pcs /\ FineAt(j, "pr", job[j].g)
        /\ WantedAt("pr", job[j].g, job[j].want, main', origin', wt')
    BY <1>4, JobsTyped DEF PushBranch, Pcs, FineAt, WantedAt
  <2> QED
    BY <1>1, <1>2, <1>4, <2>1, JobGoes DEF Grows
<1> QED
  BY <1>3, <1>4 DEF PushBranch, CreatePr

\* A thread whose place says nothing of its group or of what it was asked for.
LEMMA GoesOn ==
  ASSUME GInv, NEW j \in Jobs, NEW r \in Job, job' = [job EXCEPT ![j] = r],
         r.pc \in {"idle", "start", "notify", "deploy", "remote", "stash", "pop", "pushed"}
  PROVE  JobMoved
BY DEF JobMoved, FineAt, WantedAt

LEMMA GoesTo ==
  ASSUME GInv, NEW j \in Jobs, NEW pc \in {"start", "notify", "deploy", "remote", "stash", "pop"}, Go(j, pc)
  PROVE  JobMoved
BY JobGoes DEF FineAt, WantedAt, Pcs

LEMMA ReplyGrows ==
  ASSUME GInv, Reply
  PROVE  Grows
<1>1. GrowTrees /\ GrowPast /\ GrowRefs /\ RestTyped'
  BY TreesStay, PastStays, RestStays, RefsStay DEF Reply, Fine
<1> DEFINE r == [job["ipc"] EXCEPT !.pc = "notify", !.todo = Groups \ {job["ipc"].g}]
<1>2. "ipc" \in Jobs /\ job["ipc"] \in Job
  BY JobsTyped DEF Jobs
<1>3. r \in Job /\ r.pc = "notify"
  BY <1>2 DEF Job, Pcs
<1>4. job' = [job EXCEPT !["ipc"] = r]
  BY DEF Reply
<1> HIDE DEF r
<1>5. JobMoved
  BY <1>2, <1>3, <1>4, GoesOn
<1> QED
  BY <1>1, <1>5 DEF Grows

LEMMA NotifyWorktreeGrows ==
  ASSUME GInv, NEW j \in Jobs, NEW g \in Groups, NotifyWorktree(j, g)
  PROVE  Grows
<1>1. GrowRefs /\ RestTyped'
  BY RefsStay, RestStays DEF NotifyWorktree, Quiet
<1>2. main \in Branch
  BY DEF GInv, GTyped, RefsTyped
<1>3. GrowTrees /\ GrowPast
  <2>1. CASE UNCHANGED <<trees, git_past>>
    BY <2>1, TreesStay, PastStays DEF Fine
  <2>2. CASE RebaseTree(g, main)
    <3>1. tree' = tree /\ onto' = onto /\ wt' = [wt EXCEPT ![g] = Rebased(@, main)] /\ Fine
      BY <2>2 DEF RebaseTree
    <3>2. onto' \in [Groups -> Branch] /\ tree' \in [Groups -> {"clean", "dirty", "conflict", "broken"}]
      BY <3>1 DEF GInv, GTyped, TreesTyped
    <3> QED
      BY <1>2, <3>1, <3>2, TreeRebased, PastStays
  <2>3. CASE LeaveConflict(g, main)
    BY <1>2, <2>3, ConflictLeft
  <2> QED
    BY <2>1, <2>2, <2>3 DEF NotifyWorktree
<1>4. JobMoved
  <2> DEFINE r == [job[j] EXCEPT !.todo = @ \ {g}]
  <2>1. r \in Job /\ r.pc = "notify"
    BY JobsTyped DEF Job, NotifyWorktree
  <2>2. job' = [job EXCEPT ![j] = r]
    BY DEF NotifyWorktree
  <2> HIDE DEF r
  <2> QED
    BY <2>1, <2>2, GoesOn
<1> QED
  BY <1>1, <1>3, <1>4 DEF Grows

LEMMA NotifyEndsGrows ==
  ASSUME GInv, NEW j \in Jobs, NotifyEnds(j)
  PROVE  Grows
<1>1. GrowTrees /\ GrowPast /\ GrowRefs
  BY TreesStay, PastStays, RefsStay DEF NotifyEnds, Fine
<1>2. RestTyped'
  BY DEF NotifyEnds, GInv, GTyped, RestTyped, RefsTyped
<1>3. JobMoved
  BY GoesTo DEF NotifyEnds
<1> QED
  BY <1>1, <1>2, <1>3 DEF Grows

LEMMA BaselinesTyped ==
  ASSUME NEW p \in Baselines
  PROVE  /\ Forgets(p) \in Baselines
         /\ \A b \in Branch : /\ [Forgets(p) EXCEPT !.local = b, !.deployed = b] \in Baselines
                              /\ [Forgets(p) EXCEPT !.origin = b] \in Baselines
                              /\ [Forgets(p) EXCEPT !.seen = b] \in Baselines
                              /\ [p EXCEPT !.deployed = b] \in Baselines
<1>1. <<>> \in Branch
  BY DEF Branch
<1>2. Forgets(p) \in Baselines
  BY <1>1 DEF Forgets, Baselines
<1> DEFINE q == Forgets(p)
<1>3. q \in Baselines
  BY <1>2
<1> HIDE DEF q
<1>4. \A b \in Branch : /\ [q EXCEPT !.local = b, !.deployed = b] \in Baselines
                        /\ [q EXCEPT !.origin = b] \in Baselines
                        /\ [q EXCEPT !.seen = b] \in Baselines
                        /\ [p EXCEPT !.deployed = b] \in Baselines
  BY <1>3 DEF Baselines
<1> QED
  BY <1>2, <1>4 DEF q

LEMMA PollStateTyped ==
  ASSUME GInv
  PROVE  /\ main \in Branch /\ origin \in Branch /\ poll \in Baselines
         /\ poll.seen \in Branch /\ job["poll"] \in Job /\ "poll" \in Jobs
BY DEF GInv, GTyped, RefsTyped, RestTyped, Baselines, Jobs

LEMMA PollLocalHeadGrows ==
  ASSUME GInv, PollLocalHead
  PROVE  Grows
<1>1. GrowTrees /\ GrowPast /\ GrowRefs
  BY TreesStay, PastStays, RefsStay DEF PollLocalHead, Fine
<1>2. RestTyped'
  <2>1. poll' \in Baselines
    BY PollStateTyped, BaselinesTyped DEF PollLocalHead
  <2> QED
    BY <2>1 DEF PollLocalHead, GInv, GTyped, RestTyped
<1>3. CASE Go("poll", "remote")
  BY <1>1, <1>2, <1>3, PollStateTyped, GoesTo DEF Grows
<1>4. CASE job' = [job EXCEPT !["poll"].pc = IF notified = main THEN "deploy" ELSE "notify", !["poll"].todo = Groups]
  <2> DEFINE pc == IF notified = main THEN "deploy" ELSE "notify"
             r == [job["poll"] EXCEPT !.pc = pc, !.todo = Groups]
  <2>1. r \in Job /\ r.pc \in {"deploy", "notify"}
    BY PollStateTyped DEF Job, Pcs
  <2>2. job' = [job EXCEPT !["poll"] = r]
    BY <1>4
  <2> HIDE DEF r
  <2>3. JobMoved
    BY <2>1, <2>2, PollStateTyped, GoesOn
  <2> QED
    BY <1>1, <1>2, <2>3 DEF Grows
<1> QED
  BY <1>3, <1>4 DEF PollLocalHead

LEMMA PollOriginGrows ==
  ASSUME GInv, PollOrigin
  PROVE  Grows
<1>1. GrowTrees /\ GrowPast /\ GrowRefs
  BY TreesStay, PastStays, RefsStay DEF PollOrigin
<1>2. RestTyped'
  <2>1. poll' \in Baselines
    BY PollStateTyped, BaselinesTyped DEF PollOrigin
  <2> QED
    BY <2>1 DEF PollOrigin, GInv, GTyped, RestTyped
<1>3. JobMoved
  BY PollStateTyped, DoneFine, GoesTo DEF PollOrigin
<1> QED
  BY <1>1, <1>2, <1>3 DEF Grows

LEMMA StashGrows ==
  ASSUME GInv, Stash
  PROVE  Grows
<1>1. GrowTrees /\ GrowPast /\ GrowRefs
  BY TreesStay, PastStays, RefsStay DEF Stash, Fine
<1>2. RestTyped'
  BY DEF Stash, GInv, GTyped, RestTyped
<1>3. JobMoved
  <2>1. FineAt("poll", "fetch", job["poll"].g) /\ "fetch" \in Pcs
    BY DEF FineAt, Pcs
  <2> QED
    BY <2>1, PollStateTyped, JobGoes DEF Stash
<1> QED
  BY <1>1, <1>2, <1>3 DEF Grows

LEMMA StashPopGrows ==
  ASSUME GInv, StashPop
  PROVE  Grows
<1>1. GrowTrees /\ GrowPast
  BY TreesStay, PastStays DEF StashPop
<1>2. CASE main' = Append(main, Marker) /\ root' = "clean" /\ Go("poll", "push_rebase") /\ UNCHANGED poll
  <2>1. Marker \in Commits /\ main \in Branch
    BY PollStateTyped DEF Commits
  <2>2. main' \in Branch /\ ToSet(main') = ToSet(main) \cup {Marker}
    BY <1>2, <2>1, ToSetFacts DEF Branch
  <2>3. GrowRefs
    BY <2>2 DEF StashPop, GInv, GTyped, RefsTyped, TrackingBehind, GrowRefs
  <2>4. RestTyped'
    BY <1>2 DEF StashPop, GInv, GTyped, RestTyped
  <2>5. FineAt("poll", "push_rebase", job["poll"].g) /\ "push_rebase" \in Pcs
    BY DEF FineAt, Pcs
  <2>6. JobMoved
    BY <1>2, <2>5, PollStateTyped, JobGoes
  <2> QED
    BY <1>1, <2>3, <2>4, <2>6 DEF Grows
<1>3. CASE /\ root' = (IF root = "stashed" THEN "dirty" ELSE root) /\ UNCHANGED main
           /\ poll' = [Forgets(poll) EXCEPT !.origin = poll.seen]
           /\ job' = [job EXCEPT !["poll"].pc = IF notified = main THEN "deploy" ELSE "notify", !["poll"].todo = Groups,
                                 !["poll"].try = 0]
  <2>1. GrowRefs
    BY <1>3, RefsStay DEF StashPop, refs
  <2>2. RestTyped'
    <3>1. poll' \in Baselines
      BY <1>3, PollStateTyped, BaselinesTyped
    <3> QED
      BY <1>3, <3>1 DEF StashPop, GInv, GTyped, RestTyped
  <2> DEFINE pc == IF notified = main THEN "deploy" ELSE "notify"
             r == [job["poll"] EXCEPT !.pc = pc, !.todo = Groups, !.try = 0]
  <2>3. r \in Job /\ r.pc \in {"deploy", "notify"}
    BY PollStateTyped DEF Job, Pcs
  <2>4. job' = [job EXCEPT !["poll"] = r]
    BY <1>3
  <2> HIDE DEF r
  <2>5. JobMoved
    BY <2>3, <2>4, PollStateTyped, GoesOn
  <2> QED
    BY <1>1, <2>1, <2>2, <2>5 DEF Grows
<1> QED
  BY <1>2, <1>3 DEF StashPop

LEMMA DeployGrows ==
  ASSUME GInv, NEW j \in Jobs, Deploy(j)
  PROVE  Grows
<1>1. GrowTrees /\ GrowPast /\ GrowRefs
  BY TreesStay, PastStays, RefsStay DEF Deploy
<1>2. RestTyped'
  <2>1. poll' \in Baselines
    BY PollStateTyped, BaselinesTyped DEF Deploy
  <2> QED
    BY <2>1 DEF Deploy, GInv, GTyped, RestTyped
<1>3. JobMoved
  BY DoneFine, GoesTo DEF Deploy
<1> QED
  BY <1>1, <1>2, <1>3 DEF Grows

LEMMA JobStepGrows ==
  ASSUME GInv, NEW j \in Jobs, JobStep(j)
  PROVE  Grows
BY HostFetchGrows, HostRebaseMainGrows, RebaseWorktreeGrows, MergeFastForwardGrows, PushFetchGrows, PushRebaseGrows,
   PushGrows, PullRequestsGrow, NotifyWorktreeGrows, NotifyEndsGrows, DeployGrows DEF JobStep

\* A worktree that is made anew loses what was in it alone, and is recorded.
LEMMA RestartKeeps ==
  ASSUME GInv, Restarted, git_past'.recreated = git_past.recreated \cup {g \in Groups : tree[g] = "broken"},
         git_past'.by = git_past.by, git_past' \in GitPast
  PROVE  GInv' /\ main' = main
<1> USE DEF GInv, GTyped
<1>1. main' = main /\ origin' = origin /\ prs' = prs /\ tracking' = origin
  BY DEF Restarted, ReconcileWorktreesAtStartup
<1>2. RefsTyped' /\ TrackingBehind'
  BY <1>1 DEF RefsTyped, TrackingBehind
<1>3. RestTyped'
  <2>1. poll' \in Baselines
    BY PollStateTyped, BaselinesTyped DEF Restarted, Forgets, Baselines
  <2>2. <<>> \in Branch
    BY DEF Branch
  <2> QED
    BY <2>1, <2>2, <1>1, PollStateTyped DEF Restarted, RestTyped, LeaveStash
<1>4. job' \in [Jobs -> Job] /\ JobsFine' /\ WantedKept'
  <2>1. Free \in Job /\ Free.pc = "idle" /\ \A j \in Jobs : job'[j] = Free
    BY DEF Free, Job, Pcs, Restarted
  <2> QED
    BY <2>1 DEF Restarted, JobsFine, FineAt, WantedKept, WantedAt, Jobs
<1>5. ASSUME NEW g \in Groups
      PROVE  /\ EnsureWorktree(g).wt \in Branch /\ EnsureWorktree(g).tree \in {"clean", "dirty"}
             /\ tree[g] # "broken" => ToSet(wt[g]) \subseteq ToSet(EnsureWorktree(g).wt)
  <2>1. wt[g] \in Branch /\ origin \in Branch /\ main \in Branch /\ tree[g] \in {"clean", "dirty", "conflict", "broken"}
    BY DEF TreesTyped, RefsTyped
  <2> DEFINE b == Rebased(wt[g], origin)
             c == Rebased(b, main)
  <2>2. b \in Branch /\ ToSet(wt[g]) \subseteq ToSet(b)
    BY <2>1, RebasedChanges DEF Branch
  <2> HIDE DEF b
  <2>3. c \in Branch /\ ToSet(b) \subseteq ToSet(c)
    BY <2>1, <2>2, RebasedChanges DEF Branch
  <2> HIDE DEF c
  <2>4. EnsureWorktree(g) = IF tree[g] = "broken" THEN [wt |-> origin, tree |-> "clean"]
                            ELSE IF tree[g] = "clean" THEN [wt |-> c, tree |-> "clean"]
                            ELSE IF tree[g] = "conflict" THEN [wt |-> wt[g], tree |-> "clean"]
                            ELSE [wt |-> wt[g], tree |-> tree[g]]
    BY DEF EnsureWorktree, b, c
  <2> QED
    BY <2>1, <2>2, <2>3, <2>4
<1>6. TreesTyped' /\ \A g \in Groups : tree[g] # "broken" => ToSet(wt[g]) \subseteq ToSet(wt'[g])
  <2>1. /\ wt' = [g \in Groups |-> EnsureWorktree(g).wt] /\ tree' = [g \in Groups |-> EnsureWorktree(g).tree]
        /\ onto' = [g \in Groups |-> <<>>] /\ <<>> \in Branch
    BY DEF Restarted, ReconcileWorktreesAtStartup, Branch
  <2> QED
    BY <1>5, <2>1 DEF TreesTyped
<1>7. ChangesKept'
  <2> SUFFICES ASSUME NEW g \in Groups \ git_past'.recreated
               PROVE  git_past'.by[g] \subseteq ToSet(wt'[g]) \cup ToSet(main')
    BY DEF ChangesKept
  <2>1. g \notin git_past.recreated /\ tree[g] # "broken"
    OBVIOUS
  <2>2. git_past.by[g] \subseteq ToSet(wt[g]) \cup ToSet(main)
    BY <2>1 DEF ChangesKept
  <2> QED
    BY <1>1, <1>6, <2>1, <2>2
<1> QED
  BY <1>1, <1>2, <1>3, <1>4, <1>6, <1>7

LEMMA RestartsKeep ==
  ASSUME GInv, Restart \/ Crash
  PROVE  GInv' /\ main' = main
<1> DEFINE broken == {g \in Groups : tree[g] = "broken"}
<1>1. git_past \in GitPast /\ MaxMishaps \in Nat /\ broken \in SUBSET Groups
  BY GitBounds DEF GInv, GTyped
<1>2. /\ \/ git_past' = [git_past EXCEPT !.recreated = @ \cup broken]
         \/ /\ git_past.mishaps < MaxMishaps
            /\ git_past' = [git_past EXCEPT !.mishaps = @ + 1, !.recreated = @ \cup broken]
      /\ Restarted
  BY DEF Restart, Crash
<1> HIDE DEF broken
<1>3. /\ git_past' \in GitPast /\ git_past'.by = git_past.by
      /\ git_past'.recreated = git_past.recreated \cup broken
  <2> DEFINE new == git_past.recreated \cup broken
  <2>1. new \in SUBSET Groups
    BY <1>1 DEF GitPast
  <2>2. \/ git_past' = [git_past EXCEPT !.recreated = new]
        \/ git_past.mishaps < MaxMishaps /\ git_past' = [git_past EXCEPT !.mishaps = @ + 1, !.recreated = new]
    BY <1>2
  <2> HIDE DEF new
  <2>3. CASE git_past' = [git_past EXCEPT !.recreated = new]
    BY <1>1, <2>1, <2>3 DEF GitPast, new
  <2>4. CASE git_past.mishaps < MaxMishaps /\ git_past' = [git_past EXCEPT !.mishaps = @ + 1, !.recreated = new]
    <3>1. git_past.mishaps + 1 \in 0..MaxMishaps
      BY <1>1, <2>4 DEF GitPast
    <3> DEFINE n == git_past.mishaps + 1
    <3>2. n \in 0..MaxMishaps /\ git_past' = [git_past EXCEPT !.mishaps = n, !.recreated = new]
      BY <2>4, <3>1
    <3> HIDE DEF n
    <3>3. git_past' \in GitPast /\ git_past'.by = git_past.by /\ git_past'.recreated = new
      BY <1>1, <2>1, <3>2 DEF GitPast
    <3> QED
      BY <3>3 DEF new
  <2> QED
    BY <2>2, <2>3, <2>4
<1> QED
  BY <1>2, <1>3, RestartKeeps DEF broken

LEMMA GitSteps ==
  ASSUME GInv, GitNext
  PROVE  GInv' /\ ToSet(main) \subseteq ToSet(main')
<1>1. "ipc" \in Jobs /\ "merge" \in Jobs /\ "poll" \in Jobs
  BY DEF Jobs
<1>2. CASE Grows
  BY <1>2, GrowsKeeps DEF Grows, GrowRefs
<1>3. CASE Restart \/ Crash
  BY <1>3, RestartsKeep
<1> QED
  BY <1>1, <1>2, <1>3, AgentsGrow, MergesBegin, OthersGrow, JobStepGrows, ReplyGrows, PollLocalHeadGrows,
     PollOriginGrows, StashGrows, StashPopGrows DEF GitNext, GitPollStep

LEMMA GitStutters ==
  ASSUME GInv, UNCHANGED git_vars
  PROVE  GInv' /\ ToSet(main) \subseteq ToSet(main')
BY DEF git_vars, refs, trees, GInv, GTyped, RefsTyped, TreesTyped, RestTyped, TrackingBehind, JobsFine, WantedKept,
       ChangesKept

LEMMA GitStarts ==
  ASSUME GitInit
  PROVE  GInv
<1>1. <<>> \in Branch /\ ToSet(<<>>) = {}
  BY DEF Branch, ToSet
<1>2. Free \in Job /\ Free.pc = "idle"
  BY DEF Free, Job, Pcs
<1>3. 0 \in 0..MaxMishaps
  BY GitBounds
<1>4. GTyped
  BY <1>1, <1>2, <1>3 DEF GitInit, GTyped, RefsTyped, TreesTyped, RestTyped, Baselines, GitPast
<1>5. TrackingBehind /\ ChangesKept
  BY <1>1 DEF GitInit, TrackingBehind, ChangesKept
<1>6. JobsFine /\ WantedKept
  BY <1>2 DEF GitInit, JobsFine, WantedKept, FineAt, WantedAt, Jobs
<1> QED
  BY <1>4, <1>5, <1>6 DEF GInv

\* The branches have their types, the host's origin/main is behind origin, a
\* thread in the middle of a merge knows its worktree, and the commits a merge was
\* asked for are where its next step expects them (sync.py, _worktree_merge.py).
THEOREM GitInvariant == GitSpec => []GInv
<1>1. GInv /\ [GitNext]_git_vars => GInv'
  BY GitSteps, GitStutters
<1> QED
  BY <1>1, GitStarts, PTL DEF GitSpec

LEMMA GitInvSound == GInv => GitSound
<1>1. GInv => SyncedMeansPushed
  BY DEF GInv, WantedKept, WantedAt, SyncedMeansPushed
<1> QED
  BY <1>1 DEF GInv, GitSound

\* What an agent commits stays on its branch or reaches main, and a merge that is
\* reported has reached origin, for any number of worktrees and commits
\* (sync.py, sync_poll.py, worktree.py, utils.push_local_commits).
THEOREM GitStaysSound == GitSpec => []GitSound
BY GitInvSound, GitInvariant, PTL

LEMMA GitTyped == GInv => GitTypeOK
<1> SUFFICES ASSUME GInv PROVE GitTypeOK
  OBVIOUS
<1>1. \A j \in Jobs : job[j] \in Job
  BY JobsTyped
<1> QED
  BY <1>1 DEF GInv, GTyped, RefsTyped, TreesTyped, RestTyped, Baselines, GitPast, GitTypeOK, Job, Branch

\* Every variable of the git synchronisation has its type (git_ops).
THEOREM GitStaysTyped == GitSpec => []GitTypeOK
BY GitTyped, GitInvariant, PTL

\* No step of any thread, and no restart, takes a change from main (git_ops).
THEOREM MainOnlyGrows == GitSpec => MainKeepsChanges
<1>1. GInv /\ [GitNext]_git_vars => [ToSet(main) \subseteq ToSet(main')]_git_vars
  BY GitSteps
<1> QED
  BY <1>1, GitInvariant, PTL DEF GitSpec, MainKeepsChanges


-----------------------------------------------------------------------------
\* DeployTypeOK, from the invariant.

LEMMA DeployTyped == DInv => DeployTypeOK
<1> SUFFICES ASSUME DInv PROVE DeployTypeOK
  OBVIOUS
<1>1. Len(history) <= MaxCommits /\ \A c \in 1..newest : history[c] \in CommitKinds
  BY DEF DInv, HistoryTyped, newest
<1>2. Len(cont) <= 1 /\ \A i \in DOMAIN cont : cont[i].previous \in 0..newest \cup {NoCommit} /\ cont[i].who \subseteq SessionGroups
  <2>1. CASE cont = <<>>
    BY <2>1
  <2>2. ASSUME NEW c \in Continuation, cont = <<c>>
        PROVE  Len(cont) <= 1 /\ \A i \in DOMAIN cont : cont[i] \in Continuation
    BY <2>2
  <2> QED
    BY <2>1, <2>2 DEF DInv, FileTyped, Continuation
<1>3. \A p \in Paths : req[p].pc \in RequestPcs /\ req[p].who \subseteq SessionGroups
  BY DEF DInv, RequestsAreTyped, Request
<1> QED
  BY <1>1, <1>2, <1>3 DEF DeployTypeOK, DInv, CodeTyped, ToldByTheStart, RollbacksPaid, Past

-----------------------------------------------------------------------------
\* LlmGateway

\* Each folder has a team of its own.
TeamsApart(h) ==
  \A f \in DOMAIN h : h[f] \in 1..(past.team - 1) /\ \A g \in DOMAIN h : h[f] = h[g] => f = g

\* What is done already, if no call has failed since the start.
Registered ==
  /\ stage = "endpoints" => /\ \A i \in Instances \ todo : RegisteredOnce(i)
                            /\ listed = {e \in registry : e.name \notin Instances \ todo}
  /\ stage = "stale" => /\ \A i \in Instances : RegisteredOnce(i)
                        /\ listed = {e \in registry : e.name \notin Instances}
  /\ stage \in {"teams", "stale_teams", "save"} \/ (stage = "up" /\ Instances # {}) => RegistryExact

Teamed ==
  /\ stage = "teams" => \A f \in ServedFolders \ todo : f \in DOMAIN held /\ held[f] \in teams
  /\ stage \in {"stale_teams", "save"} \/ (stage = "up" /\ Instances # {}) => TeamsExist

GwInv ==
  /\ GatewayTypeOK /\ TeamsApart(held) /\ TeamsApart(cache)
  /\ stage = "endpoints" => todo \subseteq Instances
  /\ stage = "healthy" => NoZombieModels
  /\ ~past.failed => Registered /\ Teamed

LEMMA SettingsKept ==
  ASSUME settings' = settings
  PROVE  /\ Instances' = Instances /\ ServedFolders' = ServedFolders
         /\ \A i : EndpointUrl(i)' = EndpointUrl(i)
BY DEF Instances, ServedFolders, EndpointUrl

\* The id of a new entry is new.
LEMMA EntryIsNew ==
  ASSUME NEW i, NEW present, IsFiniteSet(present)
  PROVE  \E c \in Nat : /\ NewEntry(i, present) = [name |-> i, url |-> EndpointUrl(i), copy |-> c]
                        /\ NewEntry(i, present) \notin present
<1> DEFINE entry == [copy \in 0..Cardinality(present) |-> [name |-> i, url |-> EndpointUrl(i), copy |-> copy]]
<1>1. Cardinality(present) \in Nat
  BY FS_CardinalityType
<1>2. \E c \in DOMAIN entry : entry[c] \notin present
  <2> SUFFICES ASSUME \A c \in DOMAIN entry : entry[c] \in present PROVE FALSE
    OBVIOUS
  <2>1. IsFiniteSet(0..Cardinality(present)) /\ Cardinality(0..Cardinality(present)) = Cardinality(present) + 1
    BY <1>1, FS_Interval
  <2>2. entry \in [0..Cardinality(present) -> present]
    OBVIOUS
  <2>3. \A x, y \in 0..Cardinality(present) : entry[x] = entry[y] => x = y
    OBVIOUS
  <2> HIDE DEF entry
  <2>4. Cardinality(present) < Cardinality(0..Cardinality(present))
    BY <1>1, <2>1
  <2>5. \E x, y \in 0..Cardinality(present) : x # y /\ entry[x] = entry[y]
    BY <2>1, <2>2, <2>4, FS_PigeonHole
  <2> QED
    BY <2>3, <2>5
<1> DEFINE c == CHOOSE copy \in DOMAIN entry : entry[copy] \notin present
<1>3. c \in DOMAIN entry /\ entry[c] \notin present
  BY <1>2
<1>4. NewEntry(i, present) = entry[c]
  BY DEF NewEntry
<1>5. DOMAIN entry = 0..Cardinality(present) /\ \A x \in DOMAIN entry : entry[x] = [name |-> i, url |-> EndpointUrl(i), copy |-> x]
  OBVIOUS
<1> HIDE DEF entry, c
<1> QED
  BY <1>1, <1>3, <1>4, <1>5

USE DEF GatewayPast

\* Calls that failed are counted.
LEMMA FailuresCounted ==
  ASSUME GatewayTypeOK, NEW n \in Nat, ApiFailures(n)
  PROVE  /\ past' \in GatewayPast
         /\ past'.team = past.team /\ (~past'.failed => ~past.failed /\ n = 0)
<1> DEFINE more == past.failed \/ n > 0
<1>1. more \in BOOLEAN /\ (~more => ~past.failed /\ n = 0)
  OBVIOUS
<1>2. past' = [past EXCEPT !.failures = @ + n, !.failed = more] /\ past.failures + n <= MaxFailures
  BY DEF ApiFailures
<1>3. past \in GatewayPast
  BY DEF GatewayTypeOK
<1> DEFINE k == past.failures + n
<1>4. k \in 0..MaxFailures
  BY <1>2, <1>3, GatewayBounds
<1>5. past' = [past EXCEPT !.failures = k, !.failed = more]
  BY <1>2
<1> HIDE DEF more, k
<1> QED
  BY <1>1, <1>3, <1>4, <1>5

\* Nothing is missing of a finite set that lacks no element.
LEMMA NoneMissed ==
  ASSUME NEW S, IsFiniteSet(S), NEW T
  PROVE  Cardinality(S \ T) \in Nat /\ (Cardinality(S \ T) = 0 => S \subseteq T)
<1>1. IsFiniteSet(S \ T)
  BY FS_Difference
<1>2. Cardinality(S \ T) \in Nat
  BY <1>1, FS_CardinalityType
<1>3. Cardinality(S \ T) = 0 => S \ T = {}
  BY <1>1, FS_EmptySet
<1> QED
  BY <1>2, <1>3

-----------------------------------------------------------------------------
\* The start, up to the servers.

LEMMA GatewayBoots ==
  ASSUME GwInv, StartGateway \/ StartPostgres \/ WaitPostgresHealthy \/ LiteLLMStart \/ WaitHealthy
  PROVE  GwInv'
<1>1. /\ registry' = registry /\ teams' = teams /\ cache' = cache /\ listed' = listed
      /\ held' = held \/ held' = cache
      /\ past'.team = past.team
      /\ stage' \in {"down", "database", "database_up", "proxy", "healthy", "list"} \/ (stage' = "up" /\ Instances' = {})
  <2>1. CASE StartGateway
    BY <2>1 DEF GwInv, GatewayTypeOK, StartGateway, lite
  <2>2. CASE StartPostgres \/ WaitPostgresHealthy \/ LiteLLMStart
    BY <2>2 DEF StartPostgres, WaitPostgresHealthy, LiteLLMStart, Booting, Fails, lite
  <2>3. CASE WaitHealthy
    BY <2>3, SettingsKept DEF WaitHealthy, Fails, lite
  <2> QED
    BY <2>1, <2>2, <2>3
<1>2. past' \in GatewayPast
  <2>1. CASE StartGateway
    <3> DEFINE k == past.starts + 1
    <3>1. k \in 0..MaxStarts /\ past' = [past EXCEPT !.starts = k, !.failed = FALSE]
      BY <2>1, GatewayBounds DEF GwInv, GatewayTypeOK, StartGateway
    <3> HIDE DEF k
    <3> QED
      BY <3>1 DEF GwInv, GatewayTypeOK
  <2>2. CASE StartPostgres \/ WaitPostgresHealthy \/ LiteLLMStart \/ WaitHealthy
    BY <2>2 DEF GwInv, GatewayTypeOK, StartPostgres, WaitPostgresHealthy, LiteLLMStart, WaitHealthy, Booting
  <2> QED
    BY <2>1, <2>2
<1>3. settings' \in SettingsChoices /\ docker' \subseteq {"postgres", "litellm"} /\ env'.set \cap env'.placeholder = {}
  BY DEF GwInv, GatewayTypeOK, StartGateway, StartPostgres, WaitPostgresHealthy, LiteLLMStart, WaitHealthy, Booting, Fails
<1>4. served'.kept \subseteq DOMAIN ModelKeys /\ (stage' = "healthy" => NoZombieModels')
  BY DEF GwInv, GatewayTypeOK, StartGateway, StartPostgres, WaitPostgresHealthy, LiteLLMStart, WaitHealthy, Booting, Fails,
    NoZombieModels, PrepareConfig, CollectYamlEnvRefs
<1>5. GatewayTypeOK'
  BY <1>1, <1>2, <1>3, <1>4 DEF GwInv, GatewayTypeOK, Stages, TeamsApart
<1>6. TeamsApart(held)' /\ TeamsApart(cache)'
  BY <1>1 DEF GwInv, TeamsApart
<1> QED
  BY <1>1, <1>4, <1>5, <1>6 DEF GwInv, Registered, Teamed

-----------------------------------------------------------------------------
\* The registrations.

\* What the other steps have in common.
LEMMA SyncTypes ==
  ASSUME GwInv, Syncing, past' \in GatewayPast,
         past'.team = past.team, teams' = teams, cache' = cache, held' = held,
         stage' \in Stages \ {"healthy", "endpoints"} \/ (stage' = "endpoints" /\ todo' \subseteq Instances),
         IsFiniteSet(registry'), listed' \subseteq registry',
         \A e \in registry' \ registry : e = [name |-> e.name, url |-> e.url, copy |-> e.copy] /\ e.copy \in Nat,
         ~past'.failed => Registered' /\ Teamed'
  PROVE  GwInv'
<1>1. \A e \in registry' : e = [name |-> e.name, url |-> e.url, copy |-> e.copy] /\ e.copy \in Nat
  BY DEF GwInv, GatewayTypeOK
<1>2. GatewayTypeOK'
  BY <1>1 DEF GwInv, GatewayTypeOK, Stages, Syncing
<1>3. TeamsApart(held)' /\ TeamsApart(cache)'
  BY DEF GwInv, TeamsApart
<1>4. stage' = "endpoints" => todo' \subseteq Instances'
  BY SettingsKept DEF Syncing
<1> QED
  BY <1>2, <1>3, <1>4 DEF GwInv, Stages

LEMMA GatewayLists ==
  ASSUME GwInv, ListEndpoints PROVE GwInv'
<1>1. /\ stage' = "endpoints" /\ todo' = Instances /\ Syncing /\ registry' = registry
      /\ teams' = teams /\ cache' = cache /\ held' = held
      /\ (ApiFailures(0) /\ listed' = registry) \/ (ApiFailures(1) /\ listed' = {})
  BY DEF ListEndpoints, lite
<1>2. GatewayTypeOK
  BY DEF GwInv
<1>3. /\ past' \in GatewayPast
      /\ past'.team = past.team /\ (~past'.failed => listed' = registry)
  BY <1>1, <1>2, FailuresCounted
<1>4. ~past'.failed => Registered' /\ Teamed'
  BY <1>1, <1>3, SettingsKept DEF Registered, Teamed, Syncing
<1> QED
  BY <1>1, <1>2, <1>3, <1>4, SyncTypes DEF GatewayTypeOK, Stages

\* A turn of an instance that goes well leaves one entry of it, the right one.
LEMMA TurnOfInstance ==
  ASSUME GwInv, NEW i \in todo, SyncEndpoint(i), Registered, ~past'.failed, ~past.failed
  PROVE  /\ \E e : e.url = EndpointUrl(i) /\ {x \in registry' : x.name = i} = {e}
         /\ \A x : x.name # i => (x \in registry' <=> x \in registry)
<1>1. GatewayTypeOK /\ IsFiniteSet(registry) /\ IsFiniteSet(Named(i))
  <2>1. Named(i) \subseteq registry
    BY DEF Named, GwInv, GatewayTypeOK
  <2> QED
    BY <2>1, FS_Subset DEF GwInv, GatewayTypeOK
<1>2. Named(i) = {x \in registry : x.name = i}
  BY DEF Named, Registered, SyncEndpoint
<1>3. CASE \E keep \in Matching(i) : \E gone \in SUBSET (Named(i) \ {keep}) :
             registry' = registry \ gone /\ ApiFailures(Cardinality((Named(i) \ {keep}) \ gone))
  <2>1. PICK keep \in Matching(i) : \E gone \in SUBSET (Named(i) \ {keep}) :
             registry' = registry \ gone /\ ApiFailures(Cardinality((Named(i) \ {keep}) \ gone))
    BY <1>3
  <2>2. PICK gone \in SUBSET (Named(i) \ {keep}) :
             registry' = registry \ gone /\ ApiFailures(Cardinality((Named(i) \ {keep}) \ gone))
    BY <2>1
  <2>3. IsFiniteSet(Named(i) \ {keep})
    BY <1>1, FS_RemoveElement
  <2>4. Named(i) \ {keep} \subseteq gone
    BY <1>1, <2>2, <2>3, NoneMissed, FailuresCounted
  <2> QED
    BY <1>2, <2>2, <2>4 DEF Matching
<1>4. CASE \E gone \in SUBSET Named(i), made \in BOOLEAN :
             /\ registry' = IF made THEN (registry \ gone) \cup {NewEntry(i, registry \ gone)} ELSE registry \ gone
             /\ ApiFailures(Cardinality(Named(i) \ gone) + IF made THEN 0 ELSE 1)
  <2>1. PICK gone \in SUBSET Named(i), made \in BOOLEAN :
             /\ registry' = IF made THEN (registry \ gone) \cup {NewEntry(i, registry \ gone)} ELSE registry \ gone
             /\ ApiFailures(Cardinality(Named(i) \ gone) + IF made THEN 0 ELSE 1)
    BY <1>4
  <2>2. Cardinality(Named(i) \ gone) \in Nat
    BY <1>1, NoneMissed
  <2>3. made /\ Cardinality(Named(i) \ gone) = 0
    <3> DEFINE n == Cardinality(Named(i) \ gone) + IF made THEN 0 ELSE 1
    <3>1. n \in Nat /\ (n = 0 => made /\ Cardinality(Named(i) \ gone) = 0)
      BY <2>2
    <3>2. ApiFailures(n)
      BY <2>1
    <3> HIDE DEF n
    <3> QED
      BY <1>1, <3>1, <3>2, FailuresCounted
  <2>4. Named(i) \subseteq gone
    BY <1>1, <2>3, NoneMissed
  <2>5. IsFiniteSet(registry \ gone)
    BY <1>1, FS_Difference
  <2>6. PICK c \in Nat : NewEntry(i, registry \ gone) = [name |-> i, url |-> EndpointUrl(i), copy |-> c]
    BY <2>5, EntryIsNew
  <2>7. registry' = (registry \ gone) \cup {[name |-> i, url |-> EndpointUrl(i), copy |-> c]}
    BY <2>1, <2>3, <2>6
  <2> DEFINE e == [name |-> i, url |-> EndpointUrl(i), copy |-> c]
  <2>8. e.name = i /\ e.url = EndpointUrl(i)
    OBVIOUS
  <2> HIDE DEF e
  <2>9. {x \in registry' : x.name = i} = {e}
    BY <1>2, <2>4, <2>7, <2>8 DEF e
  <2>10. \A x : x.name # i => (x \in registry' <=> x \in registry)
    BY <1>2, <2>1, <2>7, <2>8 DEF e
  <2> QED
    BY <2>8, <2>9, <2>10
<1> QED
  BY <1>3, <1>4 DEF SyncEndpoint

LEMMA GatewayRegisters ==
  ASSUME GwInv, NEW i \in todo, SyncEndpoint(i) PROVE GwInv'
<1>1. /\ stage = "endpoints" /\ todo' = todo \ {i} /\ listed' = listed \ Named(i) /\ Syncing
      /\ stage' = IF todo' = {} THEN "stale" ELSE stage
      /\ teams' = teams /\ cache' = cache /\ held' = held
  BY DEF SyncEndpoint
<1>2. GatewayTypeOK /\ IsFiniteSet(registry) /\ todo \subseteq Instances /\ listed \subseteq registry /\ i \in Instances
  BY <1>1 DEF GwInv, GatewayTypeOK
<1>3. Named(i) \subseteq listed /\ Matching(i) \subseteq Named(i) /\ IsFiniteSet(Named(i))
  <2>1. Named(i) \subseteq listed /\ Matching(i) \subseteq Named(i)
    BY DEF Named, Matching
  <2> QED
    BY <1>2, <2>1, FS_Subset
<1>4. \E n \in Nat : ApiFailures(n)
  <2>1. CASE \E keep \in Matching(i) : \E gone \in SUBSET (Named(i) \ {keep}) :
               registry' = registry \ gone /\ ApiFailures(Cardinality((Named(i) \ {keep}) \ gone))
    <3>1. PICK keep \in Matching(i), gone \in SUBSET Named(i) : ApiFailures(Cardinality((Named(i) \ {keep}) \ gone))
      BY <2>1
    <3>2. IsFiniteSet(Named(i) \ {keep})
      BY <1>3, FS_RemoveElement
    <3> QED
      BY <3>1, <3>2, NoneMissed
  <2>2. CASE \E gone \in SUBSET Named(i), made \in BOOLEAN :
               /\ registry' = IF made THEN (registry \ gone) \cup {NewEntry(i, registry \ gone)} ELSE registry \ gone
               /\ ApiFailures(Cardinality(Named(i) \ gone) + IF made THEN 0 ELSE 1)
    <3>1. PICK gone \in SUBSET Named(i), made \in BOOLEAN : ApiFailures(Cardinality(Named(i) \ gone) + IF made THEN 0 ELSE 1)
      BY <2>2
    <3>2. Cardinality(Named(i) \ gone) \in Nat
      BY <1>3, NoneMissed
    <3>3. Cardinality(Named(i) \ gone) + (IF made THEN 0 ELSE 1) \in Nat
      BY <3>2
    <3> QED
      BY <3>1, <3>3
  <2> QED
    BY <2>1, <2>2 DEF SyncEndpoint
<1>5. /\ past' \in GatewayPast
      /\ past'.team = past.team /\ (~past'.failed => ~past.failed)
  BY <1>2, <1>4, FailuresCounted
<1>6. /\ IsFiniteSet(registry') /\ listed' \subseteq registry'
      /\ \A e \in registry' \ registry : e = [name |-> e.name, url |-> e.url, copy |-> e.copy] /\ e.copy \in Nat
  <2>1. PICK gone \in SUBSET Named(i) :
          registry' = registry \ gone \/ registry' = (registry \ gone) \cup {NewEntry(i, registry \ gone)}
    BY <1>3 DEF SyncEndpoint
  <2>2. IsFiniteSet(registry \ gone)
    BY <1>2, FS_Difference
  <2>3. PICK c \in Nat : NewEntry(i, registry \ gone) = [name |-> i, url |-> EndpointUrl(i), copy |-> c]
    BY <2>2, EntryIsNew
  <2>4. IsFiniteSet((registry \ gone) \cup {NewEntry(i, registry \ gone)})
    BY <2>2, FS_AddElement
  <2>5. IsFiniteSet(registry')
    BY <2>1, <2>2, <2>4
  <2>6. listed' \subseteq registry'
    BY <1>1, <1>2, <2>1
  <2> QED
    BY <2>1, <2>3, <2>5, <2>6
<1>7. ASSUME ~past'.failed PROVE Registered' /\ Teamed'
  <2>1. ~past.failed /\ Registered
    BY <1>5, <1>7 DEF GwInv
  <2>2. /\ \E e : e.url = EndpointUrl(i) /\ {x \in registry' : x.name = i} = {e}
        /\ \A x : x.name # i => (x \in registry' <=> x \in registry)
    BY <1>7, <2>1, TurnOfInstance
  <2>3. ASSUME NEW j \in Instances \ todo' PROVE RegisteredOnce(j)'
    <3>1. CASE j = i
      <4>1. PICK e : e.url = EndpointUrl(i) /\ {x \in registry' : x.name = i} = {e}
        BY <2>2
      <4>2. e \in registry'
        BY <4>1
      <4>3. EndpointUrl(i)' = EndpointUrl(i)
        BY <1>1, SettingsKept DEF Syncing
      <4> QED
        BY <3>1, <4>1, <4>2, <4>3 DEF RegisteredOnce
    <3>2. CASE j # i
      <4>1. RegisteredOnce(j)
        BY <1>1, <2>1, <2>3, <3>2 DEF Registered
      <4>2. PICK e \in registry : e.url = EndpointUrl(j) /\ {x \in registry : x.name = j} = {e}
        BY <4>1 DEF RegisteredOnce
      <4>3. {x \in registry' : x.name = j} = {e} /\ e \in registry'
        BY <2>2, <3>2, <4>2
      <4>4. EndpointUrl(j)' = EndpointUrl(j)
        BY <1>1, SettingsKept DEF Syncing
      <4> QED
        BY <4>2, <4>3, <4>4 DEF RegisteredOnce
    <3> QED
      BY <3>1, <3>2
  <2>4. listed' = {e \in registry' : e.name \notin Instances \ todo'}
    <3>1. listed = {e \in registry : e.name \notin Instances \ todo}
      BY <1>1, <2>1 DEF Registered
    <3>2. listed' = {e \in listed : e.name # i}
      BY <1>1 DEF Named
    <3>3. \A e : (e \in registry' /\ e.name \notin Instances \ todo') <=> (e \in registry /\ e.name \notin Instances \ todo /\ e.name # i)
      BY <1>1, <1>2, <2>2
    <3> QED
      BY <3>1, <3>2, <3>3
  <2>5. Instances' = Instances
    BY <1>1, SettingsKept DEF Syncing
  <2> QED
    BY <1>1, <2>3, <2>4, <2>5 DEF Registered, Teamed
<1> QED
  BY <1>1, <1>2, <1>5, <1>6, <1>7, SyncTypes DEF Stages

LEMMA GatewayForgets ==
  ASSUME GwInv, DeleteStaleEndpoints PROVE GwInv'
<1>1. /\ stage = "stale" /\ stage' = "teams" /\ todo' = ServedFolders /\ listed' = {} /\ Syncing
      /\ teams' = teams /\ cache' = cache /\ held' = held
  BY DEF DeleteStaleEndpoints
<1>2. PICK gone \in SUBSET listed : registry' = registry \ gone /\ ApiFailures(Cardinality(listed \ gone))
  BY DEF DeleteStaleEndpoints
<1>3. GatewayTypeOK /\ IsFiniteSet(registry) /\ IsFiniteSet(listed)
  BY FS_Subset DEF GwInv, GatewayTypeOK
<1>4. Cardinality(listed \ gone) \in Nat /\ (Cardinality(listed \ gone) = 0 => listed \subseteq gone)
  BY <1>3, NoneMissed
<1>5. /\ past' \in GatewayPast
      /\ past'.team = past.team /\ (~past'.failed => ~past.failed /\ listed \subseteq gone)
  BY <1>2, <1>3, <1>4, FailuresCounted
<1>6. IsFiniteSet(registry')
  BY <1>2, <1>3, FS_Difference
<1>7. ASSUME ~past'.failed PROVE Registered' /\ Teamed'
  <2>1. Registered /\ listed \subseteq gone
    BY <1>5, <1>7 DEF GwInv
  <2>2. registry' = {e \in registry : e.name \in Instances}
    BY <1>1, <1>2, <2>1 DEF Registered
  <2>3. ASSUME NEW i \in Instances PROVE RegisteredOnce(i)'
    <3>1. PICK e \in registry : e.url = EndpointUrl(i) /\ {x \in registry : x.name = i} = {e}
      BY <1>1, <2>1 DEF Registered, RegisteredOnce
    <3>2. {x \in registry' : x.name = i} = {e} /\ e \in registry'
      BY <2>2, <3>1
    <3>3. EndpointUrl(i)' = EndpointUrl(i)
      BY <1>1, SettingsKept DEF Syncing
    <3> QED
      BY <3>1, <3>2, <3>3 DEF RegisteredOnce
  <2>4. Instances' = Instances /\ ServedFolders' = ServedFolders
    BY <1>1, SettingsKept DEF Syncing
  <2> QED
    BY <1>1, <2>2, <2>3, <2>4 DEF Registered, Teamed, RegistryExact
<1> QED
  BY <1>1, <1>2, <1>5, <1>6, <1>7, SyncTypes DEF Stages

-----------------------------------------------------------------------------
\* The teams.

\* What the steps for the teams have in common: the registrations are done.
LEMMA TeamTypes ==
  ASSUME GwInv, Syncing, past' \in GatewayPast,
         registry' = registry, listed' = listed, cache' = cache,
         stage \in {"teams", "stale_teams", "save"}, stage' \in {"teams", "stale_teams", "save", "up"},
         past'.team >= past.team, teams' \subseteq 1..(past'.team - 1), TeamsApart(held)',
         ~past'.failed => ~past.failed /\ Teamed'
  PROVE  GwInv'
<1>1. past.team \in Nat /\ past'.team \in Nat
  BY DEF GwInv, GatewayTypeOK
<1>2. TeamsApart(cache)'
  BY <1>1 DEF GwInv, TeamsApart
<1>3. GatewayTypeOK'
  BY DEF GwInv, GatewayTypeOK, Stages, Syncing, TeamsApart
<1>4. Registered => Registered'
  <2>1. ASSUME RegistryExact PROVE RegistryExact'
    BY <2>1, SettingsKept DEF RegistryExact, RegisteredOnce, Syncing
  <2> QED
    BY <2>1 DEF Registered
<1> QED
  BY <1>2, <1>3, <1>4 DEF GwInv

LEMMA GatewayUpdatesTeam ==
  ASSUME GwInv, NEW f \in todo, UpdateTeam(f) PROVE GwInv'
<1>1. /\ stage = "teams" /\ todo' = todo \ {f} /\ stage' = IF todo' = {} THEN "stale_teams" ELSE stage
      /\ Syncing /\ listed' = listed /\ registry' = registry /\ cache' = cache /\ teams' = teams /\ held' = held
      /\ f \in DOMAIN held
  BY DEF UpdateTeam, NextFolder
<1>2. GatewayTypeOK /\ past \in GatewayPast
  BY DEF GwInv, GatewayTypeOK
<1>3. /\ past' \in GatewayPast
      /\ past'.team = past.team /\ (~past'.failed => ~past.failed /\ held[f] \in teams)
  <2>1. CASE held[f] \in teams /\ ApiFailures(0)
    BY <1>2, <2>1, FailuresCounted
  <2>2. CASE past' = [past EXCEPT !.failed = TRUE]
    BY <1>2, <2>2
  <2>3. CASE ApiFailures(1)
    BY <1>2, <2>3, FailuresCounted
  <2> QED
    BY <2>1, <2>2, <2>3 DEF UpdateTeam
<1>4. TeamsApart(held)'
  BY <1>1, <1>3 DEF GwInv, TeamsApart
<1>5. ASSUME ~past'.failed PROVE Teamed'
  <2>1. \A g \in ServedFolders \ todo' : g \in DOMAIN held /\ held[g] \in teams
    BY <1>1, <1>3, <1>5 DEF GwInv, Teamed
  <2>2. ServedFolders' = ServedFolders
    BY <1>1, SettingsKept DEF Syncing
  <2> QED
    BY <1>1, <2>1, <2>2 DEF Teamed, TeamsExist
<1>6. past'.team >= past.team /\ teams' \subseteq 1..(past'.team - 1)
  BY <1>1, <1>2, <1>3 DEF GatewayTypeOK
<1> QED
  BY <1>1, <1>3, <1>4, <1>5, <1>6, TeamTypes

LEMMA GatewayCreatesTeam ==
  ASSUME GwInv, NEW f \in todo, CreateTeam(f) PROVE GwInv'
<1>1. /\ stage = "teams" /\ todo' = todo \ {f} /\ stage' = IF todo' = {} THEN "stale_teams" ELSE stage
      /\ Syncing /\ listed' = listed /\ registry' = registry /\ cache' = cache
      /\ f \notin DOMAIN held
  BY DEF CreateTeam, NextFolder
<1>2. /\ GatewayTypeOK /\ TeamsApart(held) /\ teams \subseteq 1..(past.team - 1)
      /\ past \in GatewayPast
  BY DEF GwInv, GatewayTypeOK
<1>3. ServedFolders' = ServedFolders
  BY <1>1, SettingsKept DEF Syncing
<1>4. CASE ApiFailures(1) /\ teams' = teams /\ held' = held
  <2>1. /\ past' \in GatewayPast
        /\ past'.team = past.team /\ past'.failed
    BY <1>2, <1>4, FailuresCounted
  <2>2. TeamsApart(held)'
    BY <1>2, <1>4, <2>1 DEF TeamsApart
  <2> QED
    BY <1>1, <1>2, <1>4, <2>1, <2>2, TeamTypes
<1>5. CASE teams' = teams \cup {past.team} /\ held' = held /\ past.failures < MaxFailures
           /\ past' = [past EXCEPT !.team = @ + 1, !.failures = @ + 1, !.failed = TRUE]
  <2>1. /\ past' \in GatewayPast
        /\ past'.team = past.team + 1 /\ past'.failed
    <3> DEFINE t == past.team + 1
               k == past.failures + 1
    <3>1. t \in Nat \ {0} /\ k \in 0..MaxFailures
      BY <1>2, <1>5, GatewayBounds
    <3>2. past' = [past EXCEPT !.team = t, !.failures = k, !.failed = TRUE]
      BY <1>5
    <3>3. past' \in GatewayPast
          /\ past'.team = t /\ past'.failed
      <4> HIDE DEF t, k
      <4> QED
        BY <1>2, <3>1, <3>2
    <3> QED
      BY <3>3
  <2>2. TeamsApart(held)' /\ teams' \subseteq 1..(past'.team - 1) /\ past'.team >= past.team
    BY <1>2, <1>5, <2>1 DEF TeamsApart
  <2> QED
    BY <1>1, <2>1, <2>2, TeamTypes
<1>6. CASE /\ teams' = teams \cup {past.team} /\ past' = [past EXCEPT !.team = @ + 1]
           /\ held' = [g \in DOMAIN held \cup {f} |-> IF g = f THEN past.team ELSE held[g]]
  <2>1. /\ past' \in GatewayPast
        /\ past'.team = past.team + 1 /\ past'.failed = past.failed
    BY <1>2, <1>6
  <2>2. DOMAIN held' = DOMAIN held \cup {f} /\ held'[f] = past.team /\ \A g \in DOMAIN held : held'[g] = held[g]
    BY <1>1, <1>6
  <2>3. TeamsApart(held)' /\ teams' \subseteq 1..(past'.team - 1) /\ past'.team >= past.team
    BY <1>2, <1>6, <2>1, <2>2 DEF TeamsApart
  <2>4. ASSUME ~past'.failed PROVE ~past.failed /\ Teamed'
    <3>1. \A g \in ServedFolders \ todo' : g \in DOMAIN held' /\ held'[g] \in teams'
      BY <1>1, <1>6, <2>1, <2>2, <2>4 DEF GwInv, Teamed
    <3> QED
      BY <1>1, <1>3, <2>1, <2>4, <3>1 DEF Teamed, TeamsExist
  <2> QED
    BY <1>1, <2>1, <2>3, <2>4, TeamTypes
<1> QED
  BY <1>4, <1>5, <1>6 DEF CreateTeam

LEMMA GatewayDropsTeams ==
  ASSUME GwInv, DeleteStaleTeams PROVE GwInv'
<1> DEFINE stale == {held[f] : f \in DOMAIN held \ ServedFolders}
<1>1. /\ stage = "stale_teams" /\ stage' = "save" /\ Syncing
      /\ held' = [f \in DOMAIN held \cap ServedFolders |-> held[f]]
      /\ listed' = listed /\ registry' = registry /\ cache' = cache
  BY DEF DeleteStaleTeams
<1>2. PICK gone \in SUBSET (stale \cap teams) :
        teams' = teams \ gone /\ ApiFailures(Cardinality((stale \cap teams) \ gone))
  BY DEF DeleteStaleTeams
<1>3. /\ GatewayTypeOK /\ TeamsApart(held) /\ teams \subseteq 1..(past.team - 1)
      /\ past \in GatewayPast
  BY DEF GwInv, GatewayTypeOK
<1> HIDE DEF stale
<1>4. IsFiniteSet(stale \cap teams)
  <2>1. past.team \in Nat
    BY <1>3
  <2>2. IsFiniteSet(1..(past.team - 1))
    BY <2>1, FS_Interval
  <2>3. IsFiniteSet(teams)
    BY <1>3, <2>2, FS_Subset
  <2> QED
    BY <2>3, FS_Intersection
<1>5. /\ past' \in GatewayPast
      /\ past'.team = past.team /\ (~past'.failed => ~past.failed)
  BY <1>2, <1>3, <1>4, NoneMissed, FailuresCounted
<1>6. DOMAIN held' = DOMAIN held \cap ServedFolders /\ \A f \in DOMAIN held' : held'[f] = held[f]
  BY <1>1
<1>7. TeamsApart(held)'
  BY <1>3, <1>5, <1>6 DEF TeamsApart
<1>8. past'.team >= past.team /\ teams' \subseteq 1..(past'.team - 1)
  <2>1. past.team \in Nat /\ teams' \subseteq teams
    BY <1>2, <1>3
  <2> QED
    BY <1>3, <1>5, <2>1
<1>9. ASSUME ~past'.failed PROVE ~past.failed /\ Teamed'
  <2>1. ~past.failed /\ TeamsExist
    BY <1>1, <1>5, <1>9 DEF GwInv, Teamed
  <2>2. \A f \in ServedFolders : f \in DOMAIN held' /\ held'[f] \in teams'
    <3>1. TAKE f \in ServedFolders
    <3>2. f \in DOMAIN held /\ held[f] \in teams
      BY <2>1 DEF TeamsExist
    <3>3. held[f] \notin stale
      BY <1>3, <3>2 DEF TeamsApart, stale
    <3> QED
      BY <1>2, <1>6, <3>2, <3>3
  <2>3. ServedFolders' = ServedFolders
    BY <1>1, SettingsKept DEF Syncing
  <2> QED
    BY <1>1, <2>1, <2>2, <2>3 DEF Teamed, TeamsExist
<1> QED
  BY <1>1, <1>5, <1>7, <1>8, <1>9, TeamTypes

LEMMA GatewaySaves ==
  ASSUME GwInv, SaveTeamsCache PROVE GwInv'
<1>1. /\ stage = "save" /\ stage' = "up" /\ cache' = held /\ Syncing
      /\ listed' = listed /\ held' = held /\ registry' = registry /\ teams' = teams /\ past' = past
  BY DEF SaveTeamsCache
<1>2. Instances' = Instances /\ ServedFolders' = ServedFolders /\ \A i : EndpointUrl(i)' = EndpointUrl(i)
  BY <1>1, SettingsKept DEF Syncing
<1>3. GatewayTypeOK' /\ TeamsApart(held)' /\ TeamsApart(cache)'
  BY <1>1 DEF GwInv, GatewayTypeOK, TeamsApart, Stages, Syncing
<1>4. RegistryExact /\ TeamsExist => RegistryExact' /\ TeamsExist'
  BY <1>1, <1>2 DEF RegistryExact, RegisteredOnce, TeamsExist
<1> QED
  BY <1>1, <1>2, <1>3, <1>4 DEF GwInv, Registered, Teamed

LEMMA GatewayStops ==
  ASSUME GwInv, StopGateway \/ HostDies PROVE GwInv'
<1>1. /\ stage' = "down" /\ (docker' = {} \/ docker' = docker) /\ held' = <<>> /\ (cache' = cache \/ cache' = <<>>)
      /\ (listed' = listed \/ listed' = {})
      /\ settings' = settings /\ env' = env /\ served' = served /\ registry' = registry /\ teams' = teams /\ past' = past
  BY DEF StopGateway, HostDies, lite
<1>2. DOMAIN held' = {} /\ (cache' = cache \/ DOMAIN cache' = {})
  BY <1>1
<1>3. TeamsApart(held)' /\ TeamsApart(cache)'
  BY <1>1, <1>2 DEF GwInv, TeamsApart
<1>4. GatewayTypeOK'
  BY <1>1, <1>2 DEF GwInv, GatewayTypeOK, Stages
<1> QED
  BY <1>1, <1>3, <1>4 DEF GwInv, Registered, Teamed

LEMMA GatewaySteps == GwInv /\ [GatewayNext]_gateway_vars => GwInv'
<1> SUFFICES ASSUME GwInv, [GatewayNext]_gateway_vars PROVE GwInv'
  OBVIOUS
<1>1. CASE UNCHANGED gateway_vars
  <2>1. /\ stage' = stage /\ settings' = settings /\ env' = env /\ docker' = docker /\ served' = served
        /\ listed' = listed /\ todo' = todo /\ held' = held /\ past' = past /\ registry' = registry
        /\ teams' = teams /\ cache' = cache
    BY <1>1 DEF gateway_vars, lite
  <2>2. Instances' = Instances /\ ServedFolders' = ServedFolders /\ \A i : EndpointUrl(i)' = EndpointUrl(i)
    BY <2>1, SettingsKept
  <2>3. GatewayTypeOK' /\ TeamsApart(held)' /\ TeamsApart(cache)' /\ (stage' = "healthy" => NoZombieModels')
    BY <2>1 DEF GwInv, GatewayTypeOK, TeamsApart, NoZombieModels
  <2>4. \A i : RegisteredOnce(i)' <=> RegisteredOnce(i)
    BY <2>1, <2>2 DEF RegisteredOnce
  <2>5. RegistryExact' <=> RegistryExact
    BY <2>1, <2>2, <2>4 DEF RegistryExact
  <2>6. (Registered => Registered') /\ (Teamed => Teamed')
    BY <2>1, <2>2, <2>4, <2>5 DEF Registered, Teamed, TeamsExist
  <2> QED
    BY <2>1, <2>2, <2>3, <2>6 DEF GwInv
<1>2. CASE StartGateway \/ StartPostgres \/ WaitPostgresHealthy \/ LiteLLMStart \/ WaitHealthy
  BY <1>2, GatewayBoots
<1>3. ASSUME NEW i \in todo, SyncEndpoint(i) \/ CreateTeam(i) \/ UpdateTeam(i) PROVE GwInv'
  BY <1>3, GatewayRegisters, GatewayCreatesTeam, GatewayUpdatesTeam
<1> QED
  BY <1>1, <1>2, <1>3, GatewayLists, GatewayForgets, GatewayDropsTeams, GatewaySaves, GatewayStops
  DEF GatewayNext, StartStep

LEMMA GatewayStarts == GatewayInit => GwInv
<1> SUFFICES ASSUME GatewayInit PROVE GwInv
  OBVIOUS
<1>1. settings \in SettingsChoices
  BY SettingsAreTables DEF GatewayInit
<1>2. DOMAIN held = {} /\ DOMAIN cache = {} /\ stage = "down"
  BY DEF GatewayInit
<1>3. past \in GatewayPast
  BY GatewayBounds DEF GatewayInit
<1>4. GatewayTypeOK
  BY <1>1, <1>2, <1>3, FS_EmptySet DEF GatewayInit, GatewayTypeOK, Stages
<1> QED
  BY <1>2, <1>4 DEF GwInv, TeamsApart, Registered, Teamed
HIDE DEF GatewayPast

-----------------------------------------------------------------------------
\* The instances of a configuration.

LEMMA FiniteImage ==
  ASSUME NEW S, IsFiniteSet(S), NEW f, f = [x \in S |-> f[x]]
  PROVE  IsFiniteSet({f[x] : x \in S})
<1> DEFINE T == {f[x] : x \in S}
<1>1. f \in Surjection(S, T)
  BY DEF Surjection
<1> HIDE DEF T
<1>2. IsFiniteSet(T)
  BY <1>1, FS_Surjection
<1> QED
  BY <1>2 DEF T

LEMMA ListDomain ==
  ASSUME NEW s, s \in Seq(ToSet(s))
  PROVE  Len(s) \in Nat /\ DOMAIN s = 1..Len(s) /\ IsFiniteSet(DOMAIN s)
<1>1. Len(s) \in Nat /\ DOMAIN s = 1..Len(s)
  OBVIOUS
<1>2. IsFiniteSet(1..Len(s))
  BY <1>1, FS_Interval
<1> QED
  BY <1>1, <1>2

LEMMA ServersFinite ==
  ASSUME NEW s \in SettingsChoices PROVE IsFiniteSet(DOMAIN MergedMcpServers(s))
<1> DEFINE plain == {<<n>> : n \in DOMAIN s.servers \ DOMAIN s.templates}
           Made(t) == {<<t, s.templates[t][i]>> : i \in DOMAIN s.templates[t]}
           used == DOMAIN s.templates \cap DOMAIN s.servers
           made == UNION {Made(t) : t \in used}
<1>1. DOMAIN MergedMcpServers(s) = plain \cup made
  BY DEF MergedMcpServers
<1>2. IsFiniteSet(DOMAIN s.servers) /\ \A t \in DOMAIN s.templates : s.templates[t] \in Seq(ToSet(s.templates[t]))
  BY SettingsAreTables
<1>3. IsFiniteSet(plain)
  <2> DEFINE S == DOMAIN s.servers \ DOMAIN s.templates
             f == [n \in S |-> <<n>>]
  <2>1. IsFiniteSet(S)
    BY <1>2, FS_Difference
  <2>2. plain = {f[n] : n \in S} /\ f = [n \in S |-> f[n]]
    OBVIOUS
  <2> HIDE DEF S, f, plain
  <2> QED
    BY <2>1, <2>2, FiniteImage
<1>4. ASSUME NEW t \in used PROVE IsFiniteSet(Made(t))
  <2> DEFINE S == DOMAIN s.templates[t]
             f == [i \in S |-> <<t, s.templates[t][i]>>]
  <2>1. IsFiniteSet(S)
    BY <1>2, ListDomain
  <2>2. Made(t) = {f[i] : i \in S} /\ f = [i \in S |-> f[i]]
    OBVIOUS
  <2> HIDE DEF S, f, Made
  <2> QED
    BY <2>1, <2>2, FiniteImage
<1>5. IsFiniteSet({Made(t) : t \in used})
  <2> DEFINE f == [t \in used |-> Made(t)]
  <2>1. IsFiniteSet(used)
    BY <1>2, FS_Intersection
  <2>2. {Made(t) : t \in used} = {f[t] : t \in used} /\ f = [t \in used |-> f[t]]
    BY Zenon
  <2> HIDE DEF f, used, Made
  <2> QED
    BY <2>1, <2>2, FiniteImage
<1>6. IsFiniteSet(made)
  <2> HIDE DEF Made, used
  <2> QED
    BY <1>4, <1>5, FS_UNION
<1> HIDE DEF plain, made
<1> QED
  BY <1>1, <1>3, <1>6, FS_Union

LEMMA InstancesFinite ==
  ASSUME NEW s \in SettingsChoices PROVE IsFiniteSet(AllInstances(s))
<1>1. ASSUME NEW w PROVE IsFiniteSet(InstancesOf(s, w))
  <2> DEFINE S == ResolveWorkspaceServers(s, w)
             f == [n \in S |-> GetInstanceId(n, ResolveKwargs(s, w, n))]
  <2>1. S \subseteq DOMAIN MergedMcpServers(s)
    BY DEF ResolveWorkspaceServers
  <2>2. IsFiniteSet(S)
    BY <2>1, ServersFinite, FS_Subset
  <2>3. InstancesOf(s, w) = {f[n] : n \in S} /\ f = [n \in S |-> f[n]]
    BY DEF InstancesOf
  <2> HIDE DEF S, f
  <2> QED
    BY <2>2, <2>3, FiniteImage
<1> DEFINE f == [k \in DOMAIN s.workspaces |-> InstancesOf(s, s.workspaces[k])]
<1>2. IsFiniteSet(DOMAIN s.workspaces)
  BY SettingsAreTables, ListDomain
<1>3. /\ AllInstances(s) = UNION {f[k] : k \in DOMAIN s.workspaces}
      /\ f = [k \in DOMAIN s.workspaces |-> f[k]]
      /\ \A k \in DOMAIN s.workspaces : IsFiniteSet(f[k])
  BY <1>1 DEF AllInstances
<1> HIDE DEF f
<1>4. IsFiniteSet({f[k] : k \in DOMAIN s.workspaces})
  BY <1>2, <1>3, FiniteImage
<1> QED
  BY <1>3, <1>4, FS_UNION

\* A workspace has one instance of a server.
LEMMA OneOfAServer ==
  ASSUME NEW s, NEW w, NEW i \in InstancesOf(s, w)
  PROVE  i = <<i[1], ResolveKwargs(s, w, i[1])>> /\ i[1] \in DOMAIN MergedMcpServers(s)
BY DEF InstancesOf, GetInstanceId, ResolveWorkspaceServers

LEMMA FirstUserExists ==
  ASSUME NEW s \in SettingsChoices, NEW i \in AllInstances(s)
  PROVE  /\ FirstUser(s, i) \in DOMAIN s.workspaces /\ FirstUser(s, i) \in Nat
         /\ i \in InstancesOf(s, s.workspaces[FirstUser(s, i)])
<1> DEFINE S == {k \in DOMAIN s.workspaces : i \in InstancesOf(s, s.workspaces[k])}
<1>1. Len(s.workspaces) \in Nat /\ DOMAIN s.workspaces = 1..Len(s.workspaces)
  BY SettingsAreTables, ListDomain
<1>2. S \subseteq Nat /\ S # {}
  BY <1>1 DEF AllInstances
<1>3. PICK k \in S : \A j \in S : k <= j
  <2> HIDE DEF S
  <2> QED
    BY <1>2, LeastOf
<1>4. \A j \in 1..(k - 1) : i \notin InstancesOf(s, s.workspaces[j])
  BY <1>1, <1>3
<1>5. FirstUser(s, i) \in DOMAIN s.workspaces /\ i \in InstancesOf(s, s.workspaces[FirstUser(s, i)])
  BY <1>3, <1>4 DEF FirstUser
<1> QED
  BY <1>1, <1>5

LEMMA PortIsNumber ==
  ASSUME NEW s \in SettingsChoices, NEW n \in DOMAIN MergedMcpServers(s)
  PROVE  MergedMcpServers(s)[n].port \in Nat
<1> DEFINE plain == {<<m>> : m \in DOMAIN s.servers \ DOMAIN s.templates}
           made == UNION {{<<t, s.templates[t][i]>> : i \in DOMAIN s.templates[t]} :
                          t \in DOMAIN s.templates \cap DOMAIN s.servers}
           place == CHOOSE i \in DOMAIN s.templates[n[1]] : s.templates[n[1]][i] = n[2]
           port == IF Len(n) = 1 THEN s.servers[n[1]].port ELSE s.servers[n[1]].port + place - 1
<1>1. n \in plain \cup made /\ MergedMcpServers(s)[n] = [s.servers[n[1]] EXCEPT !.port = port]
  BY DEF MergedMcpServers
<1>2. \A m \in DOMAIN s.servers : s.servers[m] \in ServerConfig
  BY SettingsAreTables
<1>3. n[1] \in DOMAIN s.servers
  BY <1>1
<1>4. CASE n \in plain
  <2>1. Len(n) = 1
    BY <1>4
  <2>2. port \in Nat
    BY <1>2, <1>3, <2>1 DEF ServerConfig
  <2> HIDE DEF port
  <2> QED
    BY <1>1, <1>2, <1>3, <2>2 DEF ServerConfig
<1>5. CASE n \in made
  <2>1. PICK t \in DOMAIN s.templates : \E i \in DOMAIN s.templates[t] : n = <<t, s.templates[t][i]>>
    BY <1>5
  <2>2. Len(n) = 2 /\ n[1] = t /\ \E i \in DOMAIN s.templates[t] : n[2] = s.templates[t][i]
    BY <2>1
  <2>3. place \in DOMAIN s.templates[t]
    BY <2>2
  <2>4. DOMAIN s.templates[t] = 1..Len(s.templates[t]) /\ Len(s.templates[t]) \in Nat
    BY SettingsAreTables, ListDomain
  <2>5. port \in Nat
    <3> HIDE DEF place
    <3> QED
      BY <1>2, <1>3, <2>2, <2>3, <2>4 DEF ServerConfig
  <2> HIDE DEF port
  <2> QED
    BY <1>1, <1>2, <1>3, <2>5 DEF ServerConfig
<1> QED
  BY <1>1, <1>4, <1>5

\* Among instances of a server, the later made has the higher port.
LEMMA OffsetsGrow ==
  ASSUME NEW s \in SettingsChoices, NEW i \in AllInstances(s), NEW j \in AllInstances(s),
         i[1] = j[1], FirstUser(s, i) < FirstUser(s, j)
  PROVE  PortOffset(s, i) \in Nat /\ PortOffset(s, j) \in Nat /\ PortOffset(s, i) < PortOffset(s, j)
<1> DEFINE Before(k) == {x \in AllInstances(s) : x[1] = k[1] /\ FirstUser(s, x) < FirstUser(s, k)}
<1>1. \A x \in AllInstances(s) : FirstUser(s, x) \in Nat
  BY FirstUserExists
<1>2. Before(i) \subseteq Before(j) /\ i \in Before(j) /\ i \notin Before(i)
  BY <1>1
<1>3. IsFiniteSet(Before(j))
  BY InstancesFinite, FS_Subset
<1>4. PortOffset(s, i) = Cardinality(Before(i)) /\ PortOffset(s, j) = Cardinality(Before(j))
  BY DEF PortOffset
<1> HIDE DEF Before
<1>5. /\ IsFiniteSet(Before(i)) /\ Cardinality(Before(i)) <= Cardinality(Before(j))
      /\ Cardinality(Before(j)) # Cardinality(Before(i))
  BY <1>2, <1>3, FS_Subset
<1>6. Cardinality(Before(i)) \in Nat /\ Cardinality(Before(j)) \in Nat
  BY <1>3, <1>5, FS_CardinalityType
<1> QED
  BY <1>4, <1>5, <1>6

LEMMA PortsStayApart == settings \in SettingsChoices => PortsApart
<1> SUFFICES ASSUME settings \in SettingsChoices, NEW i \in Instances, NEW j \in Instances, i # j, i[1] = j[1]
             PROVE  ResolveAllInstances(settings)[i].port # ResolveAllInstances(settings)[j].port
  BY DEF PortsApart
<1>1. i \in AllInstances(settings) /\ j \in AllInstances(settings)
  BY DEF Instances, ResolveAllInstances
<1> DEFINE port == MergedMcpServers(settings)[i[1]].port
<1>2. /\ ResolveAllInstances(settings)[i].port = port + PortOffset(settings, i)
      /\ ResolveAllInstances(settings)[j].port = port + PortOffset(settings, j)
  BY <1>1 DEF ResolveAllInstances
<1>3. /\ i \in InstancesOf(settings, settings.workspaces[FirstUser(settings, i)])
      /\ j \in InstancesOf(settings, settings.workspaces[FirstUser(settings, j)])
      /\ FirstUser(settings, i) \in Nat /\ FirstUser(settings, j) \in Nat
  BY <1>1, FirstUserExists
<1>4. FirstUser(settings, i) # FirstUser(settings, j)
  BY <1>3, OneOfAServer
<1>5. port \in Nat
  BY <1>3, OneOfAServer, PortIsNumber
<1>6. /\ PortOffset(settings, i) \in Nat /\ PortOffset(settings, j) \in Nat
      /\ PortOffset(settings, i) # PortOffset(settings, j)
  <2>1. CASE FirstUser(settings, i) < FirstUser(settings, j)
    BY <1>1, <2>1, OffsetsGrow
  <2>2. CASE FirstUser(settings, j) < FirstUser(settings, i)
    BY <1>1, <2>2, OffsetsGrow
  <2> QED
    BY <1>3, <1>4, <2>1, <2>2
<1> HIDE DEF port
<1> QED
  BY <1>2, <1>5, <1>6

\* What a workspace is given are the instances of its own entries.
LEMMA GivenItsOwn ==
  ASSUME settings \in SettingsChoices, NEW w \in ToSet(settings.workspaces), NEW i \in GetDirectServerConfigs(w.folder)
  PROVE  i \in InstancesOf(settings, w)
<1> DEFINE used == {u \in ToSet(settings.workspaces) : InstancesOf(settings, u) # {}}
           u == CHOOSE u \in used : u.folder = w.folder
<1>1. w.folder \in DOMAIN WorkspaceInstances(settings) /\ i \in WorkspaceInstances(settings)[w.folder]
  BY DEF GetDirectServerConfigs, ServedFolders
<1>2. (\E x \in used : x.folder = w.folder) /\ i \in InstancesOf(settings, u)
  BY <1>1 DEF WorkspaceInstances
<1>3. u \in ToSet(settings.workspaces) /\ u.folder = w.folder
  BY <1>2
<1>4. u = w
  <2> HIDE DEF u
  <2>1. PICK j \in DOMAIN settings.workspaces, k \in DOMAIN settings.workspaces :
          u = settings.workspaces[j] /\ w = settings.workspaces[k]
    BY <1>3 DEF ToSet
  <2> QED
    BY <1>3, <2>1, SettingsAreTables
<1> QED
  BY <1>2, <1>4

LEMMA FoldersStayApart == settings \in SettingsChoices => FoldersApart
<1> SUFFICES ASSUME settings \in SettingsChoices, NEW v \in ToSet(settings.workspaces), NEW w \in ToSet(settings.workspaces),
                    v.folder # w.folder,
                    NEW i \in GetDirectServerConfigs(v.folder) \cap GetDirectServerConfigs(w.folder),
                    MergedMcpServers(settings)[i[1]].inject,
                    "workspace" \notin ConfiguredKeys(settings, v, i[1]) \cup ConfiguredKeys(settings, w, i[1])
             PROVE  FALSE
  BY DEF FoldersApart
<1>1. i \in InstancesOf(settings, v) /\ i \in InstancesOf(settings, w)
  BY GivenItsOwn
<1>2. i = <<i[1], ResolveKwargs(settings, v, i[1])>> /\ i = <<i[1], ResolveKwargs(settings, w, i[1])>>
  BY <1>1, OneOfAServer
<1>3. ResolveKwargs(settings, v, i[1]) = ResolveKwargs(settings, w, i[1])
  BY <1>2
<1>4. /\ ResolveKwargs(settings, v, i[1])["workspace"] = <<v.folder>>
      /\ ResolveKwargs(settings, w, i[1])["workspace"] = <<w.folder>>
  BY DEF ResolveKwargs
<1> QED
  BY <1>3, <1>4

-----------------------------------------------------------------------------
\* Whatever calls fail, the host dies between, and the configuration becomes: if no
\* call has failed since the start, what the start has done so far is right, and
\* each folder has a team of its own (mcp/litellm.py, mcp/manager.py).
THEOREM GatewayInvariant == GatewaySpec => []GwInv
BY GatewayStarts, GatewaySteps, PTL DEF GatewaySpec

LEMMA GatewayInvSound == GwInv => GatewaySound
<1> SUFFICES ASSUME GwInv PROVE GatewaySound
  OBVIOUS
<1>1. settings \in SettingsChoices
  BY DEF GwInv, GatewayTypeOK
<1>2. PortsApart /\ FoldersApart
  BY <1>1, PortsStayApart, FoldersStayApart
<1> QED
  BY <1>2 DEF GwInv, GatewaySound, Registered, Teamed

\* After a start none of whose calls failed every instance is registered once and
\* every workspace has a team that exists, instances of a server have ports of
\* their own and do not serve two folders, and no model is offered without its key:
\* for any set of configurations and any history of failures and deaths
\* (mcp/litellm.py, mcp/resolution.py, gateway_litellm.py).
THEOREM GatewayStaysSound == GatewaySpec => []GatewaySound
BY GatewayInvSound, GatewayInvariant, PTL

-----------------------------------------------------------------------------
\* Side by side: a step of the host is a step of the component whose turn it is
\* and leaves the others alone.

HostInv == SInv /\ DInv /\ GInv /\ GwInv

LEMMA HostStarts == HostInit => HostInv
BY SchedulerStarts, InitDInv, DeployBounds, GitStarts, GatewayStarts DEF HostInit, HostInv

LEMMA HostMoves ==
  ASSUME [HostNext]_host_vars
  PROVE  [SchedulerNext]_scheduler_vars /\ [DeployNext]_dep_vars /\ [GitNext]_git_vars
         /\ [GatewayNext]_gateway_vars
BY DEF HostNext, host_vars, SchedulerMoves, DeployMoves, GitMoves, GatewayMoves

\* The invariants of the four components hold while they run side by side.
THEOREM HostInvariant == HostSpec => []HostInv
<1>1. SInv /\ [SchedulerNext]_scheduler_vars => SInv'
  BY SchedulerSteps, SchedulerStutters
<1>2. DInv /\ [DeployNext]_dep_vars => DInv'
  BY NextDInv
<1>3. GInv /\ [GitNext]_git_vars => GInv'
  BY GitSteps, GitStutters
<1>4. HostInv /\ [HostNext]_host_vars => HostInv'
  BY <1>1, <1>2, <1>3, GatewaySteps, HostMoves DEF HostInv
<1> QED
  BY <1>4, HostStarts, PTL DEF HostSpec

\* What the run checks of them, for every configuration, number of tasks,
\* deployments, worktrees, commits, tool servers and workspaces.
THEOREM HostStaysSound == HostSpec => [](SchedulerSound /\ DeploySound /\ GitSound /\ GatewaySound)
<1>1. SInv => SchedulerSound
  BY SchedulerInvSound
<1>2. DInv => DeploySound
  BY DeployInvSound
<1>3. GInv => GitSound
  BY GitInvSound
<1>4. HostInv => SchedulerSound /\ DeploySound /\ GitSound /\ GatewaySound
  BY <1>1, <1>2, <1>3, GatewayInvSound DEF HostInv
<1> QED
  BY <1>4, HostInvariant, PTL

\* Their variables have their types.
THEOREM HostStaysTyped == HostSpec => []HostTypeOK
<1>1. SInv => SchedulerTypeOK
  BY DEF SInv
<1>2. GwInv => GatewayTypeOK
  BY DEF GwInv
<1>3. HostInv => HostTypeOK
  BY <1>1, <1>2, DeployTyped, GitTyped DEF HostInv, HostTypeOK
<1> QED
  BY <1>3, HostInvariant, PTL

\* Beside the other components too, a pause holds until a resume, and main
\* keeps every change.
THEOREM HostKeepsWhatItHas == HostSpec => PauseHolds /\ MainKeepsChanges
<1>1. SInv /\ [HostNext]_host_vars
      => [\A i \in Ids :
            /\ rows[i].status = "paused" /\ rows'[i].status = "active" => \E s \in Folders : HandleResumeTask(s, i)
            /\ rows[i].status = "gone" => rows'[i].status = "gone"
            /\ hostjob.status = "paused" /\ hostjob'.status = "active" => HostJobAction(Admin, "active")
            /\ hostjob.status = "gone" => hostjob'.status = "gone"]_scheduler_vars
  <2>1. [PauseKept]_scheduler_vars
        => [\A i \in Ids :
              /\ rows[i].status = "paused" /\ rows'[i].status = "active" => \E s \in Folders : HandleResumeTask(s, i)
              /\ rows[i].status = "gone" => rows'[i].status = "gone"
              /\ hostjob.status = "paused" /\ hostjob'.status = "active" => HostJobAction(Admin, "active")
              /\ hostjob.status = "gone" => hostjob'.status = "gone"]_scheduler_vars
    BY DEF PauseKept
  <2> QED
    BY <2>1, HostMoves, SchedulerSteps
<1>2. GInv /\ [HostNext]_host_vars => [ToSet(main) \subseteq ToSet(main')]_git_vars
  BY HostMoves, GitSteps
<1>3. HostInv => SInv /\ GInv
  BY DEF HostInv
<1> QED
  BY <1>1, <1>2, <1>3, HostInvariant, PTL DEF HostSpec, PauseHolds, MainKeepsChanges
=============================================================================

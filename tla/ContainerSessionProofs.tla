----------------------- MODULE ContainerSessionProofs -----------------------
(***************************************************************************)
(* Proofs about the container, its session and the run that uses them, for *)
(* every number of runs, follow-ups and faults.  The inductive invariant   *)
(* SInv says what the code relies on without saying it: only the           *)
(* registered session can be alive, the registry is empty while a run      *)
(* prepares a container, and an item is written to one place once.         *)
(***************************************************************************)
EXTENDS ContainerSession, TLAPS

-----------------------------------------------------------------------------
(* The inductive invariant.                                                *)

Preparing == run.pc \in {"clean", "setup", "ensure", "remove", "spawn"}

\* A run that is still preparing has not spawned its container.
SpawnsLeft == Preparing => spawned < run_count

\* The session of a run, and whose process the group state knows.
RunKnowsSession ==
  /\ run.session \in 0..spawned
  /\ run.pc # "idle" => run.item # None
  /\ run.pc \in {"ensure", "await"} => run.session # None /\ registry \in {None, run.session}
  /\ run.pc = "await" => registered = run.session

\* Nobody is registered when a container is about to be started or destroyed.
NobodyRegistered ==
  /\ run.pc \in {"remove", "spawn", "destroy"} => registry = None
  /\ run.kind = "task" /\ run.pc \in {"clean", "setup"} => registry = None

\* A container to come has a name nobody has.
NamesInUse == \A c \in Cs : con[c].name <= spawned /\ con[c].code # 125

StableNameFree ==
  run.pc = "spawn" /\ run.kind = "message" => \A c \in Cs : Live(c) => con[c].name # StableName

\* A session that is stopped or whose process has ended is dead, one whose query is done
\* has no handler, and its timer runs only then.
SessionOK(s) ==
  /\ s.stop # "none" \/ s.returned => s.dead
  /\ s.done => s.handler = None \/ s.dead
  /\ s.idle = "armed" => s.handler = None

SessionParts == \A c \in Cs : SessionOK(ses[c])

NotYet == \A c \in Cs : c > spawned => ~Live(c) /\ con[c].items = {}

\* Only the registered container can be live with a session that is not dead.
OneUndead == \A c \in Cs : Live(c) /\ ~ses[c].dead => registry = c

\* Items so far, and the one of a run that has not been handed over.
Known == 1..(run_count + followups)
There == input \cup {initial} \cup UNION {con[c].items : c \in Cs}

KnownItems == There \subseteq Known \cup {None} /\ run.item \in Known \cup {None}
ItemIsNew == Preparing => run.item \notin There

\* What waits in the files is meant for the container that will read it.
FilesAddressed ==
  \A c \in Cs : Live(c) /\ ~ses[c].dead =>
    /\ \A i \in input : written_for[i] = c
    /\ con[c].phase = "boot" /\ initial # None => written_for[initial] = c

RunParts ==
  /\ SpawnsLeft /\ RunKnowsSession /\ NobodyRegistered
  /\ StableNameFree /\ ItemIsNew /\ HandlerOfLiveRun
OtherParts ==
  /\ NamesInUse /\ SessionParts /\ NotYet /\ OneUndead
  /\ FilesAddressed /\ InputReachesItsContainer

SInv == STypeOK /\ RunParts /\ OtherParts /\ KnownItems

-----------------------------------------------------------------------------
(* The types of the variables, one by one.                                 *)

Containers == [name : Cs \cup {None}, phase : {"none", "boot", "query", "wait", "exited"},
               code : {0, 1, 125}, items : SUBSET Items]
Sessions == [dead : BOOLEAN, returned : BOOLEAN, done : BOOLEAN,
             died : BOOLEAN, handler : Items \cup {None}, idle : {"off", "armed", "fired"},
             stop : {"none", "stopping", "waiting", "removing", "done"}]
Runs == [pc : {"idle", "clean", "setup", "ensure", "remove", "spawn", "await", "destroy"},
         kind : {"message", "task"}, item : Items \cup {None},
         session : Cs \cup {None}, result : {"none", "success", "error"}]
Stoppers == [pc : {"idle", "request", "destroy"}, target : Cs \cup {None}]
OutputFiles == [kind : {"answer", "pulse"}, items : SUBSET Items]

RegistryOK ==
  /\ registry \in 0..spawned /\ registered \in 0..spawned
  /\ registered # None => run.pc \in {"await", "destroy"}
FilesOK ==
  /\ input \subseteq Items /\ initial \in Items \cup {None} /\ close \in BOOLEAN
  /\ output \in Seq(OutputFiles)
  /\ watcher \in [kind : {"none", "answer", "pulse"}, items : SUBSET Items]
  /\ written_for \in [Items -> Cs \cup {None}]
CountsOK ==
  /\ run_count \in 0..MaxRuns /\ followups \in 0..MaxFollowUps /\ spawned \in 0..run_count
  /\ faults \in 0..MaxFaults

LEMMA TypesOneByOne ==
  STypeOK <=> /\ con \in [Cs -> Containers] /\ ses \in [Cs -> Sessions] /\ run \in Runs
              /\ stopper \in Stoppers /\ RegistryOK /\ FilesOK /\ CountsOK
  BY DEF STypeOK, Containers, Sessions, Runs, Stoppers, OutputFiles, RegistryOK, FilesOK, CountsOK

LEMMA TypesOneByOnePrimed ==
  STypeOK' <=> /\ con' \in [Cs -> Containers] /\ ses' \in [Cs -> Sessions] /\ run' \in Runs
               /\ stopper' \in Stoppers /\ RegistryOK' /\ FilesOK' /\ CountsOK'
  BY DEF STypeOK, Containers, Sessions, Runs, Stoppers, OutputFiles, RegistryOK, FilesOK, CountsOK,
         Cs, Items

-----------------------------------------------------------------------------
(* Winding down: containers exit, sessions die, files are read.            *)

Dying(r, q) == q = r \/ \E code \in {0, 1} : q = Exited(r, code)

Fading(s, t) ==
  /\ SessionOK(t)
  /\ s.dead => t.dead
  /\ s.returned => t.returned
  /\ t.handler # None => t.handler = s.handler

WindsDown ==
  /\ \A c \in Cs : Dying(con[c], con'[c])
  /\ \A c \in Cs : Fading(ses[c], ses'[c])
  /\ registry' # registry => registry' = None /\ (registry # None => ses'[registry].dead)
  /\ input' \subseteq input /\ initial' \in {initial, None}
  /\ UNCHANGED <<spawned, followups, written_for>> /\ run_count' \in Nat /\ run_count' >= run_count

LEMMA ExitedIsContainer ==
  ASSUME NEW r \in Containers, NEW code \in {0, 1}
  PROVE  /\ Exited(r, code) \in Containers
         /\ Exited(r, code).name = r.name /\ Exited(r, code).phase = "exited"
         /\ Exited(r, code).code = code /\ Exited(r, code).items = {}
  BY DEF Exited, Containers

LEMMA DyingFields ==
  ASSUME NEW r \in Containers, NEW q, Dying(r, q)
  PROVE  /\ q.name = r.name /\ q.items \subseteq r.items
         /\ q.phase = r.phase \/ q.phase = "exited"
         /\ q.code = r.code \/ q.code \in {0, 1}
  BY ExitedIsContainer DEF Dying

\* A step that only winds down keeps what is said of containers, sessions and files.
LEMMA WindingDown ==
  ASSUME SInv, WindsDown
  PROVE  /\ OtherParts'
         /\ There' \subseteq There \cup {None}
         /\ There' \subseteq Known' \cup {None} /\ Known \subseteq Known'
         /\ \A c \in Cs : Live(c)' => Live(c) /\ con'[c].name = con[c].name
         /\ IsAlive(registry)' /\ ses'[registry'].handler # None
              => registry' = registry /\ IsAlive(registry) /\ ses'[registry'].handler = ses[registry].handler
<1> USE TypesOneByOne, BoundsNat DEF SInv
<1>1. \A c \in Cs : Dying(con[c], con'[c]) /\ Fading(ses[c], ses'[c]) /\ con[c] \in Containers
  BY DEF WindsDown
<1>2. \A c \in Cs : /\ con'[c].name = con[c].name /\ con'[c].items \subseteq con[c].items
                    /\ con'[c].phase = con[c].phase \/ con'[c].phase = "exited"
                    /\ con'[c].code = con[c].code \/ con'[c].code \in {0, 1}
  BY <1>1, DyingFields
<1>3. \A c \in Cs : Live(c)' => Live(c) /\ con'[c].phase = con[c].phase
  BY <1>2 DEF Live
<1>4. \A c \in Cs : ~ses'[c].dead => ~ses[c].dead
  BY <1>1 DEF Fading
<1>5. NamesInUse'
  BY <1>2 DEF NamesInUse, OtherParts, WindsDown
<1>6. SessionParts'
  BY <1>1 DEF SessionParts, Fading
<1>7. NotYet'
  BY <1>2, <1>3 DEF NotYet, OtherParts, WindsDown
<1>8. OneUndead'
  <2> SUFFICES ASSUME NEW c \in Cs, Live(c)', ~ses'[c].dead PROVE registry' = c
    BY DEF OneUndead
  <2>1. registry = c /\ c # None
    BY <1>3, <1>4 DEF OneUndead, OtherParts, Cs, None
  <2>2. QED
    BY <2>1 DEF WindsDown
<1>9. FilesAddressed'
  <2> SUFFICES ASSUME NEW c \in Cs, Live(c)', ~ses'[c].dead
               PROVE  /\ \A i \in input' : written_for'[i] = c
                      /\ con'[c].phase = "boot" /\ initial' # None => written_for'[initial'] = c
    BY DEF FilesAddressed
  <2>1. Live(c) /\ ~ses[c].dead /\ con'[c].phase = con[c].phase
    BY <1>3, <1>4
  <2>2. QED
    BY <2>1 DEF FilesAddressed, OtherParts, WindsDown
<1>10. InputReachesItsContainer'
  BY <1>2, <1>4 DEF InputReachesItsContainer, OtherParts, WindsDown
<1>11. There' \subseteq There \cup {None}
  BY <1>2 DEF There, WindsDown
<1>12. There' \subseteq Known' \cup {None} /\ Known \subseteq Known'
  BY <1>11 DEF KnownItems, Known, WindsDown, CountsOK
<1>13. IsAlive(registry)' /\ ses'[registry'].handler # None
         => registry' = registry /\ IsAlive(registry) /\ ses'[registry'].handler = ses[registry].handler
  <2> SUFFICES ASSUME IsAlive(registry)', ses'[registry'].handler # None
               PROVE  registry' = registry /\ IsAlive(registry) /\ ses'[registry'].handler = ses[registry].handler
    OBVIOUS
  <2>1. registry' = registry /\ registry # None
    BY DEF IsAlive, WindsDown
  <2>2. registry \in Cs
    BY <2>1 DEF RegistryOK, CountsOK, Cs, None
  <2>3. Fading(ses[registry], ses'[registry])
    BY <1>1, <2>2
  <2>4. QED
    BY <2>1, <2>2, <2>3 DEF IsAlive, Fading
<1>14. QED
  BY <1>2, <1>3, <1>5, <1>6, <1>7, <1>8, <1>9, <1>10, <1>11, <1>12, <1>13 DEF OtherParts

-----------------------------------------------------------------------------
(* What the helpers do to sessions and containers.                         *)

LEMMA UnchangedDies == \A c \in Cs : Dying(con[c], con[c])
  BY DEF Dying

LEMMA UnchangedFades ==
  ASSUME SInv PROVE \A c \in Cs : Fading(ses[c], ses[c]) /\ SessionOK(ses[c]) /\ ses[c] \in Sessions
  BY TypesOneByOne DEF SInv, OtherParts, SessionParts, Fading

LEMMA StoppedFades ==
  ASSUME NEW s \in Sessions, SessionOK(s)
  PROVE  Stopped(s) \in Sessions /\ Fading(s, Stopped(s)) /\ Stopped(s).dead
<1>1. CancelTimer(s) \in {"off", "armed", "fired"} /\ CancelTimer(s) # "armed"
  BY DEF CancelTimer, Sessions
<1>2. Stopped(s) \in Sessions
  BY <1>1 DEF Stopped, Sessions
<1>3. /\ Stopped(s).dead /\ Stopped(s).returned = s.returned /\ Stopped(s).handler = s.handler
      /\ Stopped(s).idle = CancelTimer(s)
  BY DEF Stopped, Sessions
<1>4. QED
  BY <1>1, <1>2, <1>3 DEF Fading, SessionOK

\* One session changes.
LEMMA OneSessionFades ==
  ASSUME SInv, NEW c \in Cs, NEW t \in Sessions, Fading(ses[c], t), ses' = [ses EXCEPT ![c] = t]
  PROVE  ses' \in [Cs -> Sessions] /\ \A d \in Cs : Fading(ses[d], ses'[d])
  BY UnchangedFades, TypesOneByOne DEF SInv

LEMMA RegistryInCs ==
  ASSUME SInv PROVE registry # None => registry \in Cs
  BY TypesOneByOne, BoundsNat DEF SInv, RegistryOK, CountsOK, Cs, None

LEMMA DestroyFades ==
  ASSUME SInv, DestroySession
  PROVE  /\ ses' \in [Cs -> Sessions] /\ \A c \in Cs : Fading(ses[c], ses'[c])
         /\ registry' = None /\ (registry # None => ses'[registry].dead)
         /\ close' \in BOOLEAN
<1>1. registry' = None /\ close' \in BOOLEAN
  BY TypesOneByOne DEF DestroySession, SInv, FilesOK
<1>2. CASE registry = None
  BY <1>1, <1>2, UnchangedFades, TypesOneByOne DEF DestroySession, SInv
<1>3. CASE registry # None
  <2>1. registry \in Cs /\ ses[registry] \in Sessions /\ SessionOK(ses[registry])
    BY <1>3, RegistryInCs, UnchangedFades
  <2>2. ses' = [ses EXCEPT ![registry] = Stopped(ses[registry])]
    BY <1>3 DEF DestroySession
  <2>3. ses' \in [Cs -> Sessions] /\ \A c \in Cs : Fading(ses[c], ses'[c])
    BY <2>1, <2>2, StoppedFades, OneSessionFades
  <2>4. ses'[registry].dead
    BY <2>1, <2>2, StoppedFades, TypesOneByOne DEF SInv
  <2>5. QED
    BY <1>1, <2>3, <2>4
<1>4. QED
  BY <1>2, <1>3

\* get_session and its pop.
LEMMA AfterGetFades ==
  ASSUME SInv
  PROVE  /\ GetSession # None => GetSession = registry /\ registry \in Cs /\ AfterGet = registry
         /\ AfterGet # registry => AfterGet = None /\ (registry # None => ses[registry].dead)
         /\ GetSession = None => AfterGet = None
  BY RegistryInCs, UnchangedFades DEF AfterGet, GetSession, IsAlive, SessionOK, None

LEMMA SignalFades ==
  ASSUME SInv, SignalQueryDone
  PROVE  /\ ses' \in [Cs -> Sessions] /\ \A c \in Cs : Fading(ses[c], ses'[c])
         /\ registry' # registry => registry' = None /\ (registry # None => ses'[registry].dead)
<1>1. CASE GetSession = None
  BY <1>1, AfterGetFades, UnchangedFades, TypesOneByOne DEF SignalQueryDone, SInv
<1>2. CASE GetSession # None
  <2> DEFINE c == GetSession
             t == [ses[c] EXCEPT !.done = TRUE, !.handler = ClearHandler(c), !.idle = ArmTimer(c)]
  <2>1. c \in Cs /\ registry' = registry /\ ses[c] \in Sessions /\ SessionOK(ses[c])
    BY <1>2, AfterGetFades, UnchangedFades DEF SignalQueryDone
  <2>2. ses' = [ses EXCEPT ![c] = t]
    <3>1. ses' = [ses EXCEPT ![c].done = TRUE, ![c].handler = ClearHandler(c), ![c].idle = ArmTimer(c)]
      BY <1>2 DEF SignalQueryDone
    <3>2. QED
      BY <2>1, <3>1, TypesOneByOne DEF SInv, Sessions
  <2>3. ArmTimer(c) \in {"off", "armed", "fired"} /\ ClearHandler(c) = None
    BY <2>1 DEF ArmTimer, ClearHandler, Sessions
  <2>4. t \in Sessions /\ Fading(ses[c], t)
    BY <2>1, <2>3 DEF Sessions, Fading, SessionOK
  <2>5. QED
    BY <2>1, <2>2, <2>4, OneSessionFades
<1>3. QED
  BY <1>1, <1>2

\* docker stop and docker rm -f end containers by name and touch no others.
LEMMA KilledDies ==
  ASSUME SInv, NEW name
  PROVE  /\ Killed(name) \in [Cs -> Containers]
         /\ \A c \in Cs : Dying(con[c], Killed(name)[c])
         /\ \A c \in Cs : Killed(name)[c].phase \in {"boot", "query", "wait"} => Killed(name)[c].name # name
<1> DEFINE K(c) == IF Live(c) /\ con[c].name = name THEN Exited(con[c], 1) ELSE con[c]
<1>1. \A c \in Cs : K(c) \in Containers /\ Dying(con[c], K(c))
                    /\ (K(c).phase \in {"boot", "query", "wait"} => K(c).name # name)
  BY ExitedIsContainer, TypesOneByOne DEF SInv, Dying, Live
<1>2. Killed(name) = [c \in Cs |-> K(c)]
  BY DEF Killed
<1> HIDE DEF K
<1>3. QED
  BY <1>1, <1>2

LEMMA OneContainerDies ==
  ASSUME SInv, NEW c \in Cs, NEW code \in {0, 1}, con' = [con EXCEPT ![c] = Exited(con[c], code)]
  PROVE  con' \in [Cs -> Containers] /\ \A d \in Cs : Dying(con[d], con'[d])
  BY ExitedIsContainer, TypesOneByOne DEF SInv, Dying


-----------------------------------------------------------------------------
(* Steps beside the run: whatever winds down and leaves the run alone.     *)

LEMMA SideStep ==
  ASSUME SInv, WindsDown, UNCHANGED <<run, registered, run_count>>,
         con' \in [Cs -> Containers], ses' \in [Cs -> Sessions], stopper' \in Stoppers,
         close' \in BOOLEAN, output' \in Seq(OutputFiles),
         watcher' \in [kind : {"none", "answer", "pulse"}, items : SUBSET Items],
         faults' \in 0..MaxFaults
  PROVE  SInv'
<1>1. STypeOK'
  <2>1. RegistryOK'
    BY TypesOneByOne DEF SInv, WindsDown, RegistryOK, CountsOK, None
  <2>2. FilesOK' /\ CountsOK' /\ run' \in Runs
    BY TypesOneByOne DEF SInv, WindsDown, FilesOK, CountsOK, Items, Runs, Cs
  <2>3. QED
    BY <2>1, <2>2, TypesOneByOnePrimed
<1>2. SpawnsLeft' /\ NobodyRegistered'
  BY DEF SInv, RunParts, SpawnsLeft, NobodyRegistered, Preparing, WindsDown, None
<1>3. RunKnowsSession'
  BY DEF SInv, RunParts, RunKnowsSession, WindsDown
<1>4. StableNameFree'
  BY WindingDown DEF SInv, RunParts, StableNameFree
<1>5. ItemIsNew'
  BY WindingDown DEF SInv, RunParts, ItemIsNew, RunKnowsSession, Preparing
<1>6. HandlerOfLiveRun'
  BY WindingDown DEF SInv, RunParts, HandlerOfLiveRun
<1>7. KnownItems'
  BY WindingDown DEF SInv, KnownItems
<1>8. QED
  BY <1>1, <1>2, <1>3, <1>4, <1>5, <1>6, <1>7, WindingDown DEF SInv, RunParts

\* What SideStep needs of the variables a step leaves alone.
LEMMA AsItWas ==
  ASSUME SInv
  PROVE  /\ con \in [Cs -> Containers] /\ ses \in [Cs -> Sessions] /\ stopper \in Stoppers
         /\ close \in BOOLEAN /\ output \in Seq(OutputFiles)
         /\ watcher \in [kind : {"none", "answer", "pulse"}, items : SUBSET Items]
         /\ faults \in 0..MaxFaults /\ run_count \in Nat
         /\ \A c \in Cs : Dying(con[c], con[c]) /\ Fading(ses[c], ses[c])
  BY TypesOneByOne, BoundsNat, UnchangedDies, UnchangedFades DEF SInv, FilesOK, CountsOK

LEMMA StopKillsStep ==
  ASSUME SInv, NEW c \in Cs, StopKills(c) PROVE SInv'
<1> DEFINE t == [ses[c] EXCEPT !.stop = "waiting"]
<1>1. ses[c] \in Sessions /\ SessionOK(ses[c]) /\ ses[c].stop = "stopping" /\ ses' = [ses EXCEPT ![c] = t]
  BY UnchangedFades, TypesOneByOne DEF StopKills, SInv, Sessions
<1>2. t \in Sessions /\ Fading(ses[c], t)
  BY <1>1 DEF Sessions, Fading, SessionOK
<1>3. ses' \in [Cs -> Sessions] /\ \A d \in Cs : Fading(ses[d], ses'[d])
  BY <1>1, <1>2, OneSessionFades
<1>4. con' \in [Cs -> Containers] /\ \A d \in Cs : Dying(con[d], con'[d])
  BY KilledDies DEF StopKills
<1>5. WindsDown
  BY <1>3, <1>4, AsItWas DEF StopKills, WindsDown, files, bounds
<1>6. QED
  BY <1>3, <1>4, <1>5, AsItWas, SideStep DEF StopKills, files, bounds

LEMMA StopExitedStep ==
  ASSUME SInv, NEW c \in Cs, StopExited(c) PROVE SInv'
<1> DEFINE t == [ses[c] EXCEPT !.stop = "removing"]
<1>1. ses[c] \in Sessions /\ SessionOK(ses[c]) /\ ses[c].stop = "waiting" /\ ses' = [ses EXCEPT ![c] = t]
  BY UnchangedFades, TypesOneByOne DEF StopExited, SInv, Sessions
<1>2. t \in Sessions /\ Fading(ses[c], t)
  BY <1>1 DEF Sessions, Fading, SessionOK
<1>3. ses' \in [Cs -> Sessions] /\ \A d \in Cs : Fading(ses[d], ses'[d])
  BY <1>1, <1>2, OneSessionFades
<1>4. WindsDown
  BY <1>3, AsItWas DEF StopExited, WindsDown, files, bounds
<1>5. QED
  BY <1>3, <1>4, AsItWas, SideStep DEF StopExited, files, bounds

LEMMA StopRemovesStep ==
  ASSUME SInv, NEW c \in Cs, StopRemoves(c) PROVE SInv'
<1> DEFINE t == [ses[c] EXCEPT !.stop = "done", !.done = TRUE]
<1>1. ses[c] \in Sessions /\ SessionOK(ses[c]) /\ ses[c].stop = "removing" /\ ses' = [ses EXCEPT ![c] = t]
  BY UnchangedFades, TypesOneByOne DEF StopRemoves, SInv, Sessions
<1>2. t \in Sessions /\ Fading(ses[c], t)
  BY <1>1 DEF Sessions, Fading, SessionOK
<1>3. ses' \in [Cs -> Sessions] /\ \A d \in Cs : Fading(ses[d], ses'[d])
  BY <1>1, <1>2, OneSessionFades
<1>4. con' \in [Cs -> Containers] /\ \A d \in Cs : Dying(con[d], con'[d])
  BY KilledDies DEF StopRemoves
<1>5. WindsDown
  BY <1>3, <1>4, AsItWas DEF StopRemoves, WindsDown, files, bounds
<1>6. QED
  BY <1>3, <1>4, <1>5, AsItWas, SideStep DEF StopRemoves, files, bounds

LEMMA MonitorProcStep ==
  ASSUME SInv, NEW c \in Cs, MonitorProc(c) PROVE SInv'
<1> DEFINE t == [ses[c] EXCEPT !.returned = TRUE, !.dead = TRUE,
                               !.died = ses[c].died \/ (~ses[c].done /\ con[c].code # 0),
                               !.done = ses[c].done \/ WakesWaiter(c)]
<1>1. ses[c] \in Sessions /\ SessionOK(ses[c]) /\ ses' = [ses EXCEPT ![c] = t]
  BY UnchangedFades, TypesOneByOne DEF MonitorProc, SInv, Sessions
<1>2. t \in Sessions /\ Fading(ses[c], t)
  BY <1>1 DEF Sessions, Fading, SessionOK, WakesWaiter
<1>3. ses' \in [Cs -> Sessions] /\ \A d \in Cs : Fading(ses[d], ses'[d])
  BY <1>1, <1>2, OneSessionFades
<1>4. WindsDown
  BY <1>3, AsItWas DEF MonitorProc, WindsDown, files, bounds
<1>5. QED
  BY <1>3, <1>4, AsItWas, SideStep DEF MonitorProc, files, bounds

LEMMA IdleExpiresStep ==
  ASSUME SInv, NEW c \in Cs, IdleExpires(c) PROVE SInv'
<1> DEFINE t == [ses[c] EXCEPT !.idle = "fired"]
<1>1. ses[c] \in Sessions /\ SessionOK(ses[c]) /\ ses' = [ses EXCEPT ![c] = t]
  BY UnchangedFades, TypesOneByOne DEF IdleExpires, SInv, Sessions
<1>2. t \in Sessions /\ Fading(ses[c], t)
  BY <1>1 DEF Sessions, Fading, SessionOK
<1>3. ses' \in [Cs -> Sessions] /\ \A d \in Cs : Fading(ses[d], ses'[d])
  BY <1>1, <1>2, OneSessionFades
<1>4. WindsDown
  BY <1>3, AsItWas DEF IdleExpires, WindsDown, files, bounds
<1>5. QED
  BY <1>3, <1>4, AsItWas, SideStep DEF IdleExpires, files, bounds

LEMMA IdleTeardownStep ==
  ASSUME SInv, NEW c \in Cs, IdleTeardown(c) PROVE SInv'
<1> DEFINE S(d) == IF d = registry THEN Stopped(ses[d]) ELSE ses[d]
           T(d) == IF d = c THEN [S(d) EXCEPT !.idle = "off"] ELSE S(d)
<1>1. ses' = [d \in Cs |-> T(d)]
  BY DEF IdleTeardown
<1>2. \A d \in Cs : /\ S(d) \in Sessions /\ Fading(ses[d], S(d)) /\ SessionOK(S(d))
                    /\ d = registry => S(d).dead
  BY StoppedFades, UnchangedFades DEF Fading
<1> HIDE DEF S
<1>3. \A d \in Cs : /\ T(d) \in Sessions /\ Fading(ses[d], T(d))
                    /\ d = registry => T(d).dead
  BY <1>2 DEF Sessions, Fading, SessionOK
<1> HIDE DEF T
<1>4. ses' \in [Cs -> Sessions] /\ (\A d \in Cs : Fading(ses[d], ses'[d]))
      /\ (registry # None => ses'[registry].dead)
  BY <1>1, <1>3, RegistryInCs
<1>5. WindsDown
  BY <1>4, AsItWas DEF IdleTeardown, WindsDown, bounds
<1>6. QED
  BY <1>4, <1>5, AsItWas, SideStep DEF IdleTeardown, bounds

LEMMA CloseStdinStep ==
  ASSUME SInv, CloseStdin PROVE SInv'
<1>1. WindsDown
  BY AsItWas DEF CloseStdin, WindsDown, host
<1>2. faults' \in 0..MaxFaults
  BY AsItWas, BoundsNat DEF CloseStdin
<1>3. QED
  BY <1>1, <1>2, AsItWas, SideStep DEF CloseStdin, host

LEMMA InterruptStep ==
  ASSUME SInv, Interrupt PROVE SInv'
<1>1. WindsDown
  BY AsItWas DEF Interrupt, WindsDown, files
<1>2. faults' \in 0..MaxFaults /\ stopper' \in Stoppers
  BY AsItWas, BoundsNat DEF Interrupt, Stoppers, NoStopper, None
<1>3. QED
  BY <1>1, <1>2, AsItWas, SideStep DEF Interrupt, files

LEMMA TeardownStep ==
  ASSUME SInv, Teardown PROVE SInv'
<1>1. WindsDown
  BY AsItWas, DestroyFades DEF Teardown, WindsDown
<1>2. faults' \in 0..MaxFaults /\ stopper' \in Stoppers
  BY AsItWas, BoundsNat DEF Teardown, Stoppers, NoStopper, None
<1>3. QED
  BY <1>1, <1>2, AsItWas, DestroyFades, SideStep DEF Teardown

LEMMA StopBeginsStep ==
  ASSUME SInv, StopBegins PROVE SInv'
<1>1. stopper' \in Stoppers
  BY RegistryInCs DEF StopBegins, Stoppers, None
<1>2. CASE registered = None
  <2>1. WindsDown
    BY <1>2, AsItWas DEF StopBegins, WindsDown, bounds
  <2>2. QED
    BY <1>1, <1>2, <2>1, AsItWas, SideStep DEF StopBegins, bounds
<1>3. CASE registered # None
  <2>1. WindsDown
    BY <1>3, AsItWas, DestroyFades DEF StopBegins, WindsDown, bounds
  <2>2. QED
    BY <1>1, <1>3, <2>1, AsItWas, DestroyFades, SideStep DEF StopBegins, bounds
<1>4. QED
  BY <1>2, <1>3

LEMMA StopRegisteredStep ==
  ASSUME SInv, StopRegistered PROVE SInv'
<1>1. stopper' \in Stoppers /\ close' \in BOOLEAN
  BY AsItWas DEF StopRegistered, Stoppers, NoStopper, None
<1>2. con' \in [Cs -> Containers] /\ \A d \in Cs : Dying(con[d], con'[d])
  BY KilledDies, AsItWas DEF StopRegistered
<1>3. WindsDown
  BY <1>2, AsItWas DEF StopRegistered, WindsDown, bounds
<1>4. QED
  BY <1>1, <1>2, <1>3, AsItWas, SideStep DEF StopRegistered, bounds

LEMMA SeesCloseStep ==
  ASSUME SInv, NEW c \in Cs, SeesClose(c) PROVE SInv'
<1>1. con' \in [Cs -> Containers] /\ \A d \in Cs : Dying(con[d], con'[d])
  BY OneContainerDies DEF SeesClose
<1>2. WindsDown
  BY <1>1, AsItWas DEF SeesClose, WindsDown, bounds, host
<1>3. QED
  BY <1>1, <1>2, AsItWas, SideStep DEF SeesClose, bounds, host

LEMMA AgentExitsStep ==
  ASSUME SInv, NEW c \in Cs, AgentExits(c) PROVE SInv'
<1>1. con' \in [Cs -> Containers] /\ \A d \in Cs : Dying(con[d], con'[d])
  BY OneContainerDies DEF AgentExits
<1>2. WindsDown
  BY <1>1, AsItWas DEF AgentExits, WindsDown, bounds, host
<1>3. QED
  BY <1>1, <1>2, AsItWas, SideStep DEF AgentExits, bounds, host

LEMMA ContainerCrashesStep ==
  ASSUME SInv, NEW c \in Cs, ContainerCrashes(c) PROVE SInv'
<1>1. con' \in [Cs -> Containers] /\ \A d \in Cs : Dying(con[d], con'[d])
  BY OneContainerDies DEF ContainerCrashes
<1>2. WindsDown
  BY <1>1, AsItWas DEF ContainerCrashes, WindsDown, files, host
<1>3. faults' \in 0..MaxFaults
  BY AsItWas, BoundsNat DEF ContainerCrashes
<1>4. QED
  BY <1>1, <1>2, <1>3, AsItWas, SideStep DEF ContainerCrashes, files, host

LEMMA WatcherDispatchesStep ==
  ASSUME SInv, WatcherDispatches PROVE SInv'
<1>1. /\ output' \in Seq(OutputFiles)
      /\ watcher' \in [kind : {"none", "answer", "pulse"}, items : SUBSET Items]
  <2>1. Head(output) \in OutputFiles /\ Tail(output) \in Seq(OutputFiles)
    BY AsItWas DEF WatcherDispatches
  <2>2. QED
    BY <2>1 DEF WatcherDispatches, OutputFiles
<1>2. WindsDown
  BY AsItWas DEF WatcherDispatches, WindsDown, bounds
<1>3. QED
  BY <1>1, <1>2, AsItWas, SideStep DEF WatcherDispatches, bounds

LEMMA WatcherSkipsStep ==
  ASSUME SInv, WatcherSkips PROVE SInv'
<1>1. output' \in Seq(OutputFiles)
  BY AsItWas DEF WatcherSkips
<1>2. /\ ses' \in [Cs -> Sessions] /\ \A c \in Cs : Fading(ses[c], ses'[c])
      /\ registry' # registry => registry' = None /\ (registry # None => ses'[registry].dead)
  BY SignalFades, AfterGetFades, AsItWas DEF WatcherSkips
<1>3. WindsDown
  BY <1>2, AsItWas DEF WatcherSkips, WindsDown, bounds
<1>4. QED
  BY <1>1, <1>2, <1>3, AsItWas, SideStep DEF WatcherSkips, bounds

LEMMA WatcherFinishesStep ==
  ASSUME SInv, WatcherFinishes PROVE SInv'
<1>1. watcher' \in [kind : {"none", "answer", "pulse"}, items : SUBSET Items]
  BY AsItWas DEF WatcherFinishes, NoFile
<1>2. /\ ses' \in [Cs -> Sessions] /\ \A c \in Cs : Fading(ses[c], ses'[c])
      /\ registry' # registry => registry' = None /\ (registry # None => ses'[registry].dead)
  BY SignalFades, AsItWas DEF WatcherFinishes
<1>3. WindsDown
  BY <1>2, AsItWas DEF WatcherFinishes, WindsDown, bounds, files
<1>4. QED
  BY <1>1, <1>2, <1>3, AsItWas, SideStep DEF WatcherFinishes, bounds, files

-----------------------------------------------------------------------------
(* Steps of the run.                                                       *)

\* A step of the run that winds down: its own part of the invariant is left to show.
LEMMA RunWindsDown ==
  ASSUME SInv, WindsDown, RunParts', run' \in Runs, run'.item \in Known' \cup {None},
         con' \in [Cs -> Containers], ses' \in [Cs -> Sessions], close' \in BOOLEAN,
         registered' \in {registered, None}, run'.pc \in {"await", "destroy"} \/ registered' = None,
         run_count' \in 0..MaxRuns, faults' \in 0..MaxFaults, UNCHANGED <<stopper, watcher, output>>
  PROVE  SInv'
<1>1. STypeOK'
  <2>1. RegistryOK'
    BY TypesOneByOne DEF SInv, WindsDown, RegistryOK, CountsOK, None
  <2>2. FilesOK' /\ CountsOK' /\ stopper' \in Stoppers
    BY TypesOneByOne DEF SInv, WindsDown, FilesOK, CountsOK, Items, Stoppers, Cs
  <2>3. QED
    BY <2>1, <2>2, TypesOneByOnePrimed
<1>2. KnownItems'
  BY WindingDown DEF SInv, KnownItems
<1>3. QED
  BY <1>1, <1>2, WindingDown DEF SInv

\* What a step of the run relies on.
LEMMA RunAsItWas ==
  ASSUME SInv
  PROVE  /\ run \in Runs /\ run.item \in Known \cup {None} /\ run.session \in 0..spawned
         /\ run_count \in Nat /\ run_count <= MaxRuns /\ run_count \in 0..MaxRuns
         /\ followups \in Nat /\ spawned \in Nat /\ spawned <= run_count
         /\ registered # None => run.pc \in {"await", "destroy"}
         /\ registry # None => registry \in Cs
  BY TypesOneByOne, BoundsNat, RegistryInCs
     DEF SInv, RunParts, RunKnowsSession, KnownItems, RegistryOK, CountsOK

LEMMA NewItemIsNew ==
  ASSUME SInv
  PROVE  /\ NewItem \notin Known /\ NewItem \notin There /\ NewItem # None /\ NewItem \in Nat
         /\ NewItem <= run_count + followups + 1
         /\ run_count < MaxRuns \/ followups < MaxFollowUps => NewItem \in Items
  BY TypesOneByOne, BoundsNat DEF SInv, KnownItems, Known, NewItem, CountsOK, Items, None

LEMMA NoRunIsRun == NoRun \in Runs /\ NoRun.pc = "idle" /\ NoRun.item = None /\ NoRun.session = None
  BY DEF NoRun, Runs, None

\* Nobody waits for a query: no live session has a handler.
LEMMA NoHandlerLeft ==
  ASSUME SInv, WindsDown, run.pc # "await"
  PROVE  HandlerOfLiveRun'
  BY WindingDown DEF SInv, RunParts, HandlerOfLiveRun

LEMMA RunStartsStep ==
  ASSUME SInv, NEW kind \in RunKinds, RunStarts(kind) PROVE SInv'
<1>1. /\ ses' \in [Cs -> Sessions] /\ \A c \in Cs : Fading(ses[c], ses'[c])
      /\ registry' # registry => registry' = None /\ (registry # None => ses'[registry].dead)
      /\ kind = "task" => registry' = None
      /\ close' \in BOOLEAN
  BY AsItWas, DestroyFades DEF RunStarts
<1>2. /\ run.pc = "idle" /\ run_count < MaxRuns /\ run_count' = run_count + 1
      /\ UNCHANGED <<con, registered, stopper, watcher, input, initial, output, followups, spawned,
                     faults, written_for>>
      /\ \/ kind = "message" /\ run' = [NoRun EXCEPT !.pc = "setup", !.item = NewItem]
         \/ kind = "task" /\ run' = [NoRun EXCEPT !.pc = "clean", !.kind = kind, !.item = NewItem,
                                                  !.session = registry]
  BY DEF RunStarts
<1>3. WindsDown
  BY <1>1, <1>2, AsItWas, RunAsItWas DEF WindsDown
<1>4. /\ run' \in Runs /\ run'.item = NewItem /\ run'.kind = kind
      /\ \/ kind = "message" /\ run'.pc = "setup" /\ run'.session = None
         \/ kind = "task" /\ run'.pc = "clean" /\ run'.session = registry
  BY <1>2, NoRunIsRun, NewItemIsNew, RunAsItWas DEF Runs, NoRun, None
<1>5. run'.item \in Known' \cup {None}
  BY <1>2, <1>4, RunAsItWas, NewItemIsNew DEF Known, NewItem
<1>6. SpawnsLeft' /\ NobodyRegistered' /\ StableNameFree'
  BY <1>1, <1>2, <1>4, RunAsItWas DEF SpawnsLeft, NobodyRegistered, StableNameFree
<1>7. RunKnowsSession'
  BY <1>2, <1>4, RunAsItWas, TypesOneByOne, NewItemIsNew DEF SInv, RegistryOK, RunKnowsSession, None
<1>8. ItemIsNew'
  BY <1>3, <1>4, WindingDown, NewItemIsNew DEF ItemIsNew
<1>9. HandlerOfLiveRun'
  BY <1>2, <1>3, NoHandlerLeft
<1>10. registered' = None /\ run_count' \in 0..MaxRuns
  BY <1>2, RunAsItWas, BoundsNat
<1>11. QED
  BY <1>1, <1>2, <1>3, <1>4, <1>5, <1>6, <1>7, <1>8, <1>9, <1>10, AsItWas, RunWindsDown DEF RunParts

LEMMA RunCleanedStep ==
  ASSUME SInv, RunCleaned PROVE SInv'
<1>1. WindsDown
  BY AsItWas DEF RunCleaned, WindsDown, files, bounds
<1>2. /\ run' \in Runs /\ run'.item = run.item /\ run'.kind = run.kind /\ run'.pc = "setup"
      /\ run'.session = None /\ run.pc = "clean"
  BY RunAsItWas DEF RunCleaned, Runs, None
<1>3. SpawnsLeft' /\ NobodyRegistered' /\ StableNameFree' /\ RunKnowsSession'
  BY <1>2, RunAsItWas
     DEF RunCleaned, SInv, RunParts, SpawnsLeft, NobodyRegistered, StableNameFree, RunKnowsSession,
         Preparing, bounds, None
<1>4. ItemIsNew'
  BY <1>1, <1>2, WindingDown DEF SInv, RunParts, ItemIsNew, Preparing, RunKnowsSession
<1>5. HandlerOfLiveRun'
  BY <1>1, <1>2, NoHandlerLeft
<1>6. QED
  BY <1>1, <1>2, <1>3, <1>4, <1>5, AsItWas, RunAsItWas, RunWindsDown
     DEF RunCleaned, RunParts, files, bounds, Known

LEMMA RunChoosesStep ==
  ASSUME SInv, RunChooses PROVE SInv'
<1>1. registry' # registry => registry' = None /\ (registry # None => ses'[registry].dead)
  BY AfterGetFades DEF RunChooses
<1>2. WindsDown
  BY <1>1, AsItWas DEF RunChooses, WindsDown, files, bounds
<1>3. /\ run' \in Runs /\ run'.item = run.item /\ run'.kind = run.kind /\ run.pc = "setup"
      /\ \/ run.kind = "task" /\ run'.pc = "spawn" /\ run'.session = run.session /\ registry' = registry
         \/ /\ run.kind = "message" /\ run'.pc = "ensure" /\ run'.session = registry
            /\ registry # None /\ registry' = registry
         \/ run.kind = "message" /\ run'.pc = "remove" /\ run'.session = run.session /\ registry' = None
  BY RunAsItWas, AfterGetFades DEF RunChooses, Runs
<1>4. UNCHANGED <<spawned, run_count, registered>>
  BY DEF RunChooses, bounds
<1>5. SpawnsLeft' /\ NobodyRegistered'
  BY <1>3, <1>4 DEF SInv, RunParts, SpawnsLeft, NobodyRegistered, Preparing
<1>6. RunKnowsSession' /\ StableNameFree'
  BY <1>3, <1>4, RunAsItWas, TypesOneByOne
     DEF SInv, RunParts, RunKnowsSession, StableNameFree, RegistryOK, None
<1>7. ItemIsNew'
  BY <1>2, <1>3, WindingDown DEF SInv, RunParts, ItemIsNew, Preparing, RunKnowsSession
<1>8. HandlerOfLiveRun'
  BY <1>2, <1>3, NoHandlerLeft
<1>9. QED
  BY <1>2, <1>3, <1>5, <1>6, <1>7, <1>8, AsItWas, RunAsItWas, RunWindsDown
     DEF RunChooses, RunParts, files, bounds, Known

LEMMA RunRemovesStep ==
  ASSUME SInv, RunRemoves PROVE SInv'
<1>1. con' \in [Cs -> Containers] /\ \A d \in Cs : Dying(con[d], con'[d])
  BY KilledDies DEF RunRemoves, RemovedStale
<1>2. WindsDown
  BY <1>1, AsItWas DEF RunRemoves, WindsDown, files, bounds
<1>3. /\ run' \in Runs /\ run'.item = run.item /\ run'.kind = run.kind /\ run'.pc = "spawn"
      /\ run'.session = run.session /\ run.pc = "remove"
  BY RunAsItWas DEF RunRemoves, Runs
<1>4. StableNameFree'
  BY KilledDies DEF StableNameFree, RunRemoves, RemovedStale, Live
<1>5. SpawnsLeft' /\ NobodyRegistered' /\ RunKnowsSession'
  BY <1>3, RunAsItWas
     DEF RunRemoves, SInv, RunParts, SpawnsLeft, NobodyRegistered, RunKnowsSession, Preparing, bounds
<1>6. ItemIsNew'
  BY <1>2, <1>3, WindingDown DEF SInv, RunParts, ItemIsNew, Preparing, RunKnowsSession
<1>7. HandlerOfLiveRun'
  BY <1>2, <1>3, NoHandlerLeft
<1>8. QED
  BY <1>1, <1>2, <1>3, <1>4, <1>5, <1>6, <1>7, AsItWas, RunAsItWas, RunWindsDown
     DEF RunRemoves, RunParts, files, bounds, Known

\* A run that ends or goes on to destroy its session.
LEMMA RunLeaves ==
  ASSUME SInv, WindsDown, run' \in Runs,
         \/ run' = NoRun /\ registered' = None
         \/ run'.pc = "destroy" /\ registry' = None /\ run'.session = registry /\ UNCHANGED registered
            /\ run'.item = run.item,
         run.pc # "idle",
         con' \in [Cs -> Containers], ses' \in [Cs -> Sessions], close' \in BOOLEAN,
         run'.pc = "idle" /\ run.pc = "await" =>
           ~(IsAlive(registry)' /\ ses'[registry'].handler # None),
         run_count' = run_count, faults' \in 0..MaxFaults, UNCHANGED <<stopper, watcher, output>>
  PROVE  SInv'
<1>1. \/ run'.pc = "idle" /\ run'.session = None /\ run'.item = None
      \/ run'.pc = "destroy" /\ run'.session = registry /\ registry' = None /\ run'.item = run.item
  BY NoRunIsRun
<1>2. SpawnsLeft' /\ NobodyRegistered' /\ StableNameFree' /\ ItemIsNew'
  BY <1>1 DEF SpawnsLeft, NobodyRegistered, StableNameFree, ItemIsNew, Preparing
<1>3. RunKnowsSession'
  BY <1>1, RunAsItWas, TypesOneByOne DEF SInv, RunParts, RunKnowsSession, RegistryOK, WindsDown, None
<1>4. HandlerOfLiveRun'
  BY <1>1, NoHandlerLeft DEF HandlerOfLiveRun, IsAlive
<1>5. run'.item \in Known' \cup {None}
  BY <1>1, RunAsItWas, WindingDown DEF Known
<1>6. QED
  BY <1>1, <1>2, <1>3, <1>4, <1>5, RunAsItWas, RunWindsDown DEF RunParts

LEMMA RunFailsStep ==
  ASSUME SInv, RunFails PROVE SInv'
<1>1. /\ ses' \in [Cs -> Sessions] /\ \A c \in Cs : Fading(ses[c], ses'[c])
      /\ registry' # registry => registry' = None /\ (registry # None => ses'[registry].dead)
      /\ run.kind = "task" => registry' = None
      /\ close' \in BOOLEAN
  BY AsItWas, DestroyFades DEF RunFails
<1>2. WindsDown
  BY <1>1, AsItWas DEF RunFails, WindsDown, bounds
<1>3. /\ run' \in Runs /\ run.pc \in {"ensure", "spawn"}
      /\ \/ run' = NoRun /\ registered' = None
         \/ run'.pc = "destroy" /\ registry' = None /\ run'.session = registry
            /\ UNCHANGED registered /\ run'.item = run.item
  BY <1>1, RunAsItWas, NoRunIsRun DEF RunFails, Runs, Released, None
<1>4. QED
  BY <1>1, <1>2, <1>3, AsItWas, RunLeaves DEF RunFails, bounds

LEMMA RunAnsweredStep ==
  ASSUME SInv, RunAnswered PROVE SInv'
<1>1. /\ ses' \in [Cs -> Sessions] /\ \A c \in Cs : Fading(ses[c], ses'[c])
      /\ registry' # registry => registry' = None /\ (registry # None => ses'[registry].dead)
      /\ run.kind = "task" => registry' = None
      /\ close' \in BOOLEAN
  BY AsItWas, DestroyFades, AfterGetFades DEF RunAnswered
<1>2. WindsDown
  BY <1>1, AsItWas DEF RunAnswered, WindsDown, bounds
<1>3. /\ run' \in Runs /\ run.pc = "await" /\ ses[run.session].done
      /\ \/ run' = NoRun /\ registered' = None
         \/ run'.pc = "destroy" /\ registry' = None /\ run'.session = registry
            /\ UNCHANGED registered /\ run'.item = run.item
  BY <1>1, RunAsItWas, NoRunIsRun DEF RunAnswered, Runs, Released, None
<1>4. ~(IsAlive(registry)' /\ ses'[registry'].handler # None)
  <2> SUFFICES ASSUME IsAlive(registry)', ses'[registry'].handler # None PROVE FALSE
    OBVIOUS
  <2>1. /\ registry' = registry /\ IsAlive(registry) /\ ses[registry].handler # None
    BY <1>2, WindingDown
  <2>2. run.session = registry /\ registry \in Cs
    BY <2>1, RunAsItWas DEF SInv, RunParts, HandlerOfLiveRun, IsAlive
  <2>3. ses[registry].dead
    BY <1>3, <2>1, <2>2, UnchangedFades DEF SessionOK
  <2>4. QED
    BY <2>1, <2>3 DEF IsAlive
<1>5. QED
  BY <1>1, <1>2, <1>3, <1>4, AsItWas, RunLeaves DEF RunAnswered, bounds

LEMMA RunTimesOutStep ==
  ASSUME SInv, RunTimesOut PROVE SInv'
<1>1. WindsDown
  BY AsItWas, DestroyFades DEF RunTimesOut, WindsDown
<1>2. /\ run' \in Runs /\ run.pc = "await" /\ run'.item = run.item
      /\ run'.pc = "destroy" /\ registry' = None /\ run'.session = registry /\ UNCHANGED registered
  BY DestroyFades, RunAsItWas DEF RunTimesOut, Runs, None
<1>3. faults' \in 0..MaxFaults
  BY AsItWas, BoundsNat DEF RunTimesOut
<1>4. QED
  BY <1>1, <1>2, <1>3, AsItWas, DestroyFades, RunLeaves DEF RunTimesOut

LEMMA RunEndsStep ==
  ASSUME SInv, RunEnds PROVE SInv'
<1>1. WindsDown
  BY AsItWas DEF RunEnds, WindsDown, bounds
<1>2. run' = NoRun /\ registered' = None /\ run.pc = "destroy" /\ close' \in BOOLEAN
  BY AsItWas DEF RunEnds, Released
<1>3. QED
  BY <1>1, <1>2, AsItWas, NoRunIsRun, RunLeaves DEF RunEnds, bounds

-----------------------------------------------------------------------------
(* Steps of a container that lives on: it takes what is in the files.      *)

LEMMA ContainerGoesOn ==
  ASSUME SInv, NEW c \in Cs, NEW q \in Containers, con' = [con EXCEPT ![c] = q],
         Live(c), q.name = con[c].name, q.code = con[c].code, q.phase \in {"query", "wait"},
         q.items \subseteq There, \A i \in q.items : written_for[i] = c \/ ses[c].dead,
         input' \subseteq input, initial' \in {initial, None}, close' \in BOOLEAN,
         output' \in Seq(OutputFiles), UNCHANGED <<host, bounds, written_for>>
  PROVE  SInv'
<1> USE TypesOneByOne DEF SInv
<1>1. /\ con' \in [Cs -> Containers] /\ con'[c] = q /\ \A d \in Cs : d # c => con'[d] = con[d]
  OBVIOUS
<1>2. \A d \in Cs : (Live(d)' <=> Live(d)) /\ con'[d].name = con[d].name /\ con'[d].code = con[d].code
  BY <1>1 DEF Live
<1>3. UNCHANGED <<ses, registry, registered, run, stopper, watcher, run_count, followups, spawned, faults>>
  BY DEF host, bounds
<1>4. STypeOK'
  <2>1. RegistryOK' /\ CountsOK' /\ stopper' \in Stoppers /\ run' \in Runs /\ ses' \in [Cs -> Sessions]
    BY <1>3 DEF RegistryOK, CountsOK, Stoppers, Runs, Cs, Items, Sessions
  <2>2. FilesOK'
    BY <1>3 DEF FilesOK, Items, Cs
  <2>3. QED
    BY <1>1, <2>1, <2>2, TypesOneByOnePrimed
<1>5. There' \subseteq There \cup {None}
  BY <1>1 DEF There
<1>6. RunParts'
  <2>1. SpawnsLeft' /\ RunKnowsSession' /\ NobodyRegistered' /\ HandlerOfLiveRun'
    BY <1>3 DEF RunParts, SpawnsLeft, RunKnowsSession, NobodyRegistered, HandlerOfLiveRun, Preparing, IsAlive
  <2>2. StableNameFree'
    BY <1>2, <1>3 DEF RunParts, StableNameFree
  <2>3. ItemIsNew'
    BY <1>3, <1>5 DEF RunParts, ItemIsNew, RunKnowsSession, Preparing
  <2>4. QED
    BY <2>1, <2>2, <2>3 DEF RunParts
<1>7. NamesInUse' /\ SessionParts' /\ OneUndead'
  BY <1>2, <1>3 DEF OtherParts, NamesInUse, SessionParts, OneUndead
<1>8. NotYet'
  BY <1>1, <1>2, <1>3 DEF OtherParts, NotYet
<1>9. FilesAddressed'
  BY <1>1, <1>2, <1>3 DEF OtherParts, FilesAddressed
<1>10. InputReachesItsContainer'
  BY <1>1, <1>3 DEF OtherParts, InputReachesItsContainer
<1>11. KnownItems'
  BY <1>3, <1>5 DEF KnownItems, Known
<1>12. QED
  BY <1>4, <1>6, <1>7, <1>8, <1>9, <1>10, <1>11 DEF OtherParts

LEMMA ContainerBootsStep ==
  ASSUME SInv, NEW c \in Cs, ContainerBoots(c) PROVE SInv'
<1> DEFINE q == [con[c] EXCEPT !.phase = "query", !.items = {initial} \cup input]
<1>1. CASE initial = None
  <2>1. con' \in [Cs -> Containers] /\ (\A d \in Cs : Dying(con[d], con'[d]))
    BY <1>1, OneContainerDies DEF ContainerBoots
  <2>2. WindsDown
    BY <1>1, <2>1, AsItWas DEF ContainerBoots, WindsDown, bounds, host
  <2>3. QED
    BY <1>1, <2>1, <2>2, AsItWas, SideStep DEF ContainerBoots, bounds, host
<1>2. CASE initial # None
  <2>1. con[c] \in Containers /\ con[c].phase = "boot" /\ Live(c)
    BY TypesOneByOne DEF SInv, ContainerBoots, Live
  <2>2. q \in Containers /\ q.name = con[c].name /\ q.code = con[c].code /\ q.phase = "query"
        /\ q.items = {initial} \cup input
    <3>1. {initial} \cup input \in SUBSET Items
      BY <1>2, TypesOneByOne DEF SInv, FilesOK
    <3>2. QED
      BY <2>1, <3>1 DEF Containers
  <2>3. con' = [con EXCEPT ![c] = q] /\ initial' = None /\ input' = {} /\ close' = FALSE
        /\ UNCHANGED <<host, output, bounds, written_for>>
    BY <1>2, <2>1, TypesOneByOne DEF SInv, ContainerBoots, Containers
  <2>4. q.items \subseteq There /\ \A i \in q.items : written_for[i] = c \/ ses[c].dead
    BY <1>2, <2>1, <2>2 DEF There, SInv, OtherParts, FilesAddressed
  <2>5. QED
    BY <2>1, <2>2, <2>3, <2>4, AsItWas, ContainerGoesOn
<1>3. QED
  BY <1>1, <1>2

LEMMA QueryEndsStep ==
  ASSUME SInv, NEW c \in Cs, QueryEnds(c) PROVE SInv'
<1> DEFINE q == [con[c] EXCEPT !.phase = "wait", !.items = {}]
           answer == [kind |-> "answer", items |-> con[c].items]
           pulse == [kind |-> "pulse", items |-> {}]
<1>1. con[c] \in Containers /\ con[c].phase = "query" /\ Live(c)
  BY TypesOneByOne DEF SInv, QueryEnds, Live
<1>2. q \in Containers /\ q.name = con[c].name /\ q.code = con[c].code /\ q.phase = "wait" /\ q.items = {}
  BY <1>1 DEF Containers
<1>3. con' = [con EXCEPT ![c] = q] /\ UNCHANGED <<host, input, initial, close, bounds, written_for>>
  BY <1>1, TypesOneByOne DEF SInv, QueryEnds, Containers
<1>4. output' \in Seq(OutputFiles)
  <2>1. answer \in OutputFiles /\ pulse \in OutputFiles
    BY <1>1 DEF OutputFiles, Containers
  <2>2. output' = output \o <<answer, pulse>>
    BY DEF QueryEnds
  <2> HIDE DEF answer, pulse
  <2>3. QED
    BY <2>1, <2>2, AsItWas
<1>5. QED
  BY <1>1, <1>2, <1>3, <1>4, AsItWas, ContainerGoesOn

LEMMA ReadsInputStep ==
  ASSUME SInv, NEW c \in Cs, ReadsInput(c) PROVE SInv'
<1> DEFINE q == [con[c] EXCEPT !.phase = "query", !.items = input]
<1>1. input' = {} /\ initial' = None /\ UNCHANGED <<host, close, output, bounds, written_for>>
  BY DEF ReadsInput
<1>2. CASE input = {}
  <2>1. WindsDown
    BY <1>1, <1>2, AsItWas DEF ReadsInput, WindsDown, bounds, host
  <2>2. QED
    BY <1>1, <1>2, <2>1, AsItWas, SideStep DEF ReadsInput, bounds, host
<1>3. CASE input # {}
  <2>1. con[c] \in Containers /\ con[c].phase = "wait" /\ Live(c)
    BY TypesOneByOne DEF SInv, ReadsInput, Live
  <2>2. q \in Containers /\ q.name = con[c].name /\ q.code = con[c].code /\ q.phase = "query"
        /\ q.items = input
    BY <2>1, TypesOneByOne DEF SInv, FilesOK, Containers
  <2>3. con' = [con EXCEPT ![c] = q]
    <3>1. con' = [con EXCEPT ![c].phase = "query", ![c].items = input]
      BY <1>3 DEF ReadsInput
    <3>2. QED
      BY <2>1, <3>1, TypesOneByOne DEF SInv, Containers
  <2>4. q.items \subseteq There /\ \A i \in q.items : written_for[i] = c \/ ses[c].dead
    BY <2>1, <2>2 DEF There, SInv, OtherParts, FilesAddressed
  <2>5. QED
    BY <1>1, <2>1, <2>2, <2>3, <2>4, AsItWas, ContainerGoesOn
<1>4. QED
  BY <1>2, <1>3

-----------------------------------------------------------------------------
(* Steps that hand an item to a container.                                 *)

LEMMA HandlerIsSet ==
  ASSUME NEW s \in Sessions, NEW i \in Items, SessionOK(s)
  PROVE  LET t == SetOutputHandler(s, i)
         IN  /\ t \in Sessions /\ SessionOK(t) /\ t.handler = i
             /\ t.dead = s.dead /\ t.returned = s.returned
<1>1. CancelTimer(s) \in {"off", "armed", "fired"} /\ CancelTimer(s) # "armed"
  BY DEF CancelTimer, Sessions
<1>2. QED
  BY <1>1 DEF SetOutputHandler, Sessions, SessionOK

LEMMA RunWarmStep ==
  ASSUME SInv, RunWarm PROVE SInv'
<1> DEFINE c == run.session
           t == SetOutputHandler(ses[c], run.item)
<1> USE TypesOneByOne DEF SInv
<1>1. /\ run.pc = "ensure" /\ run \in Runs /\ c # None /\ c \in Cs /\ registry \in {None, c}
      /\ run.item \in Items /\ run.item \notin There /\ c \in 0..spawned
  BY DEF RunWarm, Runs, RunParts, RunKnowsSession, ItemIsNew, Preparing, None
<1>2. /\ registered' = c /\ ses' = [ses EXCEPT ![c] = t] /\ input' = input \cup {run.item}
      /\ written_for' = [written_for EXCEPT ![run.item] = c]
      /\ run' = [run EXCEPT !.pc = "await"]
      /\ UNCHANGED <<con, registry, stopper, watcher, initial, close, output, run_count, followups,
                     spawned, faults>>
  BY DEF RunWarm, bounds
<1>3. /\ run' \in Runs /\ run'.pc = "await" /\ run'.session = c /\ run'.item = run.item
      /\ run'.kind = run.kind
  BY <1>1, <1>2 DEF Runs
<1>4. ses[c] \in Sessions /\ SessionOK(ses[c])
  BY <1>1, UnchangedFades
<1>5. /\ t \in Sessions /\ SessionOK(t) /\ t.handler = run.item
      /\ t.dead = ses[c].dead /\ t.returned = ses[c].returned
  BY <1>1, <1>4, HandlerIsSet
<1> HIDE DEF t
<1>6. /\ ses' \in [Cs -> Sessions] /\ ses'[c] = t /\ \A d \in Cs : d # c => ses'[d] = ses[d]
      /\ \A d \in Cs : SessionOK(ses'[d]) /\ ses'[d].dead = ses[d].dead
  BY <1>1, <1>2, <1>5, UnchangedFades
<1>7. STypeOK'
  <2>1. RegistryOK' /\ CountsOK' /\ stopper' \in Stoppers /\ con' \in [Cs -> Containers]
    BY <1>1, <1>2, <1>3 DEF RegistryOK, CountsOK, Stoppers, Cs, Items, Containers
  <2>2. FilesOK'
    BY <1>1, <1>2 DEF FilesOK, Items, Cs
  <2>3. QED
    BY <1>3, <1>6, <2>1, <2>2, TypesOneByOnePrimed
<1>8. RunParts'
  <2>1. SpawnsLeft' /\ NobodyRegistered' /\ StableNameFree' /\ ItemIsNew'
    BY <1>3 DEF SpawnsLeft, NobodyRegistered, StableNameFree, ItemIsNew, Preparing
  <2>2. RunKnowsSession'
    BY <1>1, <1>2, <1>3 DEF RunKnowsSession, Items, None
  <2>3. HandlerOfLiveRun'
    BY <1>1, <1>2, <1>3, <1>5, <1>6 DEF HandlerOfLiveRun, IsAlive
  <2>4. QED
    BY <2>1, <2>2, <2>3 DEF RunParts
<1>9. NamesInUse' /\ SessionParts' /\ NotYet'
  BY <1>2, <1>6 DEF OtherParts, NamesInUse, SessionParts, NotYet, Live
<1>10. OneUndead'
  BY <1>2, <1>6 DEF OtherParts, OneUndead, Live
<1>11. \A i \in There : written_for'[i] = written_for[i] \/ i = None
  BY <1>1, <1>2 DEF There, KnownItems, FilesOK
<1>12. FilesAddressed'
  <2> SUFFICES ASSUME NEW d \in Cs, Live(d)', ~ses'[d].dead
               PROVE  /\ \A i \in input' : written_for'[i] = d
                      /\ con'[d].phase = "boot" /\ initial' # None => written_for'[initial'] = d
    BY DEF FilesAddressed
  <2>1. Live(d) /\ ~ses[d].dead /\ d = c
    BY <1>1, <1>2, <1>6 DEF OtherParts, OneUndead, Live, Cs, None
  <2>2. written_for'[run.item] = d
    BY <1>1, <1>2, <2>1 DEF FilesOK
  <2>3. QED
    BY <1>2, <1>11, <2>1, <2>2 DEF OtherParts, FilesAddressed, There, FilesOK, Items, None
<1>13. InputReachesItsContainer'
  BY <1>2, <1>6, <1>11 DEF OtherParts, InputReachesItsContainer, There, Containers, Items, None
<1>14. KnownItems'
  BY <1>2, <1>3 DEF KnownItems, There, Known
<1>15. QED
  BY <1>7, <1>8, <1>9, <1>10, <1>12, <1>13, <1>14 DEF OtherParts

LEMMA RunSpawnsStep ==
  ASSUME SInv, RunSpawns PROVE SInv'
<1> DEFINE c == spawned + 1
           name == IF run.kind = "task" THEN OneshotName(c) ELSE StableName
           q == [Unborn EXCEPT !.name = name, !.phase = "boot"]
           t == SetOutputHandler([NoSession EXCEPT !.idle = ArmTimer(c)], run.item)
<1> USE TypesOneByOne DEF SInv
<1>1. /\ run.pc = "spawn" /\ run \in Runs /\ registry = None /\ run.item \in Items /\ run.item \notin There
      /\ spawned < run_count /\ c \in Cs /\ spawned \in Nat /\ c \in 0..c /\ run_count \in Nat
  BY BoundsNat DEF RunSpawns, Runs, RunParts, RunKnowsSession, ItemIsNew, SpawnsLeft, Preparing, CountsOK, Cs, None
<1>2. ~NameTaken(name)
  BY <1>1 DEF NameTaken, RunParts, OtherParts, StableNameFree, NamesInUse, OneshotName, StableName, Runs, Cs, None
<1>3. /\ con' = [con EXCEPT ![c] = q] /\ ses' = [ses EXCEPT ![c] = t]
      /\ run' = [run EXCEPT !.pc = "await", !.session = c]
      /\ written_for' = [written_for EXCEPT ![run.item] = c]
      /\ registry' = c /\ registered' = c /\ spawned' = c
      /\ initial' = run.item /\ input' = {} /\ close' = FALSE /\ output' = <<>>
      /\ UNCHANGED <<stopper, watcher, run_count, followups, faults>>
  BY <1>2 DEF RunSpawns, CleanedInput
<1>4. /\ run' \in Runs /\ run'.pc = "await" /\ run'.session = c /\ run'.item = run.item
      /\ run'.kind = run.kind
  BY <1>1, <1>3 DEF Runs
<1>5. /\ q \in Containers /\ q.name \in {c, None} /\ q.phase = "boot" /\ q.code = 0 /\ q.items = {}
  BY <1>1 DEF Unborn, Containers, OneshotName, StableName, None
<1>6. t \in Sessions /\ SessionOK(t) /\ t.handler = run.item
  <2> DEFINE s == [NoSession EXCEPT !.idle = ArmTimer(c)]
  <2>1. ArmTimer(c) \in {"off", "armed", "fired"}
    BY <1>1 DEF ArmTimer, Sessions
  <2>2. s \in Sessions /\ SessionOK(s)
    BY <2>1 DEF NoSession, Sessions, SessionOK, None
  <2>3. QED
    BY <1>1, <2>2, HandlerIsSet
<1> HIDE DEF c, q, t, name
<1>7. /\ ses' \in [Cs -> Sessions] /\ ses'[c] = t /\ \A d \in Cs : d # c => ses'[d] = ses[d]
      /\ con' \in [Cs -> Containers] /\ con'[c] = q /\ \A d \in Cs : d # c => con'[d] = con[d]
  BY <1>1, <1>3, <1>5, <1>6
<1>8. c = spawned + 1 /\ c # None
  BY <1>1 DEF c, None
<1>9. STypeOK'
  <2>1. RegistryOK' /\ CountsOK' /\ stopper' \in Stoppers
    BY <1>1, <1>3, <1>4, <1>8 DEF RegistryOK, CountsOK, Stoppers, Cs
  <2>2. FilesOK'
    <3>1. output' \in Seq(OutputFiles)
      BY <1>3
    <3>2. written_for' \in [Items -> Cs \cup {None}]
      BY <1>1, <1>3 DEF FilesOK
    <3>3. QED
      BY <1>1, <1>3, <3>1, <3>2 DEF FilesOK, Items, Cs
  <2>3. QED
    BY <1>4, <1>7, <2>1, <2>2, TypesOneByOnePrimed
<1>10. RunParts'
  <2>1. SpawnsLeft' /\ NobodyRegistered' /\ StableNameFree' /\ ItemIsNew'
    BY <1>4 DEF SpawnsLeft, NobodyRegistered, StableNameFree, ItemIsNew, Preparing
  <2>2. RunKnowsSession'
    BY <1>1, <1>3, <1>4, <1>8 DEF RunKnowsSession, Items, None
  <2>3. HandlerOfLiveRun'
    BY <1>3, <1>4, <1>6, <1>7 DEF HandlerOfLiveRun, IsAlive
  <2>4. QED
    BY <2>1, <2>2, <2>3 DEF RunParts
<1>11. NamesInUse'
  BY <1>1, <1>3, <1>5, <1>7, <1>8 DEF OtherParts, NamesInUse, Containers, Cs, None
<1>12. SessionParts'
  BY <1>6, <1>7 DEF OtherParts, SessionParts
<1>13. NotYet'
  BY <1>1, <1>3, <1>5, <1>7, <1>8 DEF OtherParts, NotYet, Live, Cs
<1>14. OneUndead'
  BY <1>1, <1>3, <1>7, <1>8 DEF OtherParts, OneUndead, Live, Cs, None
<1>15. \A d \in Cs : \A i \in con[d].items : written_for'[i] = written_for[i]
  BY <1>1, <1>3 DEF There
<1>16. FilesAddressed'
  BY <1>1, <1>3, <1>14 DEF OneUndead, FilesAddressed, FilesOK
<1>17. InputReachesItsContainer'
  BY <1>5, <1>7, <1>15 DEF OtherParts, InputReachesItsContainer
<1>18. KnownItems'
  BY <1>1, <1>3, <1>4, <1>5, <1>7 DEF KnownItems, There, Known
<1>19. QED
  BY <1>9, <1>10, <1>11, <1>12, <1>13, <1>14, <1>16, <1>17, <1>18 DEF OtherParts

LEMMA FollowUpStep ==
  ASSUME SInv, FollowUp PROVE SInv'
<1> USE TypesOneByOne DEF SInv
<1>1. /\ registered # None /\ NewItem \in Items /\ NewItem \notin There /\ NewItem # None
      /\ NewItem \notin Known /\ registered \in Cs /\ run.pc \in {"await", "destroy"}
  BY NewItemIsNew, BoundsNat DEF FollowUp, RegistryOK, CountsOK, Cs, None
<1>2. /\ followups' = followups + 1 /\ followups' \in 0..MaxFollowUps
      /\ input' = input \cup {NewItem} /\ written_for' = [written_for EXCEPT ![NewItem] = registered]
      /\ UNCHANGED <<con, ses, registry, registered, run, stopper, watcher, initial, close, output,
                     run_count, spawned, faults>>
  BY BoundsNat DEF FollowUp, host, CountsOK
<1>3. STypeOK'
  <2>1. RegistryOK' /\ CountsOK' /\ stopper' \in Stoppers /\ con' \in [Cs -> Containers]
        /\ ses' \in [Cs -> Sessions] /\ run' \in Runs
    BY <1>2 DEF RegistryOK, CountsOK, Stoppers, Cs, Items, Containers, Sessions, Runs
  <2>2. FilesOK'
    BY <1>1, <1>2 DEF FilesOK, Items, Cs
  <2>3. QED
    BY <2>1, <2>2, TypesOneByOnePrimed
<1>4. RunParts'
  <2>1. SpawnsLeft' /\ RunKnowsSession' /\ NobodyRegistered' /\ HandlerOfLiveRun'
    BY <1>2 DEF RunParts, SpawnsLeft, RunKnowsSession, NobodyRegistered, HandlerOfLiveRun, Preparing, IsAlive
  <2>2. StableNameFree' /\ ItemIsNew'
    BY <1>1, <1>2 DEF StableNameFree, ItemIsNew, Preparing
  <2>3. QED
    BY <2>1, <2>2 DEF RunParts
<1>5. NamesInUse' /\ SessionParts' /\ NotYet' /\ OneUndead'
  BY <1>2 DEF OtherParts, NamesInUse, SessionParts, NotYet, OneUndead, Live
<1>6. \A i \in There : written_for'[i] = written_for[i] \/ i = None
  BY <1>1, <1>2 DEF There, FilesOK
<1>7. FilesAddressed'
  <2> SUFFICES ASSUME NEW d \in Cs, Live(d)', ~ses'[d].dead
               PROVE  /\ \A i \in input' : written_for'[i] = d
                      /\ con'[d].phase = "boot" /\ initial' # None => written_for'[initial'] = d
    BY DEF FilesAddressed
  <2>1. Live(d) /\ ~ses[d].dead /\ d = registry /\ d # None
    BY <1>2 DEF OtherParts, OneUndead, Live, Cs, None
  <2>2. d = registered
    BY <1>1, <2>1 DEF RunParts, RunKnowsSession, NobodyRegistered
  <2>3. written_for'[NewItem] = d
    BY <1>1, <1>2, <2>2 DEF FilesOK
  <2>4. QED
    BY <1>2, <1>6, <2>1, <2>3 DEF OtherParts, FilesAddressed, There, FilesOK, Items, None
<1>8. InputReachesItsContainer'
  BY <1>2, <1>6 DEF OtherParts, InputReachesItsContainer, There, Containers, Items, None
<1>9. KnownItems'
  <2>1. Known \subseteq Known' /\ NewItem \in Known'
    BY <1>2, NewItemIsNew DEF Known, NewItem, CountsOK
  <2>2. QED
    BY <1>2, <2>1 DEF KnownItems, There
<1>10. QED
  BY <1>3, <1>4, <1>5, <1>7, <1>8, <1>9 DEF OtherParts

-----------------------------------------------------------------------------
(* The invariant of every behaviour.                                       *)

LEMMA InvariantAtFirst == SInit => SInv
<1> SUFFICES ASSUME SInit PROVE SInv
  OBVIOUS
<1>1. NoRun \in Runs /\ NoRun.pc = "idle" /\ NoRun.item = None /\ NoRun.session = None
  BY NoRunIsRun
<1>2. /\ Unborn \in Containers /\ Unborn.phase = "none" /\ Unborn.items = {} /\ Unborn.code = 0
      /\ Unborn.name = None
  BY DEF Unborn, Containers, None
<1>3. NoSession \in Sessions /\ SessionOK(NoSession)
  BY DEF NoSession, Sessions, SessionOK, None
<1>4. NoStopper \in Stoppers /\ NoFile \in [kind : {"none", "answer", "pulse"}, items : SUBSET Items]
  BY DEF NoStopper, Stoppers, NoFile, None
<1>5. /\ \A c \in Cs : con[c] = Unborn /\ ses[c] = NoSession /\ ~Live(c)
      /\ con \in [Cs -> Containers] /\ ses \in [Cs -> Sessions]
  BY <1>2, <1>3 DEF SInit, Live
<1>6. STypeOK
  <2>1. RegistryOK /\ CountsOK
    BY BoundsNat DEF SInit, RegistryOK, CountsOK, None
  <2>2. FilesOK
    <3>1. output \in Seq(OutputFiles) /\ written_for \in [Items -> Cs \cup {None}]
      BY DEF SInit
    <3>2. QED
      BY <1>4, <3>1 DEF SInit, FilesOK
  <2>3. QED
    BY <1>1, <1>4, <1>5, <2>1, <2>2, TypesOneByOne DEF SInit
<1>7. RunParts
  BY <1>1 DEF SInit, RunParts, SpawnsLeft, RunKnowsSession, NobodyRegistered, StableNameFree, ItemIsNew,
              HandlerOfLiveRun, Preparing, IsAlive, None
<1>8. NamesInUse /\ SessionParts /\ NotYet /\ OneUndead /\ FilesAddressed
  BY <1>2, <1>3, <1>5 DEF SInit, NamesInUse, SessionParts, NotYet, OneUndead, FilesAddressed, None
<1>9. InputReachesItsContainer
  BY <1>2, <1>5 DEF InputReachesItsContainer
<1>10. KnownItems
  BY <1>1, <1>2, <1>5 DEF SInit, KnownItems, There
<1>11. QED
  BY <1>6, <1>7, <1>8, <1>9, <1>10 DEF SInv, OtherParts

LEMMA InvariantKept == SInv /\ [SNext]_svars => SInv'
<1> SUFFICES ASSUME SInv, [SNext]_svars PROVE SInv'
  OBVIOUS
<1>1. CASE RunStep
  BY <1>1, RunStartsStep, RunCleanedStep, RunChoosesStep, RunWarmStep, RunRemovesStep, RunSpawnsStep,
     RunFailsStep, RunAnsweredStep, RunTimesOutStep, RunEndsStep DEF RunStep
<1>2. CASE RequestStep
  BY <1>2, FollowUpStep, CloseStdinStep, InterruptStep, TeardownStep, StopBeginsStep, StopRegisteredStep
     DEF RequestStep
<1>3. CASE WatcherStep
  BY <1>3, WatcherDispatchesStep, WatcherSkipsStep, WatcherFinishesStep DEF WatcherStep
<1>4. ASSUME NEW c \in Cs, SessionStep(c) PROVE SInv'
  BY <1>4, StopKillsStep, StopExitedStep, StopRemovesStep, MonitorProcStep, IdleExpiresStep, IdleTeardownStep
     DEF SessionStep
<1>5. ASSUME NEW c \in Cs, ContainerStep(c) PROVE SInv'
  BY <1>5, ContainerBootsStep, QueryEndsStep, SeesCloseStep, ReadsInputStep, AgentExitsStep,
     ContainerCrashesStep DEF ContainerStep
<1>6. CASE UNCHANGED svars
  <2>1. UNCHANGED <<con, ses, registry, registered, run, stopper, watcher, input, initial, close, output,
                    run_count, followups, spawned, faults, written_for>>
    BY <1>6 DEF svars, host, files, bounds
  <2>2. WindsDown
    BY <2>1, AsItWas DEF WindsDown
  <2>3. QED
    BY <2>1, <2>2, AsItWas, SideStep
<1>7. QED
  BY <1>1, <1>2, <1>3, <1>4, <1>5, <1>6 DEF SNext

\* The inductive invariant holds for every number of runs, follow-ups and faults.
THEOREM SessionInvariant == SSpec => []SInv
<1>1. SInit => SInv
  BY InvariantAtFirst
<1>2. SInv /\ [SNext]_svars => SInv'
  BY InvariantKept
<1>3. QED
  BY <1>1, <1>2, PTL DEF SSpec

\* Every variable keeps its type: in particular a process is registered only for a run
\* that awaits its query or the end of its session.
THEOREM SessionTypes == SSpec => []STypeOK
<1>1. SInv => STypeOK
  BY DEF SInv
<1>2. QED
  BY <1>1, SessionInvariant, PTL

\* create_session never finds a session to stop, docker run never meets a name in use,
\* the handler of the watcher is the one of the run that waits, and no idle timer runs
\* during a query: session.py and agent_runner.py rely on all four and check none.
THEOREM SessionIsSound == SSpec => []SessionSound
<1>1. SInv => SessionSound
  BY DEF SInv, RunParts, OtherParts, SessionSound, CreateFindsNoSession, NobodyRegistered,
         NoNameConflict, NamesInUse, TimerOnlyWhenIdle, SessionParts, SessionOK, HandlerOfLiveRun,
         IsAlive, STypeOK, Cs, None
<1>2. QED
  BY <1>1, SessionInvariant, PTL

\* What is written to the input directory is read by the container it was written for,
\* or by one whose stop has begun: the directory is shared by all containers of a group.
THEOREM InputIsRead == SSpec => []InputReachesItsContainer
<1>1. SInv => InputReachesItsContainer
  BY DEF SInv, OtherParts
<1>2. QED
  BY <1>1, SessionInvariant, PTL

\* Only the container of the registered session runs with a session that is not being
\* stopped, although a container in its stop and its successor may both be running.
THEOREM OneContainerInUse == SSpec => [](\A c, d \in Cs : Live(c) /\ Live(d) /\ ~ses[c].dead /\ ~ses[d].dead => c = d)
<1>1. SInv => \A c, d \in Cs : Live(c) /\ Live(d) /\ ~ses[c].dead /\ ~ses[d].dead => c = d
  BY DEF SInv, OtherParts, OneUndead
<1>2. QED
  BY <1>1, SessionInvariant, PTL
=============================================================================
